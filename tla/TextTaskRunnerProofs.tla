------------------------ MODULE TextTaskRunnerProofs ------------------------
(***************************************************************************)
(* The runner implements the Broker's specification, for every value of    *)
(* the constants: each of its steps is, seen at the Broker, one method of  *)
(* the Broker or nothing.  So what is proved of the Broker holds of the    *)
(* composition.                                                            *)
(***************************************************************************)
EXTENDS TextTaskRunner, ModelRequestBrokerProofs

\* One step of the Broker, or none.
BrokerStep == [Next]_brokerVars

\* Acquiring out of the requests of one owner is a case of acquire_next().
LEMMA AcquireStep ==
  ASSUME NEW r \in Requests, NEW ids, Acquire(r, ids)
  PROVE  BrokerStep
BY DEF Acquire, BrokerStep, Next

\* Both verdicts the owners acknowledge with are the Broker's.
LEMMA CompleteStep ==
  ASSUME NEW r \in Requests, NEW v \in {"COMPLETED", "FAILED"}, Complete(r, v)
  PROVE  BrokerStep
BY DEF BrokerStep, Next

\* _cancel_locked() cancels at the Broker what is still there, and no more.
LEMMA CancelLockedStep ==
  ASSUME NEW r \in Requests, CancelLocked(r)
  PROVE  BrokerStep
<1>1. CASE CancelQueued(r)
  BY <1>1 DEF CancelQueued, BrokerStep, Next
<1>2. CASE CancelRunning(r)
  BY <1>2 DEF CancelRunning, BrokerStep, Next
<1>3. CASE CancelAnswered(r)
  BY <1>3 DEF CancelAnswered, BrokerStep
<1>. QED BY <1>1, <1>2, <1>3 DEF CancelLocked

\* _finish() is one complete() at the Broker.
LEMMA FinishStep ==
  ASSUME NEW r \in Requests, NEW outcome, Finish(r, outcome)
  PROVE  BrokerStep
<1>1. (IF outcome = "error" THEN "FAILED" ELSE "COMPLETED") \in {"COMPLETED", "FAILED"}
  OBVIOUS
<1>. QED BY <1>1, CompleteStep DEF Finish

\* Every step of the runner is a step of the Broker or leaves it alone.
LEMMA RunnerStep == [RunnerNext]_allVars => BrokerStep
<1> SUFFICES ASSUME [RunnerNext]_allVars PROVE BrokerStep
  OBVIOUS
<1>1. ASSUME NEW r \in Requests, NEW k \in TextKinds, NEW d \in 1..NoDeadline, SubmitText(r, k, d)
      PROVE  BrokerStep
  BY <1>1 DEF SubmitText, TextKinds, BrokerStep, Next
<1>2. ASSUME NEW r \in Requests, Cancel(r) \/ Expire(r) \/ Reconcile(r) \/ PrepareRevoked(r) \/ CloseCancel(r)
      PROVE  BrokerStep
  BY <1>2, CancelLockedStep DEF Cancel, Expire, Reconcile, PrepareRevoked, CloseCancel
<1>3. ASSUME NEW r \in Requests, CollectDone(r) \/ PrepareRaises(r) \/ Settle(r) \/ LaunchFails(r)
      PROVE  BrokerStep
  BY <1>3, FinishStep DEF CollectDone, PrepareRaises, Settle, LaunchFails
<1>4. ASSUME NEW r \in Requests, Admit(r) \/ VisualAcquires(r)
      PROVE  BrokerStep
  BY <1>4, AcquireStep DEF Admit, VisualAcquires
<1>5. ASSUME NEW r \in Requests, VisualCompletes(r)
      PROVE  BrokerStep
  BY <1>5, CompleteStep DEF VisualCompletes
<1>6. ASSUME NEW r \in Requests, NEW k \in {k \in Kinds : ~k.control}, VisualSubmits(r, k)
      PROVE  BrokerStep
  BY <1>6 DEF VisualSubmits, BrokerStep, Next
<1>7. ASSUME NEW r \in Requests, PrepareOverruled(r) \/ Launch(r)
      PROVE  BrokerStep
  BY <1>7 DEF PrepareOverruled, Launch, BrokerStep
<1>8. ASSUME NEW p, PumpBegin(p)
      PROVE  BrokerStep
  BY <1>8 DEF PumpBegin, BrokerStep
<1>9. ASSUME ServiceDone \/ PumpEnd \/ CloseBegin \/ CloseJoin \/ JoinEnds \/ CloseEnd
      PROVE  BrokerStep
  BY <1>9 DEF ServiceDone, PumpEnd, CloseBegin, CloseJoin, JoinEnds, CloseEnd, BrokerStep
<1>10. ASSUME NEW r \in Requests, NEW outcome, ThreadReturns(r, outcome)
       PROVE  BrokerStep
  BY <1>10 DEF ThreadReturns, BrokerStep
<1>11. ASSUME Clock
       PROVE  BrokerStep
  BY <1>11 DEF Clock, BrokerStep, Next
<1>12. ASSUME UNCHANGED allVars
       PROVE  BrokerStep
  BY <1>12 DEF allVars, BrokerStep
<1>. QED BY <1>1, <1>2, <1>3, <1>4, <1>5, <1>6, <1>7, <1>8, <1>9, <1>10, <1>11, <1>12
        DEF RunnerNext, Service, Admission, Close

\* The runner, composed with the visual owner, drives the Broker only through
\* its methods and never around them.
THEOREM RunnerImplementsBroker == RunnerSpec => Spec
<1>1. RunnerInit => Init
  BY DEF RunnerInit
<1>. QED BY <1>1, RunnerStep, PTL DEF RunnerSpec, Spec, BrokerStep

\* So a request has at most one verdict in the composition, too, and running
\* calls stay within the Broker's limits, whichever way the runner's pump,
\* deadlines, threads and close() interleave.
THEOREM RunnerKeepsBrokerSafe == RunnerSpec => [](OneVerdict /\ WithinLimits)
BY RunnerImplementsBroker, BrokerOneVerdict, BrokerWithinLimits, PTL

\* And so do the Broker's rules of urgency: whenever a thread of the runner pumps,
\* no lease goes past more urgent work, an aged review is not passed by later
\* ones, and what a submission takes away it takes for something as urgent.
THEOREM RunnerKeepsUrgency ==
  RunnerSpec => NoBypass /\ AgedNotPassed /\ TakenOnlyForUrgent /\ UrgentSettles
BY RunnerImplementsBroker, BrokerNoBypass, BrokerAgedNotPassed, BrokerTakenOnlyForUrgent,
   BrokerUrgentSettles, PTL

-----------------------------------------------------------------------------
(***************************************************************************)
(* The runner's own invariants.  All but the place of the owner thread is  *)
(* a matter of one request: RequestInv(q) relates what the runner and the  *)
(* Broker know of q, and a step changes it for the request it is about and *)
(* for those a submission takes something from.                            *)
(***************************************************************************)

\* An answer x to q that can be given or has been: the Broker has its verdict.
Fits(q, x) ==
  /\ logs[q] # <<>>
  /\ x = "value" => logs[q] = <<"COMPLETED">>
  /\ x = "error" => logs[q] = <<"FAILED">>

\* Whose request it is.
OwnerInv(q) ==
  /\ q \in tasks => Text(q)
  /\ q \in pending /\ Text(q) => q \in tasks
  /\ q \in active <=> q \in inflight /\ Text(q)

\* Who computes and who waits.
WorkInv(q) ==
  /\ thread[q] # "none" => q \in active
  /\ q \in revoked => q \in preempted
  /\ q \in tasks \ active => q \in pending \/ Stale(q)

\* What has been answered, and written down.
AnswerInv(q) ==
  /\ results[q] # "none" => delivered[q] = <<>> /\ Fits(q, results[q])
  /\ delivered[q] # <<>> => \E x \in Answers : delivered[q] = <<x>> /\ Fits(q, x)
  /\ q \in tasks \ revoked => results[q] = "none" /\ delivered[q] = <<>>
  /\ q \in revoked => results[q] # "none" \/ delivered[q] # <<>>
  /\ q \in emitted => logs[q] # <<>>
  /\ q \notin tasks /\ Text(q) /\ logs[q] # <<>> => q \in emitted

RequestInv(q) == OwnerInv(q) /\ WorkInv(q) /\ AnswerInv(q)

\* Where the owner thread is says which lease is being prepared, and that
\* close() waits for revoked calls only.
PlaceInv ==
  /\ pc \notin {"prepare", "settle"} => Preparing = {}
  /\ \A r, q \in Preparing : r = q
  /\ pc = "settle" => Preparing \subseteq revoked
  /\ pc \in {"joining", "drain"} => tasks \subseteq revoked

RunnerInv ==
  /\ BrokerInv
  /\ RunnerTypeOK
  /\ \A q \in Requests : RequestInv(q)
  /\ PlaceInv

\* Nothing the runner or the Broker knows of q changes.
Same(q) ==
  /\ kind'[q] = kind[q] /\ logs'[q] = logs[q]
  /\ thread'[q] = thread[q] /\ results'[q] = results[q] /\ delivered'[q] = delivered[q]
  /\ q \in pending' <=> q \in pending
  /\ q \in inflight' <=> q \in inflight
  /\ q \in preempted' <=> q \in preempted
  /\ q \in tasks' <=> q \in tasks
  /\ q \in active' <=> q \in active
  /\ q \in revoked' <=> q \in revoked
  /\ q \in emitted' <=> q \in emitted

LEMMA SameKeeps ==
  ASSUME NEW q \in Requests, RequestInv(q), Same(q)
  PROVE  RequestInv(q)'
<1>1. OwnerInv(q)'
  BY DEF RequestInv, Same, OwnerInv, Text
<1>2. WorkInv(q)'
  BY DEF RequestInv, Same, WorkInv, Stale
<1>3. AnswerInv(q)'
  BY DEF RequestInv, Same, AnswerInv, Fits, Text
<1>. QED BY <1>1, <1>2, <1>3 DEF RequestInv

\* A verdict among the stale ones makes a request stale.
LEMMA OneStale ==
  ASSUME NEW q, NEW v \in StaleVerdicts, logs'[q] = <<v>>
  PROVE  Stale(q)' /\ logs'[q] # <<>>
<1>1. \E i \in DOMAIN <<v>> : <<v>>[i] \in StaleVerdicts
  BY SingleVerdict
<1>2. <<v>> # <<>>
  OBVIOUS
<1>. QED BY <1>1, <1>2 DEF Stale

LEMMA StaleDecided ==
  ASSUME NEW q, Stale(q)
  PROVE  logs[q] # <<>>
BY DEF Stale

\* The types make the clauses of a request meaningful.
LEMMA RunnerSets ==
  ASSUME RunnerInv
  PROVE  /\ pending \subseteq Requests /\ inflight \subseteq Requests
         /\ preempted \subseteq inflight /\ pending \cap inflight = {}
         /\ active \subseteq tasks /\ revoked \subseteq active /\ tasks \subseteq Requests
         /\ \A q \in pending \cup (inflight \ preempted) : logs[q] = <<>>
         /\ \A q \in preempted : Stale(q)
BY DEF RunnerInv, BrokerInv, TypeOK, Submitted, OneVerdict, RunnerTypeOK

-----------------------------------------------------------------------------
(* Submissions                                                              *)

\* A request nobody has used is unknown to the runner.
LEMMA UnusedUnknown ==
  ASSUME RunnerInv, NEW r \in Requests, Unused(r)
  PROVE  /\ r \notin tasks /\ r \notin active /\ r \notin revoked /\ r \notin emitted
         /\ thread[r] = "none" /\ results[r] = "none" /\ delivered[r] = <<>>
<1>1. RequestInv(r)
  BY DEF RunnerInv
<1>2. ~Stale(r)
  BY DEF Unused, Stale
<1>3. r \notin active
  BY <1>1 DEF Unused, RequestInv, OwnerInv
<1>4. r \notin tasks
  BY <1>1, <1>2, <1>3 DEF Unused, RequestInv, WorkInv
<1>. QED BY <1>1, <1>3, <1>4, RunnerSets DEF Unused, RequestInv, WorkInv, AnswerInv, Fits

\* Queued work that a submission supersedes or evicts: the runner will find its
\* verdict in the log.
LEMMA LostKeeps ==
  ASSUME RunnerInv, NEW q \in pending, NEW v \in StaleVerdicts,
         logs'[q] = <<v>>, q \notin pending', q \notin inflight', q \notin preempted',
         kind'[q] = kind[q], UNCHANGED <<active, thread, results, revoked, emitted, delivered>>,
         q \in tasks' <=> q \in tasks
  PROVE  RequestInv(q)'
<1>1. RequestInv(q) /\ q \in Requests /\ logs[q] = <<>> /\ q \notin inflight /\ q \notin preempted
  BY RunnerSets DEF RunnerInv
<1>2. Stale(q)' /\ logs'[q] # <<>>
  BY OneStale
<1>3. OwnerInv(q)'
  BY <1>1 DEF RequestInv, OwnerInv, Text
<1>4. WorkInv(q)'
  BY <1>1, <1>2 DEF RequestInv, WorkInv
<1>5. AnswerInv(q)'
  BY <1>1, <1>2 DEF RequestInv, OwnerInv, AnswerInv, Fits, Text
<1>. QED BY <1>3, <1>4, <1>5 DEF RequestInv

\* A lease that a submission revokes: its thread goes on, without a result.
LEMMA PreemptedKeeps ==
  ASSUME RunnerInv, NEW q \in inflight \ preempted, NEW v \in StaleVerdicts,
         logs'[q] = <<v>>, q \notin pending', q \in inflight', q \in preempted',
         kind'[q] = kind[q], UNCHANGED <<active, thread, results, revoked, emitted, delivered>>,
         q \in tasks' <=> q \in tasks
  PROVE  RequestInv(q)'
<1>1. RequestInv(q) /\ q \in Requests /\ logs[q] = <<>>
  BY RunnerSets DEF RunnerInv
<1>2. Stale(q)' /\ logs'[q] # <<>>
  BY OneStale
<1>3. OwnerInv(q)'
  BY <1>1 DEF RequestInv, OwnerInv, Text
<1>4. WorkInv(q)'
  BY <1>1, <1>2 DEF RequestInv, WorkInv
<1>5. AnswerInv(q)'
  BY <1>1, <1>2, RunnerSets DEF RequestInv, OwnerInv, AnswerInv, Fits, Text
<1>. QED BY <1>3, <1>4, <1>5 DEF RequestInv

\* A submission keeps the invariant of every request but its own.
LEMMA SubmissionKeeps ==
  ASSUME RunnerInv, NEW r \in Requests, NEW k \in Kinds, SubmitAccepted(r, k),
         UNCHANGED <<active, thread, results, revoked, emitted, delivered>>,
         \A q \in Requests \ {r} : q \in tasks' <=> q \in tasks
  PROVE  /\ \A q \in Requests \ {r} : RequestInv(q)'
         /\ r \in pending' /\ r \notin inflight' /\ kind'[r] = k /\ logs'[r] = <<>>
<1>0. PICK evicted \in Evictions(k), revoked_ \in Revocations(k) :
        /\ pending' = (QueueAfter(k) \ evicted) \cup {r}
        /\ preempted' = preempted \cup revoked_
        /\ logs' \in [Requests -> Seq(Verdicts)]
        /\ \A q \in Requests :
             \/ logs'[q] = logs[q] /\ q \notin Superseded(k) \cup evicted \cup revoked_
             \/ /\ q \in Superseded(k) \cup evicted \cup revoked_
                /\ \E v \in StaleVerdicts : logs'[q] = <<v>>
  BY SubmitVerdicts DEF RunnerInv
<1>1. /\ Superseded(k) \subseteq pending /\ evicted \subseteq pending
      /\ revoked_ \subseteq inflight \ preempted
  BY TakenFact DEF QueueAfter
<1>2. /\ kind' = [kind EXCEPT ![r] = k] /\ inflight' = inflight
      /\ r \notin pending /\ r \notin inflight /\ logs[r] = <<>>
      /\ kind \in [Requests -> Kinds \cup {NoKind}]
  BY DEF SubmitAccepted, Unused, RunnerInv, BrokerInv, TypeOK
<1>3. ASSUME NEW q \in Requests \ {r} PROVE RequestInv(q)'
  <2>1. kind'[q] = kind[q] /\ RequestInv(q)
    BY <1>2 DEF RunnerInv
  <2>2. CASE q \notin Superseded(k) \cup evicted \cup revoked_
    <3>1. Same(q)
      BY <1>0, <1>2, <2>1, <2>2 DEF Same, QueueAfter
    <3>. QED BY <2>1, <3>1, SameKeeps
  <2>3. CASE q \in Superseded(k) \cup evicted
    <3>1. q \in pending /\ q \notin pending' /\ q \notin inflight' /\ q \notin preempted'
      BY <1>0, <1>1, <1>2, <2>3, RunnerSets DEF QueueAfter
    <3>2. PICK v \in StaleVerdicts : logs'[q] = <<v>>
      BY <1>0, <2>3
    <3>. QED BY <2>1, <3>1, <3>2, LostKeeps
  <2>4. CASE q \in revoked_
    <3>1. q \in inflight \ preempted /\ q \notin pending' /\ q \in inflight' /\ q \in preempted'
      BY <1>0, <1>1, <1>2, <2>4, RunnerSets DEF QueueAfter
    <3>2. PICK v \in StaleVerdicts : logs'[q] = <<v>>
      BY <1>0, <2>4
    <3>. QED BY <2>1, <3>1, <3>2, PreemptedKeeps
  <2>. QED BY <2>2, <2>3, <2>4
<1>4. r \in pending' /\ r \notin inflight' /\ kind'[r] = k
  BY <1>0, <1>2
<1>5. logs'[r] = <<>>
  BY <1>0, <1>1, <1>2
<1>. QED BY <1>3, <1>4, <1>5

\* So does one that the Broker refuses, of its own request too.
LEMMA RefusalKeeps ==
  ASSUME RunnerInv, NEW r \in Requests, NEW k \in Kinds, SubmitRefused(r, k),
         UNCHANGED <<tasks, active, thread, results, revoked, emitted, delivered>>
  PROVE  \A q \in Requests : RequestInv(q)'
<1> SUFFICES ASSUME NEW q \in Requests PROVE RequestInv(q)'
  OBVIOUS
<1>1. /\ pending' = pending \ Superseded(k) /\ Superseded(k) \subseteq pending
      /\ kind' = kind /\ inflight' = inflight /\ preempted' = preempted
      /\ logs' = Record(logs, Superseded(k), "SUPERSEDED")
  BY TakenFact DEF SubmitRefused, QueueAfter
<1>2. \A p \in Requests : logs'[p] = IF p \in Superseded(k) THEN <<"SUPERSEDED">> ELSE logs[p]
  <2>1. \A p \in Requests : p \in Superseded(k) => logs[p] = <<>>
    BY <1>1, RunnerSets
  <2>2. logs \in [Requests -> Seq(Verdicts)] /\ "SUPERSEDED" \in Verdicts
    BY DEF RunnerInv, BrokerInv, TypeOK, Verdicts, StaleVerdicts
  <2>. QED BY <1>1, <2>1, <2>2, RecordFact
<1>3. RequestInv(q)
  BY DEF RunnerInv
<1>4. CASE q \in Superseded(k)
  BY <1>1, <1>2, <1>4, RunnerSets, LostKeeps DEF StaleVerdicts
<1>5. CASE q \notin Superseded(k)
  <2>1. Same(q)
    BY <1>1, <1>2, <1>5 DEF Same
  <2>. QED BY <1>3, <2>1, SameKeeps
<1>. QED BY <1>4, <1>5

\* What is submitted belongs to its owner.
LEMMA SubmitTextKeeps ==
  ASSUME RunnerInv, NEW r \in Requests, NEW k \in TextKinds, NEW d \in 1..NoDeadline,
         SubmitText(r, k, d)
  PROVE  \A q \in Requests : RequestInv(q)'
<1>0. k \in Kinds
  BY DEF TextKinds
<1>1. CASE SubmitRefused(r, k) /\ UNCHANGED tasks
  BY <1>0, <1>1, RefusalKeeps DEF SubmitText
<1>2. CASE SubmitAccepted(r, k) /\ tasks' = tasks \cup {r}
  <2>1. /\ \A q \in Requests \ {r} : RequestInv(q)'
        /\ r \in pending' /\ r \notin inflight' /\ kind'[r] = k /\ logs'[r] = <<>>
    BY <1>0, <1>2, SubmissionKeeps DEF SubmitText
  <2>2. /\ r \notin tasks /\ r \notin active /\ r \notin revoked /\ r \notin emitted
        /\ thread[r] = "none" /\ results[r] = "none" /\ delivered[r] = <<>>
    BY <1>2, UnusedUnknown DEF SubmitAccepted
  <2>3. /\ r \notin active' /\ r \notin revoked' /\ r \notin emitted' /\ r \in tasks'
        /\ thread'[r] = "none" /\ results'[r] = "none" /\ delivered'[r] = <<>>
    BY <1>2, <2>2 DEF SubmitText
  <2>4. RequestInv(r)'
    BY <2>1, <2>3 DEF RequestInv, OwnerInv, WorkInv, AnswerInv, Text
  <2>. QED BY <2>1, <2>4
<1>. QED BY <1>1, <1>2 DEF SubmitText

LEMMA VisualSubmitsKeeps ==
  ASSUME RunnerInv, NEW r \in Requests, NEW k \in Kinds, ~k.control, VisualSubmits(r, k)
  PROVE  \A q \in Requests : RequestInv(q)'
<1>1. SubmitAccepted(r, k) /\ UNCHANGED runnerVars
  BY DEF VisualSubmits
<1>2. /\ \A q \in Requests \ {r} : RequestInv(q)'
      /\ r \in pending' /\ r \notin inflight' /\ kind'[r] = k /\ logs'[r] = <<>>
  BY <1>1, SubmissionKeeps DEF runnerVars
<1>3. /\ r \notin tasks /\ r \notin active /\ r \notin revoked /\ r \notin emitted
      /\ thread[r] = "none" /\ results[r] = "none" /\ delivered[r] = <<>>
  BY <1>1, UnusedUnknown DEF SubmitAccepted
<1>4. ~Text(r)'
  BY <1>2 DEF Text, TextKinds
<1>5. RequestInv(r)'
  BY <1>1, <1>2, <1>3, <1>4 DEF RequestInv, OwnerInv, WorkInv, AnswerInv, runnerVars
<1>. QED BY <1>2, <1>5

-----------------------------------------------------------------------------
(* Cancellation, acknowledgement and leases                                 *)

\* The verdict a step writes for one request.
LEMMA OneRecord ==
  ASSUME RunnerInv, NEW r \in Requests, NEW v \in Verdicts, logs[r] = <<>>,
         logs' = Record(logs, {r}, v)
  PROVE  logs'[r] = <<v>> /\ \A q \in Requests \ {r} : logs'[q] = logs[q]
<1>1. logs \in [Requests -> Seq(Verdicts)]
  BY DEF RunnerInv, BrokerInv, TypeOK
<1>2. /\ Record(logs, {r}, v)[r] = <<v>>
      /\ \A q \in Requests : q # r => Record(logs, {r}, v)[q] = logs[q]
  BY <1>1, RecordOne
<1>. QED BY <1>2

\* What is dropped or revoked is answered "stale" at once, and audited.
LEMMA CancelKeeps ==
  ASSUME RunnerInv, NEW r \in Requests, CancelLocked(r), UNCHANGED <<thread, delivered>>
  PROVE  \A q \in Requests : RequestInv(q)'
<1>0. /\ \A q \in Requests : RequestInv(q)
      /\ results \in [Requests -> {"none"} \cup Answers]
  BY DEF RunnerInv, RunnerTypeOK
<1>1. CASE CancelQueued(r)
  <2>1. /\ r \in tasks /\ r \notin active /\ r \notin revoked
        /\ tasks' = tasks \ {r} /\ emitted' = emitted \cup {r}
        /\ results' = [results EXCEPT ![r] = "stale"]
        /\ active' = active /\ revoked' = revoked
    BY <1>1 DEF CancelQueued
  <2>2. /\ kind' = kind /\ inflight' = inflight /\ preempted' = preempted
        /\ pending' = pending \ {r}
        /\ logs'[r] # <<>> /\ \A q \in Requests \ {r} : logs'[q] = logs[q]
    <3>1. CASE r \in pending
      <4>1. CancelPending(r)
        BY <1>1, <3>1 DEF CancelQueued
      <4>2. logs'[r] = <<"CANCELED">> /\ \A q \in Requests \ {r} : logs'[q] = logs[q]
        <5>1. logs[r] = <<>> /\ logs' = Record(logs, {r}, "CANCELED")
          BY <3>1, <4>1, RunnerSets DEF CancelPending
        <5>2. "CANCELED" \in Verdicts
          BY DEF Verdicts, StaleVerdicts
        <5>. QED BY <5>1, <5>2, OneRecord
      <4>3. <<"CANCELED">> # <<>>
        OBVIOUS
      <4>. QED BY <4>1, <4>2, <4>3 DEF CancelPending
    <3>2. CASE r \notin pending
      <4>1. UNCHANGED brokerVars
        BY <1>1, <3>2 DEF CancelQueued
      <4>2. logs[r] # <<>>
        BY <1>0, <2>1, <3>2, StaleDecided DEF RequestInv, WorkInv
      <4>. QED BY <3>2, <4>1, <4>2 DEF brokerVars
    <3>. QED BY <3>1, <3>2
  <2>3. \A q \in Requests \ {r} : Same(q)
    BY <1>0, <2>1, <2>2 DEF Same
  <2>4. RequestInv(r)'
    <3>1. delivered[r] = <<>> /\ results'[r] = "stale"
      BY <1>0, <2>1 DEF RequestInv, AnswerInv
    <3>2. OwnerInv(r)'
      BY <1>0, <2>1, <2>2 DEF RequestInv, OwnerInv, Text
    <3>3. WorkInv(r)'
      BY <1>0, <2>1, <2>2 DEF RequestInv, WorkInv
    <3>4. AnswerInv(r)'
      BY <2>1, <2>2, <3>1 DEF AnswerInv, Fits
    <3>. QED BY <3>2, <3>3, <3>4 DEF RequestInv
  <2>. QED BY <1>0, <2>3, <2>4, SameKeeps
<1>2. CASE CancelRunning(r)
  <2>1. /\ r \in tasks /\ r \in active /\ r \notin revoked
        /\ tasks' = tasks /\ emitted' = emitted \cup {r}
        /\ results' = [results EXCEPT ![r] = "stale"]
        /\ active' = active /\ revoked' = revoked \cup {r}
    BY <1>2 DEF CancelRunning
  <2>2. /\ kind' = kind /\ inflight' = inflight /\ preempted' = preempted \cup {r}
        /\ pending' = pending /\ r \in inflight
        /\ logs'[r] # <<>> /\ \A q \in Requests \ {r} : logs'[q] = logs[q]
    <3>1. CancelInflight(r)
      BY <1>2 DEF CancelRunning
    <3>2. CASE r \in preempted
      BY <3>1, <3>2, RunnerSets, StaleDecided DEF CancelInflight
    <3>3. CASE r \notin preempted
      <4>1. logs'[r] = <<"CANCELED">> /\ \A q \in Requests \ {r} : logs'[q] = logs[q]
        <5>1. logs[r] = <<>> /\ logs' = Record(logs, {r}, "CANCELED")
          BY <3>1, <3>3, RunnerSets DEF CancelInflight
        <5>2. "CANCELED" \in Verdicts
          BY DEF Verdicts, StaleVerdicts
        <5>. QED BY <5>1, <5>2, OneRecord
      <4>3. <<"CANCELED">> # <<>>
        OBVIOUS
      <4>. QED BY <3>1, <4>1, <4>3 DEF CancelInflight
    <3>. QED BY <3>2, <3>3
  <2>3. \A q \in Requests \ {r} : Same(q)
    BY <1>0, <2>1, <2>2 DEF Same
  <2>4. RequestInv(r)'
    <3>1. delivered[r] = <<>> /\ results'[r] = "stale"
      BY <1>0, <2>1 DEF RequestInv, AnswerInv
    <3>2. OwnerInv(r)'
      BY <1>0, <2>1, <2>2 DEF RequestInv, OwnerInv, Text
    <3>3. WorkInv(r)'
      BY <1>0, <2>1, <2>2 DEF RequestInv, WorkInv
    <3>4. AnswerInv(r)'
      BY <2>1, <2>2, <3>1 DEF AnswerInv, Fits
    <3>. QED BY <3>2, <3>3, <3>4 DEF RequestInv
  <2>. QED BY <1>0, <2>3, <2>4, SameKeeps
<1>3. CASE CancelAnswered(r)
  <2>1. /\ r \notin tasks /\ results[r] \in {"value", "error"}
        /\ results' = [results EXCEPT ![r] = "stale"]
        /\ UNCHANGED <<brokerVars, tasks, active, revoked, emitted>>
    BY <1>3 DEF CancelAnswered
  <2>2. \A q \in Requests \ {r} : Same(q)
    BY <1>0, <2>1 DEF Same, brokerVars
  <2>3. RequestInv(r)'
    <3>1. OwnerInv(r)'
      BY <1>0, <2>1 DEF RequestInv, OwnerInv, Text, brokerVars
    <3>2. WorkInv(r)'
      BY <1>0, <2>1 DEF RequestInv, WorkInv, Stale, brokerVars
    <3>3. delivered[r] = <<>> /\ logs[r] # <<>> /\ results'[r] = "stale"
      BY <1>0, <2>1 DEF RequestInv, AnswerInv, Fits
    <3>4. AnswerInv(r)'
      BY <1>0, <2>1, <3>3 DEF RequestInv, AnswerInv, Fits, Text, brokerVars
    <3>. QED BY <3>1, <3>2, <3>4 DEF RequestInv
  <2>. QED BY <1>0, <2>2, <2>3, SameKeeps
<1>. QED BY <1>1, <1>2, <1>3 DEF CancelLocked

\* The acknowledgement of a lease publishes the outcome only if the Broker
\* records it.
LEMMA FinishKeeps ==
  ASSUME RunnerInv, NEW r \in active, NEW outcome \in {"value", "error"}, Finish(r, outcome),
         UNCHANGED delivered
  PROVE  \A q \in Requests : RequestInv(q)'
<1> DEFINE v == IF outcome = "error" THEN "FAILED" ELSE "COMPLETED"
<1>0. /\ \A q \in Requests : RequestInv(q)
      /\ results \in [Requests -> {"none"} \cup Answers]
      /\ thread \in [Requests -> {"none", "running", "value", "error"}]
      /\ r \in Requests /\ r \in tasks /\ r \in inflight /\ r \notin pending
  BY RunnerSets DEF RunnerInv, RunnerTypeOK, RequestInv, OwnerInv
<1>1. /\ tasks' = tasks \ {r} /\ active' = active \ {r} /\ revoked' = revoked \ {r}
      /\ emitted' = emitted \cup {r} /\ thread' = [thread EXCEPT ![r] = "none"]
      /\ results' = IF r \in revoked THEN results
                    ELSE [results EXCEPT ![r] = IF r \in preempted THEN "stale" ELSE outcome]
      /\ kind' = kind /\ pending' = pending /\ inflight' = inflight \ {r}
      /\ preempted' = preempted \ {r}
      /\ logs' = IF r \in preempted THEN logs ELSE Record(logs, {r}, v)
  BY DEF Finish, Complete
<1>2. /\ \A q \in Requests \ {r} : logs'[q] = logs[q]
      /\ r \in preempted => logs'[r] = logs[r] /\ logs[r] # <<>>
      /\ r \notin preempted => logs'[r] = <<v>>
  <2>1. CASE r \in preempted
    BY <1>1, <2>1, RunnerSets, StaleDecided
  <2>2. CASE r \notin preempted
    <3>1. v \in Verdicts
      BY DEF Verdicts
    <3>2. logs[r] = <<>>
      BY <1>0, <2>2, RunnerSets
    <3> HIDE DEF v
    <3>. QED BY <1>0, <1>1, <2>2, <3>1, <3>2, OneRecord
  <2>. QED BY <2>1, <2>2
<1>3. \A q \in Requests \ {r} : Same(q)
  BY <1>0, <1>1, <1>2 DEF Same
<1>4. RequestInv(r)'
  <2>1. OwnerInv(r)'
    BY <1>0, <1>1 DEF OwnerInv
  <2>2. WorkInv(r)'
    BY <1>0, <1>1 DEF WorkInv
  <2>3. CASE r \in revoked
    <3>1. r \in preempted
      BY <1>0, <2>3 DEF RequestInv, WorkInv
    <3>2. AnswerInv(r)'
      BY <1>0, <1>1, <1>2, <2>3, <3>1 DEF RequestInv, AnswerInv, Fits
    <3>. QED BY <2>1, <2>2, <3>2 DEF RequestInv
  <2>4. CASE r \notin revoked
    <3>1. delivered'[r] = <<>>
      BY <1>0, <2>4 DEF RequestInv, AnswerInv
    <3>2. results'[r] = IF r \in preempted THEN "stale" ELSE outcome
      BY <1>0, <1>1, <2>4
    <3>3. Fits(r, results[r])'
      BY <1>2, <3>2 DEF Fits
    <3>4. AnswerInv(r)'
      BY <1>1, <3>1, <3>3 DEF AnswerInv, Fits
    <3>. QED BY <2>1, <2>2, <3>4 DEF RequestInv
  <2>. QED BY <2>3, <2>4
<1>. QED BY <1>0, <1>3, <1>4, SameKeeps

\* A queued text request that gets its slot, and a review that does.
LEMMA AdmitKeeps ==
  ASSUME RunnerInv, NEW r \in Requests, Admit(r)
  PROVE  \A q \in Requests : RequestInv(q)'
<1>0. /\ \A q \in Requests : RequestInv(q)
      /\ r \in pending /\ r \in tasks /\ logs[r] = <<>>
  <2>1. r \in pending /\ r \in tasks
    BY DEF Admit, Acquire, Selectable, EligibleRequests
  <2>. QED BY <2>1, RunnerSets DEF RunnerInv
<1>1. /\ pending' = pending \ {r} /\ inflight' = inflight \cup {r} /\ active' = active \cup {r}
      /\ UNCHANGED <<kind, preempted, logs, tasks, thread, results, revoked, emitted, delivered>>
  BY DEF Admit, Acquire
<1>2. \A q \in Requests \ {r} : Same(q)
  BY <1>1 DEF Same
<1>3. RequestInv(r)'
  <2>1. OwnerInv(r)'
    BY <1>0, <1>1 DEF RequestInv, OwnerInv, Text
  <2>2. WorkInv(r)'
    BY <1>0, <1>1 DEF RequestInv, WorkInv
  <2>3. AnswerInv(r)'
    BY <1>0, <1>1 DEF RequestInv, AnswerInv, Fits, Text
  <2>. QED BY <2>1, <2>2, <2>3 DEF RequestInv
<1>. QED BY <1>0, <1>2, <1>3, SameKeeps

LEMMA VisualAcquiresKeeps ==
  ASSUME RunnerInv, NEW r \in Requests, VisualAcquires(r)
  PROVE  \A q \in Requests : RequestInv(q)'
<1>0. /\ \A q \in Requests : RequestInv(q)
      /\ r \in pending /\ ~kind[r].control
  BY DEF RunnerInv, VisualAcquires, Acquire
<1>1. /\ pending' = pending \ {r} /\ inflight' = inflight \cup {r}
      /\ UNCHANGED <<kind, preempted, logs, tasks, active, thread, results, revoked, emitted, delivered>>
  BY DEF VisualAcquires, Acquire, runnerVars
<1>2. \A q \in Requests \ {r} : Same(q)
  BY <1>1 DEF Same
<1>3. ~Text(r)
  BY <1>0 DEF Text, TextKinds
<1>4. RequestInv(r)'
  <2>1. OwnerInv(r)'
    BY <1>0, <1>1, <1>3 DEF RequestInv, OwnerInv, Text
  <2>2. WorkInv(r)'
    BY <1>0, <1>1, <1>3 DEF RequestInv, OwnerInv, WorkInv, Stale
  <2>3. AnswerInv(r)'
    BY <1>0, <1>1 DEF RequestInv, AnswerInv, Fits, Text
  <2>. QED BY <2>1, <2>2, <2>3 DEF RequestInv
<1>. QED BY <1>0, <1>2, <1>4, SameKeeps

LEMMA VisualCompletesKeeps ==
  ASSUME RunnerInv, NEW r \in Requests, VisualCompletes(r)
  PROVE  \A q \in Requests : RequestInv(q)'
<1>0. /\ \A q \in Requests : RequestInv(q)
      /\ r \in inflight /\ ~kind[r].control
  BY DEF RunnerInv, VisualCompletes
<1>1. /\ inflight' = inflight \ {r} /\ preempted' = preempted \ {r}
      /\ logs' = IF r \in preempted THEN logs ELSE Record(logs, {r}, "COMPLETED")
      /\ UNCHANGED <<kind, pending, tasks, active, thread, results, revoked, emitted, delivered>>
  BY DEF VisualCompletes, Complete, runnerVars
<1>2. /\ \A q \in Requests \ {r} : logs'[q] = logs[q]
      /\ logs[r] # <<>> => logs'[r] = logs[r]
      /\ logs'[r] # <<>>
  <2>1. CASE r \in preempted
    BY <1>1, <2>1, RunnerSets, StaleDecided
  <2>2. CASE r \notin preempted
    <3>1. logs[r] = <<>> /\ "COMPLETED" \in Verdicts
      BY <1>0, <2>2, RunnerSets DEF Verdicts
    <3>2. <<"COMPLETED">> # <<>>
      OBVIOUS
    <3>. QED BY <1>1, <2>2, <3>1, <3>2, OneRecord
  <2>. QED BY <2>1, <2>2
<1>3. \A q \in Requests \ {r} : Same(q)
  BY <1>1, <1>2 DEF Same
<1>4. ~Text(r) /\ r \notin active /\ r \notin tasks /\ r \notin revoked
  <2>1. ~Text(r)
    BY <1>0 DEF Text, TextKinds
  <2>. QED BY <1>0, <2>1, RunnerSets DEF RequestInv, OwnerInv
<1>5. RequestInv(r)'
  <2>1. OwnerInv(r)'
    BY <1>0, <1>1, <1>4 DEF RequestInv, OwnerInv, Text
  <2>2. WorkInv(r)'
    BY <1>0, <1>1, <1>4 DEF RequestInv, WorkInv
  <2>3. AnswerInv(r)'
    BY <1>0, <1>1, <1>2, <1>4 DEF RequestInv, AnswerInv, Fits, Text
  <2>. QED BY <2>1, <2>2, <2>3 DEF RequestInv
<1>. QED BY <1>0, <1>3, <1>5, SameKeeps

\* A thread that starts or returns.
LEMMA ThreadKeeps ==
  ASSUME RunnerInv, NEW r \in active, NEW s,
         thread' = [thread EXCEPT ![r] = s],
         UNCHANGED <<brokerVars, tasks, active, results, revoked, emitted, delivered>>
  PROVE  \A q \in Requests : RequestInv(q)'
<1>0. /\ \A q \in Requests : RequestInv(q)
      /\ thread \in [Requests -> {"none", "running", "value", "error"}]
      /\ r \in Requests
  BY RunnerSets DEF RunnerInv, RunnerTypeOK
<1>1. \A q \in Requests \ {r} : Same(q)
  BY <1>0 DEF Same, brokerVars
<1>2. RequestInv(r)'
  <2>1. OwnerInv(r)'
    BY <1>0 DEF RequestInv, OwnerInv, Text, brokerVars
  <2>2. WorkInv(r)'
    BY <1>0 DEF RequestInv, WorkInv, Stale, brokerVars
  <2>3. AnswerInv(r)'
    BY <1>0 DEF RequestInv, AnswerInv, Fits, Text, brokerVars
  <2>. QED BY <2>1, <2>2, <2>3 DEF RequestInv
<1>. QED BY <1>0, <1>1, <1>2, SameKeeps

\* poll() hands an answer over and forgets it.
LEMMA HandOverKeeps ==
  ASSUME RunnerInv, NEW p \in Requests, results[p] # "none",
         delivered' = [delivered EXCEPT ![p] = Append(@, results[p])],
         results' = [results EXCEPT ![p] = "none"],
         UNCHANGED <<brokerVars, tasks, active, thread, revoked, emitted>>
  PROVE  \A q \in Requests : RequestInv(q)'
<1> DEFINE x == results[p]
<1>0. /\ \A q \in Requests : RequestInv(q)
      /\ results \in [Requests -> {"none"} \cup Answers]
      /\ delivered \in [Requests -> Seq(Answers)]
  BY DEF RunnerInv, RunnerTypeOK
<1>1. \A q \in Requests \ {p} : Same(q)
  BY <1>0 DEF Same, brokerVars
<1>2. x \in Answers /\ delivered[p] = <<>> /\ Fits(p, x) /\ p \notin tasks \ revoked
  BY <1>0 DEF RequestInv, AnswerInv
<1>3. delivered'[p] = <<x>> /\ results'[p] = "none"
  <2>1. delivered'[p] = Append(delivered[p], x) /\ results'[p] = "none"
    BY <1>0
  <2>2. Append(<<>>, x) = <<x>>
    BY <1>2
  <2>. QED BY <1>2, <2>1, <2>2
<1> HIDE DEF x
<1>4. OwnerInv(p)'
  BY <1>0 DEF RequestInv, OwnerInv, Text, brokerVars
<1>5. WorkInv(p)'
  BY <1>0 DEF RequestInv, WorkInv, Stale, brokerVars
<1>6. AnswerInv(p)'
  <2>1. <<x>> # <<>> /\ (logs[p] # <<>>)'
    BY <1>2 DEF Fits, brokerVars
  <2>2. \E y \in Answers : delivered'[p] = <<y>> /\ Fits(p, y)'
    BY <1>2, <1>3 DEF Fits, brokerVars
  <2>3. (p \notin tasks \ revoked)' /\ (p \notin tasks /\ Text(p) /\ logs[p] # <<>> => p \in emitted)'
    BY <1>0, <1>2 DEF RequestInv, AnswerInv, Text, brokerVars
  <2>. QED BY <1>3, <2>1, <2>2, <2>3 DEF AnswerInv
<1>7. RequestInv(p)'
  BY <1>4, <1>5, <1>6 DEF RequestInv
<1>. QED BY <1>0, <1>1, <1>7, SameKeeps

LEMMA PollKeeps ==
  ASSUME RunnerInv, PumpEnd
  PROVE  \A q \in Requests : RequestInv(q)'
<1>1. CASE polling # Nobody /\ results[polling] # "none"
  <2>1. PICK p \in Requests : p = polling
    BY <1>1 DEF RunnerInv, RunnerTypeOK
  <2>2. /\ results[p] # "none"
        /\ delivered' = [delivered EXCEPT ![p] = Append(@, results[p])]
        /\ results' = [results EXCEPT ![p] = "none"]
        /\ UNCHANGED <<brokerVars, tasks, active, thread, revoked, emitted>>
    BY <1>1, <2>1 DEF PumpEnd
  <2>. QED BY <2>2, HandOverKeeps
<1>2. CASE ~(polling # Nobody /\ results[polling] # "none")
  <2>1. \A q \in Requests : Same(q)
    BY <1>2 DEF PumpEnd, Same, brokerVars
  <2>. QED BY <2>1, SameKeeps DEF RunnerInv
<1>. QED BY <1>1, <1>2

RequestsKept == \A q \in Requests : RequestInv(q)'

\* Every step keeps the invariant of every request.
LEMMA RequestStep ==
  ASSUME RunnerInv, [RunnerNext]_allVars
  PROVE  RequestsKept
<1>0. /\ \A q \in Requests : RequestInv(q)
      /\ thread \in [Requests -> {"none", "running", "value", "error"}]
  BY DEF RunnerInv, RunnerTypeOK
<1>1. ASSUME NEW r \in Requests, NEW k \in TextKinds, NEW d \in 1..NoDeadline, SubmitText(r, k, d)
      PROVE  RequestsKept
  BY <1>1, SubmitTextKeeps DEF RequestsKept
<1>2. ASSUME NEW r \in Requests, Cancel(r) \/ Expire(r) \/ Reconcile(r) \/ PrepareRevoked(r) \/ CloseCancel(r)
      PROVE  RequestsKept
  BY <1>2, CancelKeeps DEF RequestsKept, Cancel, Expire, Reconcile, PrepareRevoked, CloseCancel
<1>3. ASSUME NEW r \in Requests, CollectDone(r) \/ PrepareRaises(r) \/ Settle(r) \/ LaunchFails(r)
      PROVE  RequestsKept
  <2>1. PICK o \in {"value", "error"} : r \in active /\ Finish(r, o) /\ UNCHANGED delivered
    BY <1>3 DEF CollectDone, PrepareRaises, Settle, LaunchFails, Returned, Preparing, Launchable
  <2>. QED BY <2>1, FinishKeeps DEF RequestsKept
<1>4. ASSUME NEW r \in Requests, Admit(r) PROVE RequestsKept
  BY <1>4, AdmitKeeps DEF RequestsKept
<1>5. ASSUME NEW r \in Requests, VisualAcquires(r) \/ VisualCompletes(r) PROVE RequestsKept
  BY <1>5, VisualAcquiresKeeps, VisualCompletesKeeps DEF RequestsKept
<1>6. ASSUME NEW r \in Requests, NEW k \in {k \in Kinds : ~k.control}, VisualSubmits(r, k)
      PROVE  RequestsKept
  BY <1>6, VisualSubmitsKeeps DEF RequestsKept
<1>7. ASSUME NEW r \in Requests, Launch(r) PROVE RequestsKept
  BY <1>7, ThreadKeeps DEF RequestsKept, Launch, Launchable, Preparing
<1>8. ASSUME NEW r \in Requests, NEW o \in {"value", "error"}, ThreadReturns(r, o) PROVE RequestsKept
  <2>1. r \in active
    BY <1>0, <1>8 DEF ThreadReturns, RequestInv, WorkInv
  <2>. QED BY <1>8, <2>1, ThreadKeeps DEF RequestsKept, ThreadReturns
<1>9. CASE PumpEnd
  BY <1>9, PollKeeps DEF RequestsKept
<1>10. ASSUME UNCHANGED <<kind, pending, inflight, preempted, logs, tasks, active, thread, results,
                          revoked, emitted, delivered>>
       PROVE  RequestsKept
  <2>1. \A q \in Requests : Same(q)
    BY <1>10 DEF Same
  <2>. QED BY <1>0, <2>1, SameKeeps DEF RequestsKept
<1>11. CASE ServiceDone \/ CloseBegin \/ CloseJoin \/ JoinEnds \/ CloseEnd \/ Clock
            \/ (\E p \in Requests \cup {Nobody} : PumpBegin(p))
            \/ (\E r \in Requests : PrepareOverruled(r)) \/ UNCHANGED allVars
  <2>1. UNCHANGED <<kind, pending, inflight, preempted, logs, tasks, active, thread, results,
                    revoked, emitted, delivered>>
    BY <1>11 DEF ServiceDone, CloseBegin, CloseJoin, JoinEnds, CloseEnd, Clock, Tick, PumpBegin,
                 PrepareOverruled, allVars, brokerVars, runnerVars
  <2>. QED BY <1>10, <2>1
<1>12. CASE Service
  BY <1>2, <1>3, <1>11, <1>12 DEF Service
<1>13. CASE Admission
  BY <1>2, <1>3, <1>4, <1>7, <1>9, <1>11, <1>13 DEF Admission
<1>14. CASE Close
  BY <1>2, <1>11, <1>14 DEF Close
<1>. QED
  BY <1>1, <1>2, <1>5, <1>6, <1>8, <1>11, <1>12, <1>13, <1>14 DEF RunnerNext
-----------------------------------------------------------------------------
(* Types, and the place of the owner thread                                 *)

Places == {"idle", "service", "admit", "prepare", "settle", "closing", "joining", "drain"}

\* Cancelling and acknowledging keep the types, wherever the owner goes next.
LEMMA CancelTypes ==
  ASSUME RunnerTypeOK, NEW r \in Requests, CancelLocked(r), pc' \in Places,
         UNCHANGED <<deadline, thread, closed, polling, delivered>>
  PROVE  RunnerTypeOK'
BY DEF RunnerTypeOK, Places, Answers, CancelLocked, CancelQueued, CancelRunning, CancelAnswered

LEMMA FinishTypes ==
  ASSUME RunnerTypeOK, NEW r \in active, NEW outcome \in {"value", "error"}, Finish(r, outcome),
         pc' \in Places, UNCHANGED <<deadline, closed, polling, delivered>>
  PROVE  RunnerTypeOK'
<1>1. /\ tasks' = tasks \ {r} /\ active' = active \ {r} /\ revoked' = revoked \ {r}
      /\ emitted' = emitted \cup {r} /\ thread' = [thread EXCEPT ![r] = "none"]
      /\ results' = results \/ \E x \in Answers : results' = [results EXCEPT ![r] = x]
  BY DEF Finish, Answers
<1>2. results' \in [Requests -> {"none"} \cup Answers]
  BY <1>1 DEF RunnerTypeOK
<1>3. thread' \in [Requests -> {"none", "running", "value", "error"}]
  BY <1>1 DEF RunnerTypeOK
<1>4. r \in Requests
  BY DEF RunnerTypeOK
<1>. QED BY <1>1, <1>2, <1>3, <1>4 DEF RunnerTypeOK, Places

\* What a step of the owner's pump or of close() does to its place.
OwnerMoves ==
  \/ ServiceDone \/ CloseBegin \/ CloseJoin \/ JoinEnds \/ CloseEnd
  \/ \E p \in Requests \cup {Nobody} : PumpBegin(p)
  \/ \E r \in Requests : PrepareOverruled(r)

LEMMA TypesStep ==
  ASSUME RunnerInv, [RunnerNext]_allVars
  PROVE  RunnerTypeOK'
<1>0. RunnerTypeOK
  BY DEF RunnerInv
<1>1. ASSUME NEW r \in Requests, NEW k \in TextKinds, NEW d \in 1..NoDeadline, SubmitText(r, k, d)
      PROVE  RunnerTypeOK'
  BY <1>0, <1>1 DEF SubmitText, RunnerTypeOK
<1>2. ASSUME NEW r \in Requests, Cancel(r) \/ Expire(r) \/ Reconcile(r) \/ PrepareRevoked(r) \/ CloseCancel(r)
      PROVE  RunnerTypeOK'
  <2>1. CancelLocked(r) /\ pc' \in Places /\ UNCHANGED <<deadline, thread, closed, polling, delivered>>
    BY <1>2 DEF Cancel, Expire, Reconcile, PrepareRevoked, CloseCancel, Places
  <2>. QED BY <1>0, <2>1, CancelTypes
<1>3. ASSUME NEW r \in Requests, CollectDone(r) \/ PrepareRaises(r) \/ Settle(r) \/ LaunchFails(r)
      PROVE  RunnerTypeOK'
  <2>1. PICK o \in {"value", "error"} :
          r \in active /\ Finish(r, o) /\ pc' \in Places /\ UNCHANGED <<deadline, closed, polling, delivered>>
    BY <1>3 DEF CollectDone, PrepareRaises, Settle, LaunchFails, Returned, Preparing, Launchable, Places
  <2>. QED BY <1>0, <2>1, FinishTypes
<1>4. ASSUME NEW r \in Requests, Admit(r) PROVE RunnerTypeOK'
  BY <1>0, <1>4 DEF Admit, Acquire, RunnerTypeOK
<1>5. ASSUME NEW r \in Requests, NEW s \in {"running", "value", "error"},
             thread' = [thread EXCEPT ![r] = s], pc' \in Places,
             UNCHANGED <<tasks, deadline, active, results, revoked, emitted, closed, polling, delivered>>
      PROVE  RunnerTypeOK'
  BY <1>0, <1>5 DEF RunnerTypeOK, Places
<1>6. ASSUME NEW r \in Requests, Launch(r) PROVE RunnerTypeOK'
  BY <1>5, <1>6 DEF Launch, Places
<1>7. ASSUME NEW r \in Requests, NEW o \in {"value", "error"}, ThreadReturns(r, o) PROVE RunnerTypeOK'
  BY <1>0, <1>5, <1>7 DEF ThreadReturns, RunnerTypeOK, Places
<1>8. CASE PumpEnd
  <2>1. CASE polling # Nobody /\ results[polling] # "none"
    <3>1. PICK p \in Requests : p = polling
      BY <1>0, <2>1 DEF RunnerTypeOK
    <3>2. /\ delivered' = [delivered EXCEPT ![p] = Append(@, results[p])]
          /\ results' = [results EXCEPT ![p] = "none"] /\ results[p] \in Answers
      BY <1>0, <1>8, <2>1, <3>1 DEF PumpEnd, RunnerTypeOK
    <3>3. Append(delivered[p], results[p]) \in Seq(Answers)
      BY <1>0, <3>2 DEF RunnerTypeOK
    <3>4. delivered' \in [Requests -> Seq(Answers)]
      BY <1>0, <3>2, <3>3 DEF RunnerTypeOK
    <3>. QED BY <1>0, <1>8, <3>2, <3>4 DEF PumpEnd, RunnerTypeOK
  <2>2. CASE ~(polling # Nobody /\ results[polling] # "none")
    BY <1>0, <1>8, <2>2 DEF PumpEnd, RunnerTypeOK
  <2>. QED BY <2>1, <2>2
<1>9. CASE OwnerMoves
  BY <1>0, <1>9 DEF OwnerMoves, ServiceDone, CloseBegin, CloseJoin, JoinEnds, CloseEnd, PumpBegin,
                    PrepareOverruled, RunnerTypeOK
<1>10. CASE UNCHANGED runnerVars
  BY <1>0, <1>10 DEF runnerVars, RunnerTypeOK
<1>11. ASSUME NEW r \in Requests, NEW k, VisualAcquires(r) \/ VisualCompletes(r) \/ VisualSubmits(r, k) \/ Clock
       PROVE  RunnerTypeOK'
  BY <1>10, <1>11 DEF VisualAcquires, VisualCompletes, VisualSubmits, Clock
<1>12. CASE UNCHANGED allVars
  BY <1>10, <1>12 DEF allVars
<1>13. CASE Clock
  BY <1>10, <1>13 DEF Clock
<1>. QED BY <1>1, <1>2, <1>3, <1>4, <1>6, <1>7, <1>8, <1>9, <1>11, <1>12, <1>13
         DEF RunnerNext, Service, Admission, Close, OwnerMoves

LEMMA PlaceStep ==
  ASSUME RunnerInv, [RunnerNext]_allVars
  PROVE  PlaceInv'
<1>0. /\ RunnerTypeOK /\ PlaceInv
      /\ \A q \in Requests : thread[q] # "none" => q \in active
      /\ thread \in [Requests -> {"none", "running", "value", "error"}]
      /\ active \subseteq Requests
  BY DEF RunnerInv, RunnerTypeOK, RequestInv, WorkInv
<1>1. ASSUME NEW r \in Requests, CancelLocked(r), UNCHANGED thread
      PROVE  /\ Preparing' = Preparing /\ tasks' \subseteq tasks /\ revoked \subseteq revoked'
             /\ r \in Preparing => r \in revoked'
  BY <1>0, <1>1 DEF CancelLocked, CancelQueued, CancelRunning, CancelAnswered, Preparing, RunnerTypeOK
<1>2. ASSUME NEW r \in Requests, Cancel(r) \/ Expire(r) \/ Reconcile(r) \/ CloseCancel(r)
      PROVE  PlaceInv'
  <2>1. CancelLocked(r) /\ UNCHANGED <<thread, pc>> /\ pc \in {"idle", "prepare", "service", "closing"}
    BY <1>2 DEF Cancel, Expire, Reconcile, CloseCancel
  <2>2. Preparing' = Preparing
    BY <1>1, <2>1
  <2>. QED BY <1>0, <2>1, <2>2 DEF PlaceInv
<1>3. ASSUME NEW r \in Requests, PrepareRevoked(r) PROVE PlaceInv'
  <2>1. CancelLocked(r) /\ UNCHANGED thread /\ pc' = "settle" /\ r \in Preparing
    BY <1>3 DEF PrepareRevoked
  <2>2. Preparing' = Preparing /\ r \in revoked'
    BY <1>1, <2>1
  <2>. QED BY <1>0, <2>1, <2>2 DEF PlaceInv
<1>4. ASSUME NEW r \in Requests, NEW o, Finish(r, o) PROVE Preparing' = Preparing \ {r}
  BY <1>0, <1>4 DEF Finish, Preparing
<1>5. ASSUME NEW r \in Requests, CollectDone(r) PROVE PlaceInv'
  <2>1. /\ pc \in {"service", "drain"} /\ pc' = pc /\ Finish(r, thread[r])
    BY <1>5 DEF CollectDone
  <2>2. Preparing' = {}
    BY <1>0, <1>4, <2>1 DEF PlaceInv
  <2>3. tasks' = tasks \ {r} /\ revoked' = revoked \ {r}
    BY <2>1 DEF Finish
  <2>. QED BY <1>0, <2>1, <2>2, <2>3 DEF PlaceInv
<1>6. ASSUME NEW r \in Requests, PrepareRaises(r) \/ Settle(r) \/ LaunchFails(r) PROVE PlaceInv'
  <2>1. PICK o \in {"value", "error"} : r \in Preparing /\ Finish(r, o) /\ pc' = "admit"
    BY <1>6 DEF PrepareRaises, Settle, LaunchFails, Launchable
  <2>2. Preparing' = {}
    BY <1>0, <1>4, <2>1 DEF PlaceInv
  <2>. QED BY <2>1, <2>2 DEF PlaceInv
<1>7. ASSUME NEW r \in Requests, Admit(r) PROVE PlaceInv'
  <2>1. pc = "admit" /\ pc' = "prepare" /\ active' = active \cup {r} /\ thread' = thread
    BY <1>7 DEF Admit
  <2>2. Preparing' \subseteq {r}
    BY <1>0, <2>1 DEF PlaceInv, Preparing
  <2>. QED BY <2>1, <2>2 DEF PlaceInv
<1>8. ASSUME NEW r \in Requests, Launch(r) PROVE PlaceInv'
  <2>1. r \in Preparing /\ thread' = [thread EXCEPT ![r] = "running"] /\ pc' = "admit" /\ active' = active
    BY <1>8 DEF Launch, Launchable
  <2>2. Preparing' = Preparing \ {r}
    BY <1>0, <2>1 DEF Preparing
  <2>. QED BY <1>0, <2>1, <2>2 DEF PlaceInv
<1>9. ASSUME NEW r \in Requests, NEW o \in {"value", "error"}, ThreadReturns(r, o) PROVE PlaceInv'
  <2>1. Preparing' = Preparing /\ UNCHANGED <<pc, tasks, revoked>>
    BY <1>0, <1>9 DEF ThreadReturns, Preparing
  <2>. QED BY <1>0, <2>1 DEF PlaceInv
<1>10. ASSUME UNCHANGED <<active, thread>>, PumpEnd \/ OwnerMoves PROVE PlaceInv'
  <2>1. Preparing' = Preparing
    BY <1>10 DEF Preparing
  <2>. QED BY <1>0, <1>10, <2>1 DEF PlaceInv, PumpEnd, OwnerMoves, ServiceDone, CloseBegin, CloseJoin,
              JoinEnds, CloseEnd, PumpBegin, PrepareOverruled
<1>11. CASE PumpEnd \/ OwnerMoves
  <2>1. UNCHANGED <<active, thread>>
    BY <1>11 DEF PumpEnd, OwnerMoves, ServiceDone, CloseBegin, CloseJoin,
              JoinEnds, CloseEnd, PumpBegin, PrepareOverruled
  <2>. QED BY <1>10, <1>11, <2>1
<1>12. ASSUME UNCHANGED <<active, thread, pc, revoked>>, pc = "idle" \/ tasks' = tasks PROVE PlaceInv'
  <2>1. Preparing' = Preparing
    BY <1>12 DEF Preparing
  <2>. QED BY <1>0, <1>12, <2>1 DEF PlaceInv
<1>13. ASSUME NEW r \in Requests, NEW k, NEW d, SubmitText(r, k, d) PROVE PlaceInv'
  BY <1>12, <1>13 DEF SubmitText
<1>14. CASE UNCHANGED runnerVars
  BY <1>12, <1>14 DEF runnerVars
<1>15. ASSUME NEW r \in Requests, NEW k, VisualAcquires(r) \/ VisualCompletes(r) \/ VisualSubmits(r, k)
       PROVE  PlaceInv'
  BY <1>14, <1>15 DEF VisualAcquires, VisualCompletes, VisualSubmits
<1>16. CASE Clock \/ UNCHANGED allVars
  BY <1>14, <1>16 DEF Clock, allVars
<1>. QED BY <1>2, <1>3, <1>5, <1>6, <1>7, <1>8, <1>9, <1>11, <1>13, <1>15, <1>16
         DEF RunnerNext, Service, Admission, Close, OwnerMoves

-----------------------------------------------------------------------------
(* The invariant and what it implies                                        *)

LEMMA RunnerInitInv == RunnerInit => RunnerInv
<1> SUFFICES ASSUME RunnerInit PROVE RunnerInv
  OBVIOUS
<1>1. BrokerInv
  BY InitInv DEF RunnerInit
<1>2. RunnerTypeOK
  <2>1. 1..NoDeadline # {} /\ NoDeadline \in 1..NoDeadline
    BY BrokerAssumption DEF NoDeadline
  <2>2. <<>> \in Seq(Answers)
    OBVIOUS
  <2>. QED BY <2>1, <2>2 DEF RunnerInit, RunnerTypeOK
<1>3. ASSUME NEW q \in Requests PROVE RequestInv(q)
  BY DEF RunnerInit, Init, RequestInv, OwnerInv, WorkInv, AnswerInv
<1>4. PlaceInv
  BY DEF RunnerInit, PlaceInv, Preparing
<1>. QED BY <1>1, <1>2, <1>3, <1>4 DEF RunnerInv

LEMMA RunnerNextInv == RunnerInv /\ [RunnerNext]_allVars => RunnerInv'
<1> SUFFICES ASSUME RunnerInv, [RunnerNext]_allVars PROVE RunnerInv'
  OBVIOUS
<1>1. BrokerInv'
  BY RunnerStep, NextInv DEF RunnerInv, BrokerStep
<1>2. RunnerTypeOK'
  BY TypesStep
<1>3. \A q \in Requests : RequestInv(q)'
  BY RequestStep DEF RequestsKept
<1>4. PlaceInv'
  BY PlaceStep
<1>. QED BY <1>1, <1>2, <1>3, <1>4 DEF RunnerInv

LEMMA RunnerInductive == RunnerSpec => []RunnerInv
BY RunnerInitInv, RunnerNextInv, PTL DEF RunnerSpec

\* Whatever the owner, its threads and the other owner do, the runner's tables
\* keep their types; what is active is a task, and what is revoked is active.
THEOREM RunnerTypeCorrect == RunnerSpec => []RunnerTypeOK
<1>1. RunnerInv => RunnerTypeOK
  BY DEF RunnerInv
<1>. QED BY <1>1, RunnerInductive, PTL

\* The tables of the runner and of the Broker, which are changed by two locks
\* and in two calls, always agree on who computes and who waits.
THEOREM RunnerLeases == RunnerSpec => []LeasesMatch
<1>1. RunnerInv => LeasesMatch
  <2> SUFFICES ASSUME RunnerInv PROVE LeasesMatch
    OBVIOUS
  <2>1. \A q \in Requests : OwnerInv(q) /\ WorkInv(q)
    BY DEF RunnerInv, RequestInv
  <2>. QED BY <2>1, RunnerSets DEF LeasesMatch, OwnerInv, WorkInv
<1>. QED BY <1>1, RunnerInductive, PTL

\* However cancellation, deadline, preemption, close() and the return of the
\* thread fall together, a request has at most one answer, and a value only if
\* the Broker recorded its call as completed.
THEOREM RunnerOneAnswer == RunnerSpec => []OneAnswer
<1>1. RunnerInv => OneAnswer
  <2> SUFFICES ASSUME RunnerInv, NEW r \in Requests
      PROVE  LET given == {results[r]} \cup {delivered[r][i] : i \in DOMAIN delivered[r]}
             IN  /\ Len(delivered[r]) + (IF results[r] = "none" THEN 0 ELSE 1) <= 1
                 /\ "value" \in given => logs[r] = <<"COMPLETED">>
                 /\ "error" \in given => logs[r] = <<"FAILED">>
    BY DEF OneAnswer
  <2>1. AnswerInv(r)
    BY DEF RunnerInv, RequestInv
  <2>2. CASE delivered[r] = <<>>
    <3>1. Len(<<>>) = 0 /\ DOMAIN <<>> = {}
      OBVIOUS
    <3>. QED BY <2>1, <2>2, <3>1 DEF AnswerInv, Fits
  <2>3. CASE delivered[r] # <<>>
    <3>1. PICK x \in Answers : delivered[r] = <<x>> /\ Fits(r, x)
      BY <2>1, <2>3 DEF AnswerInv
    <3>2. results[r] = "none"
      BY <2>1, <2>3 DEF AnswerInv
    <3>3. Len(<<x>>) = 1 /\ DOMAIN <<x>> = {1} /\ <<x>>[1] = x
      OBVIOUS
    <3>. QED BY <3>1, <3>2, <3>3 DEF Fits
  <2>. QED BY <2>2, <2>3
<1>. QED BY <1>1, RunnerInductive, PTL

\* No verdict on a text request is lost for the audit log, and none is written
\* there that the Broker has not given.
THEOREM RunnerAudit == RunnerSpec => []AuditComplete
<1>1. RunnerInv => AuditComplete
  <2> SUFFICES ASSUME RunnerInv PROVE AuditComplete
    OBVIOUS
  <2>1. \A q \in Requests : AnswerInv(q)
    BY DEF RunnerInv, RequestInv
  <2>2. emitted \subseteq Requests
    BY DEF RunnerInv, RunnerTypeOK
  <2>. QED BY <2>1, <2>2 DEF AuditComplete, AnswerInv
<1>. QED BY <1>1, RunnerInductive, PTL
\* Taking back an answer, or replacing it by "stale", publishes no value.
LEMMA NoValue ==
  ASSUME RunnerTypeOK, NEW x, x # "value", NEW r \in Requests,
         results' = results \/ results' = [results EXCEPT ![r] = x],
         NEW s \in Requests, results'[s] = "value"
  PROVE  results[s] = "value"
BY DEF RunnerTypeOK

\* An acknowledgement publishes a value at most for the request it is about,
\* and only if nobody has revoked the call.
LEMMA FinishValue ==
  ASSUME RunnerTypeOK, NEW r \in Requests, NEW o \in {"value", "error"}, Finish(r, o),
         NEW s \in Requests, results'[s] = "value", results[s] # "value"
  PROVE  s = r /\ r \notin revoked
BY DEF Finish, RunnerTypeOK

StartedOrValued(s) ==
  \/ thread'[s] = "running" /\ thread[s] # "running"
  \/ results'[s] = "value" /\ results[s] # "value"

\* A call starts, and a value appears, only ahead of the deadline.
LEMMA DeadlineStep ==
  ASSUME RunnerInv, [RunnerNext]_allVars, NEW s \in Requests, StartedOrValued(s)
  PROVE  now < deadline[s]
<1>0. /\ RunnerTypeOK /\ PlaceInv /\ active \subseteq tasks
      /\ deadline[s] \in Int /\ now \in Int
  BY BrokerAssumption DEF RunnerInv, RunnerTypeOK, BrokerInv, TypeOK, NoDeadline
<1>1. ASSUME UNCHANGED <<thread, results>> PROVE FALSE
  BY <1>1 DEF StartedOrValued
<1>2. ASSUME NEW r \in Requests, CancelLocked(r), UNCHANGED thread PROVE FALSE
  BY <1>0, <1>2, NoValue DEF StartedOrValued, CancelLocked, CancelQueued, CancelRunning, CancelAnswered
<1>3. ASSUME NEW r \in Requests, NEW o \in {"value", "error"}, Finish(r, o)
      PROVE  s = r /\ r \notin revoked /\ o = "value"
  <2>1. thread' = [thread EXCEPT ![r] = "none"]
    BY <1>3 DEF Finish
  <2>2. results'[s] = "value" /\ results[s] # "value"
    BY <1>0, <2>1 DEF StartedOrValued, RunnerTypeOK
  <2>. QED BY <1>0, <1>3, <2>2, FinishValue DEF Finish, RunnerTypeOK
<1>4. ASSUME NEW r \in Requests, CollectDone(r) PROVE now < deadline[s]
  <2>1. r \in active /\ thread[r] \in {"value", "error"} /\ Finish(r, thread[r])
        /\ ((pc = "service" /\ Due = {}) \/ pc = "drain")
    BY <1>4 DEF CollectDone, Returned
  <2>2. s = r /\ r \in tasks \ revoked
    BY <1>0, <1>3, <2>1
  <2>3. Due = {}
    BY <1>0, <2>1, <2>2 DEF PlaceInv
  <2>. QED BY <1>0, <2>2, <2>3 DEF Due
<1>5. ASSUME NEW r \in Requests, PrepareRaises(r) \/ LaunchFails(r) PROVE FALSE
  <2>1. Finish(r, "error")
    BY <1>5 DEF PrepareRaises, LaunchFails
  <2>. QED BY <1>3, <2>1
<1>6. ASSUME NEW r \in Requests, Settle(r) PROVE FALSE
  <2>1. pc = "settle" /\ r \in Preparing /\ Finish(r, "value")
    BY <1>6 DEF Settle
  <2>2. r \in revoked
    BY <1>0, <2>1 DEF PlaceInv
  <2>. QED BY <1>3, <2>1, <2>2
<1>7. ASSUME NEW r \in Requests, Launch(r) PROVE now < deadline[s]
  <2>1. s = r /\ now < deadline[r]
    BY <1>0, <1>7 DEF Launch, Launchable, StartedOrValued, RunnerTypeOK
  <2>. QED BY <2>1
<1>8. ASSUME NEW r \in Requests, NEW o \in {"value", "error"}, ThreadReturns(r, o) PROVE FALSE
  BY <1>0, <1>8 DEF ThreadReturns, StartedOrValued, RunnerTypeOK
<1>9. ASSUME PumpEnd PROVE FALSE
  <2>1. UNCHANGED thread /\ (results' = results \/ \E p \in Requests : results' = [results EXCEPT ![p] = "none"])
    BY <1>0, <1>9 DEF PumpEnd, RunnerTypeOK
  <2>. QED BY <1>0, <2>1, NoValue DEF StartedOrValued
<1>10. ASSUME NEW r \in Requests, Cancel(r) \/ Expire(r) \/ Reconcile(r) \/ PrepareRevoked(r) \/ CloseCancel(r)
       PROVE  FALSE
  BY <1>2, <1>10 DEF Cancel, Expire, Reconcile, PrepareRevoked, CloseCancel
<1>11. ASSUME NEW r \in Requests, NEW k, NEW d,
              Admit(r) \/ SubmitText(r, k, d) \/ VisualAcquires(r) \/ VisualCompletes(r) \/ VisualSubmits(r, k)
       PROVE  FALSE
  BY <1>1, <1>11 DEF Admit, SubmitText, VisualAcquires, VisualCompletes, VisualSubmits, runnerVars
<1>12. ASSUME OwnerMoves \/ Clock \/ UNCHANGED allVars PROVE FALSE
  BY <1>1, <1>12 DEF OwnerMoves, ServiceDone, CloseBegin, CloseJoin, JoinEnds, CloseEnd, PumpBegin,
                     PrepareOverruled, Clock, runnerVars, allVars
<1>. QED BY <1>4, <1>5, <1>6, <1>7, <1>8, <1>9, <1>10, <1>11, <1>12
         DEF RunnerNext, Service, Admission, Close, OwnerMoves

\* Though the clock advances between the admission of a request and the start
\* of its call, no call starts, and no value is published, at or after its
\* deadline.
THEOREM RunnerDeadlines == RunnerSpec => DeadlineRespected
<1>1. RunnerInv /\ [RunnerNext]_allVars =>
        \A r \in Requests :
          \/ thread'[r] = "running" /\ thread[r] # "running"
          \/ results'[r] = "value" /\ results[r] # "value"
        => now < deadline[r]
  BY DeadlineStep DEF StartedOrValued
<1>. QED BY <1>1, RunnerInductive, PTL DEF RunnerSpec, DeadlineRespected

-----------------------------------------------------------------------------
(***************************************************************************)
(* The runner implements RequestLifecycle.  A step is, seen by the callers,*)
(* about one request at most; the lemmas say what follows for the mapped   *)
(* variables from what happens to that one and to the others.              *)
(***************************************************************************)

\* A step of RequestLifecycle, or none.
CallStep == [Calls!RequestNext]_Calls!requestVars

\* The callers see no change at q.
Unseen(q) == CallStage(q)' = CallStage(q) /\ CallAnswer(q)' = CallAnswer(q)

LEMMA UnseenStep ==
  ASSUME \A q \in Requests : Unseen(q)
  PROVE  CallStep
BY DEF Unseen, CallStep, Calls!requestVars

\* What the tables hold for q is all that the callers' view of q depends on.
LEMMA UnseenAt ==
  ASSUME NEW q, q \in active' <=> q \in active, q \in tasks' <=> q \in tasks,
         results'[q] = results[q], delivered'[q] = delivered[q]
  PROVE  Unseen(q)
BY DEF Unseen, CallStage, CallAnswer

LEMMA MoveOne ==
  ASSUME NEW r \in Requests, NEW s, CallStage(r)' = s, \A q \in Requests \ {r} : Unseen(q)
  PROVE  Calls!Move(r, s)
BY DEF Unseen, Calls!Move

LEMMA GiveOne ==
  ASSUME NEW r \in Requests, NEW x, CallAnswer(r)' = x, \A q \in Requests \ {r} : Unseen(q)
  PROVE  Calls!Give(r, x)
<1>1. \A q \in Requests : CallAnswer(q)' = IF q = r THEN x ELSE CallAnswer(q)
  BY DEF Unseen
<1>2. {} \in {{}} \cup {{q} : q \in Requests \ {r}}
  OBVIOUS
<1>. QED BY <1>1, <1>2 DEF Calls!Give

\* An answer withdrawn, a queued call taken back, a running one given up.
LEMMA CancelSeen ==
  ASSUME RunnerInv, NEW r \in Requests, CancelLocked(r), UNCHANGED delivered
  PROVE  CallStep
<1>0. /\ RequestInv(r) /\ active \subseteq tasks /\ revoked \subseteq active
      /\ results \in [Requests -> {"none"} \cup Answers]
  BY DEF RunnerInv, RunnerTypeOK
<1>1. /\ results' = [results EXCEPT ![r] = "stale"] /\ active' = active
      /\ tasks' = tasks \/ tasks' = tasks \ {r}
  BY DEF CancelLocked, CancelQueued, CancelRunning, CancelAnswered
<1>2. \A q \in Requests \ {r} : Unseen(q)
  BY <1>0, <1>1, UnseenAt
<1>3. CallAnswer(r)' = "stale"
  BY <1>0, <1>1 DEF CallAnswer
<1>4. Calls!Give(r, "stale")
  BY <1>2, <1>3, GiveOne
<1>5. CASE CancelQueued(r)
  <2>1. CallStage(r) = "waiting" /\ CallStage(r)' = "over"
    BY <1>0, <1>1, <1>5 DEF CancelQueued, CallStage
  <2>2. Calls!Move(r, "over")
    BY <1>2, <2>1, MoveOne
  <2>. QED BY <1>4, <2>1, <2>2 DEF CallStep, Calls!RequestNext, Calls!TakeBack
<1>6. CASE CancelRunning(r)
  <2>1. CallStage(r) = "computing" /\ CallStage(r)' = "computing" /\ CallAnswer(r) = "none"
    BY <1>0, <1>1, <1>6 DEF CancelRunning, CallStage, CallAnswer, RequestInv, AnswerInv
  <2>2. UNCHANGED [q \in Requests |-> CallStage(q)]
    BY <1>2, <2>1 DEF Unseen
  <2>. QED BY <1>4, <2>1, <2>2 DEF CallStep, Calls!RequestNext, Calls!Revoke
<1>7. CASE CancelAnswered(r)
  <2>1. CallStage(r) = "over" /\ CallStage(r)' = "over" /\ CallAnswer(r) \in {"value", "error"}
    BY <1>0, <1>1, <1>7 DEF CancelAnswered, CallStage, CallAnswer
  <2>2. UNCHANGED [q \in Requests |-> CallStage(q)]
    BY <1>2, <2>1 DEF Unseen
  <2>. QED BY <1>4, <2>1, <2>2 DEF CallStep, Calls!RequestNext, Calls!Withdraw
<1>. QED BY <1>5, <1>6, <1>7 DEF CancelLocked

\* The end of a call, revoked or not.
LEMMA FinishSeen ==
  ASSUME RunnerInv, NEW r \in active, NEW outcome \in {"value", "error"}, Finish(r, outcome),
         UNCHANGED delivered
  PROVE  CallStep
<1>0. /\ RequestInv(r) /\ r \in Requests /\ r \in tasks
      /\ results \in [Requests -> {"none"} \cup Answers]
  BY DEF RunnerInv, RunnerTypeOK
<1>1. /\ tasks' = tasks \ {r} /\ active' = active \ {r}
      /\ results' = IF r \in revoked THEN results
                    ELSE [results EXCEPT ![r] = IF r \in preempted THEN "stale" ELSE outcome]
  BY DEF Finish
<1>2. \A q \in Requests \ {r} : Unseen(q)
  BY <1>0, <1>1, UnseenAt
<1>3. CallStage(r) = "computing"
  BY DEF CallStage
<1>4. CASE r \in revoked
  <2>1. CallAnswer(r) # "none" /\ CallAnswer(r)' = CallAnswer(r) /\ CallStage(r)' = "over"
    BY <1>0, <1>1, <1>4 DEF RequestInv, AnswerInv, CallAnswer, CallStage
  <2>2. Calls!Move(r, "over")
    BY <1>0, <1>2, <2>1, MoveOne
  <2>3. UNCHANGED [q \in Requests |-> CallAnswer(q)]
    BY <1>2, <2>1 DEF Unseen
  <2>. QED BY <1>0, <1>3, <2>1, <2>2, <2>3 DEF CallStep, Calls!RequestNext, Calls!EndCall
<1>5. CASE r \notin revoked
  <2>1. PICK x \in Calls!Outcomes : results'[r] = x /\ x # "none"
    BY <1>0, <1>1, <1>5 DEF Calls!Outcomes
  <2>2. CallAnswer(r) = "none" /\ CallAnswer(r)' = x /\ CallStage(r)' = "over"
    BY <1>0, <1>1, <1>5, <2>1 DEF RequestInv, AnswerInv, CallAnswer, CallStage
  <2>3. Calls!Move(r, "over") /\ Calls!Give(r, x)
    BY <1>0, <1>2, <2>2, MoveOne, GiveOne
  <2>. QED BY <1>0, <1>3, <2>2, <2>3 DEF CallStep, Calls!RequestNext, Calls!EndCall
<1>. QED BY <1>4, <1>5

LEMMA ComputingSeen ==
  ASSUME RunnerInv
  PROVE  Calls!Computing = active
<1>1. active \subseteq Requests
  BY RunnerSets
<1>. QED BY <1>1 DEF Calls!Computing, CallStage

\* A request is asked for once: nobody has seen its id before.
LEMMA SubmitSeen ==
  ASSUME RunnerInv, NEW r \in Requests, NEW k \in TextKinds, NEW d, SubmitText(r, k, d)
  PROVE  CallStep
<1>1. UNCHANGED <<active, results, delivered>>
  BY DEF SubmitText
<1>2. CASE tasks' = tasks
  BY <1>1, <1>2, UnseenAt, UnseenStep
<1>3. CASE SubmitAccepted(r, k) /\ tasks' = tasks \cup {r}
  <2>1. Unused(r)
    BY <1>3 DEF SubmitAccepted
  <2>2. CallStage(r) = "new" /\ CallStage(r)' = "waiting" /\ CallAnswer(r)' = CallAnswer(r)
    BY <1>1, <1>3, <2>1, UnusedUnknown DEF CallStage, CallAnswer
  <2>3. \A q \in Requests \ {r} : Unseen(q)
    BY <1>1, <1>3, UnseenAt
  <2>4. Calls!Move(r, "waiting") /\ UNCHANGED [q \in Requests |-> CallAnswer(q)]
    BY <2>2, <2>3, MoveOne DEF Unseen
  <2>. QED BY <2>2, <2>4 DEF CallStep, Calls!RequestNext, Calls!Ask
<1>. QED BY <1>2, <1>3 DEF SubmitText

\* A lease is a slot of the runner.
LEMMA AdmitSeen ==
  ASSUME RunnerInv, NEW r \in Requests, Admit(r)
  PROVE  CallStep
<1>1. /\ r \in pending /\ r \in tasks /\ Cardinality(active) < MaxWorkers
      /\ active' = active \cup {r} /\ UNCHANGED <<tasks, results, delivered>>
  BY DEF Admit, Acquire, Selectable, EligibleRequests
<1>2. r \notin active
  BY <1>1, RunnerSets DEF RunnerInv, RequestInv, OwnerInv
<1>3. CallStage(r) = "waiting" /\ CallStage(r)' = "computing" /\ CallAnswer(r)' = CallAnswer(r)
  BY <1>1, <1>2 DEF CallStage, CallAnswer
<1>4. \A q \in Requests \ {r} : Unseen(q)
  BY <1>1, UnseenAt
<1>5. Calls!Move(r, "computing") /\ UNCHANGED [q \in Requests |-> CallAnswer(q)]
  BY <1>3, <1>4, MoveOne DEF Unseen
<1>6. Calls!Cardinality(Calls!Computing) < MaxWorkers
  <2>1. Calls!Cardinality(active) = Cardinality(active)
    BY DEF Cardinality, Calls!Cardinality
  <2>. QED BY <1>1, <2>1, ComputingSeen
<1>7. Calls!Start(r)
  BY <1>3, <1>5, <1>6 DEF Calls!Start
<1>. QED BY <1>7 DEF CallStep, Calls!RequestNext

\* poll() hands over an answer, once.
LEMMA PollSeen ==
  ASSUME RunnerInv, PumpEnd
  PROVE  CallStep
<1>0. /\ results \in [Requests -> {"none"} \cup Answers] /\ delivered \in [Requests -> Seq(Answers)]
      /\ UNCHANGED <<tasks, active>>
  BY DEF RunnerInv, RunnerTypeOK, PumpEnd
<1>1. CASE polling # Nobody /\ results[polling] # "none"
  <2>1. PICK p \in Requests : p = polling
    BY <1>1 DEF RunnerInv, RunnerTypeOK
  <2>2. /\ results[p] \in Answers
        /\ delivered' = [delivered EXCEPT ![p] = Append(@, results[p])]
        /\ results' = [results EXCEPT ![p] = "none"]
    BY <1>0, <1>1, <2>1 DEF PumpEnd
  <2>3. delivered'[p] # <<>> /\ results'[p] = "none"
    <3>1. delivered[p] \in Seq(Answers) /\ delivered'[p] = Append(delivered[p], results[p])
      BY <1>0, <2>2
    <3>2. Len(delivered'[p]) = Len(delivered[p]) + 1 /\ Len(delivered[p]) \in Nat
      BY <2>2, <3>1
    <3>3. Len(<<>>) = 0
      OBVIOUS
    <3>. QED BY <1>0, <2>2, <3>2, <3>3
  <2>4. \A q \in Requests \ {p} : Unseen(q)
    BY <1>0, <2>2, UnseenAt
  <2>5. CallAnswer(p) \in Calls!Outcomes /\ CallAnswer(p)' = "gone" /\ CallStage(p)' = CallStage(p)
    <3>1. results[p] # "none"
      BY <1>1, <2>1
    <3>. QED BY <1>0, <2>2, <2>3, <3>1 DEF CallAnswer, CallStage, Calls!Outcomes, Answers
  <2>6. /\ UNCHANGED [q \in Requests |-> CallStage(q)]
        /\ [q \in Requests |-> CallAnswer(q)]' = [[q \in Requests |-> CallAnswer(q)] EXCEPT ![p] = "gone"]
    BY <2>4, <2>5 DEF Unseen
  <2>. QED BY <2>5, <2>6 DEF CallStep, Calls!RequestNext, Calls!Fetch
<1>2. CASE ~(polling # Nobody /\ results[polling] # "none")
  BY <1>0, <1>2, UnseenAt, UnseenStep DEF PumpEnd
<1>. QED BY <1>1, <1>2

\* Every step of the runner is one that RequestLifecycle allows, or unseen.
LEMMA CallsStep ==
  ASSUME RunnerInv, [RunnerNext]_allVars
  PROVE  CallStep
<1>1. ASSUME NEW r \in Requests, NEW k \in TextKinds, NEW d, SubmitText(r, k, d) PROVE CallStep
  BY <1>1, SubmitSeen
<1>2. ASSUME NEW r \in Requests, Cancel(r) \/ Expire(r) \/ Reconcile(r) \/ PrepareRevoked(r) \/ CloseCancel(r)
      PROVE  CallStep
  BY <1>2, CancelSeen DEF Cancel, Expire, Reconcile, PrepareRevoked, CloseCancel
<1>3. ASSUME NEW r \in Requests, CollectDone(r) \/ PrepareRaises(r) \/ Settle(r) \/ LaunchFails(r)
      PROVE  CallStep
  <2>1. PICK o \in {"value", "error"} : r \in active /\ Finish(r, o) /\ UNCHANGED delivered
    BY <1>3 DEF CollectDone, PrepareRaises, Settle, LaunchFails, Returned, Preparing, Launchable
  <2>. QED BY <2>1, FinishSeen
<1>4. ASSUME UNCHANGED <<tasks, active, results, delivered>> PROVE CallStep
  BY <1>4, UnseenAt, UnseenStep
<1>5. ASSUME NEW r \in Requests, NEW o, Launch(r) \/ PrepareOverruled(r) \/ ThreadReturns(r, o) PROVE CallStep
  BY <1>4, <1>5 DEF Launch, PrepareOverruled, ThreadReturns
<1>6. ASSUME OwnerMoves \/ Clock \/ UNCHANGED allVars PROVE CallStep
  BY <1>4, <1>6 DEF OwnerMoves, ServiceDone, CloseBegin, CloseJoin, JoinEnds, CloseEnd, PumpBegin,
                    PrepareOverruled, Clock, allVars, runnerVars
<1>7. ASSUME NEW r \in Requests, NEW k, VisualSubmits(r, k) \/ VisualAcquires(r) \/ VisualCompletes(r)
      PROVE  CallStep
  BY <1>4, <1>7 DEF VisualSubmits, VisualAcquires, VisualCompletes, runnerVars
<1>. QED BY <1>1, <1>2, <1>3, <1>5, <1>6, <1>7, AdmitSeen, PollSeen
         DEF RunnerNext, Service, Admission, Close, OwnerMoves

\* However the owner's calls, the Broker's revocations, the deadlines, the
\* threads and close() interleave, the callers see what RequestLifecycle says: a
\* request is answered once, an answer never improves, a call whose answer was
\* given up keeps its slot to its end, and at most max_workers are under way.
THEOREM RunnerImplementsCalls == RunnerSpec => ImplementsCalls
<1>1. RunnerInit => Calls!RequestInit
  BY DEF RunnerInit, Calls!RequestInit, CallStage, CallAnswer
<1>2. RunnerInv /\ [RunnerNext]_allVars => [Calls!RequestNext]_Calls!requestVars
  BY CallsStep DEF CallStep
<1>. QED BY <1>1, <1>2, RunnerInductive, PTL DEF RunnerSpec, ImplementsCalls, Calls!RequestSpec
=============================================================================
