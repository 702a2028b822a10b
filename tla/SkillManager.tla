---------------------------- MODULE SkillManager ----------------------------
(***************************************************************************)
(* SkillManager (skills/manager.py) executing a linear TaskPlan: the steps *)
(* of the plan run one after the other; a lost target is reacquired a      *)
(* bounded number of times, an interrupted step waits behind a supervisory *)
(* HOVER until it is resumed or its suffix is replaced, a candidate is     *)
(* inspected on the way of a SEARCH, and whatever goes wrong ends in one   *)
(* emergency LAND.                                                         *)
(*                                                                         *)
(* A Skill is the choice of its result; parameters, poses and timestamps   *)
(* are left out, so a step is its id.  The frame on which HOVER was        *)
(* started is deferred by the code, which is a stutter.  The snapshots the *)
(* code keeps with an interruption (plan, outputs, attempts, target) are   *)
(* not repeated here: nothing changes the originals while one is held.     *)
(* Programs with graph edges are not modelled, nor is a HOVER released     *)
(* without a decision, which only they do.                                 *)
(***************************************************************************)
EXTENDS Integers, Sequences

CONSTANTS
  Steps,        \* step ids
  SkillOf,      \* the Skill of each step
  RefOf,        \* the SEARCH whose output a TRACK names, or NoStep
  Plans,        \* TaskPlans: sequences of steps
  Tasks,        \* the plans a task may start with
  Revisions,    \* <<plan, i, suffix>>: what planners may ask for while step i runs
  MaxAttempts,  \* RecoveryPolicy.max_attempts of every TRACK
  LocalRepair,  \* local repair is configured
  MaxCalls,     \* bound: calls of coordinators in one task
  NoStep        \* "no step"

Interruptible == {"GOTO", "FOLLOW_ROUTE", "SEARCH", "INSPECT", "TRACK"}
PlannedSkills == Interruptible \cup {"TAKEOFF", "HOVER", "LAND"}

ASSUME SkillAssumption ==
  /\ NoStep \notin Steps
  /\ SkillOf \in [Steps -> PlannedSkills]
  /\ RefOf \in [Steps -> Steps \cup {NoStep}]
  /\ Plans \subseteq Seq(Steps)
  /\ Tasks \subseteq Plans /\ Revisions \subseteq Plans \X Nat \X Plans
  /\ \A p \in Plans :
       /\ Len(p) > 1
       /\ \A i \in 1..Len(p) : SkillOf[p[i]] = "LAND" <=> i = Len(p)
       /\ \A i, j \in 1..Len(p) : p[i] = p[j] => i = j
  /\ MaxAttempts \in Nat /\ MaxCalls \in Nat
  /\ LocalRepair \in BOOLEAN

VARIABLES
  status,    \* _task_status
  pending,   \* _pending_task_result
  plan,      \* _task_plan
  version,   \* its plan_version
  index,     \* _plan_index, from 1
  active,    \* active Skill: its name, _active_execution_kind, the step it counts
             \* for (_active_planned_step_id) and the step whose Goal it was given
  outputs,   \* _step_outputs: "target" holds a target_id, "evidence" does not
  attempts,  \* _recovery_attempts
  locked,    \* _active_target_id is set
  hold,      \* _interrupted_execution with the supervisory state, or NoHold
  detour,    \* _search_inspection_detour, or NoDetour
  calls      \* calls of coordinators so far in this task

taskVars == <<status, pending, plan, version, index>>
workVars == <<outputs, attempts, locked>>
skillVars == <<taskVars, active, workVars, hold, detour, calls>>

TaskOver == {"SUCCEEDED", "FAILED", "CANCELED"}
Running == status = "RUNNING"

Active(k, kind, s, g) == [skill |-> k, kind |-> kind, step |-> s, goal |-> g]
Nothing == Active("NONE", "NONE", NoStep, NoStep)
Planned(s) == Active(SkillOf[s], "PLANNED", s, s)
Hover(s) == Active("HOVER", "SUPERVISORY", s, NoStep)

NoHold == [index |-> 0, step |-> NoStep, goal |-> NoStep, fallback |-> "none",
           next |-> "none", suffix |-> <<>>, established |-> FALSE, repair |-> FALSE]
Hold(fallback, repair) ==
  [index |-> index, step |-> active.step, goal |-> active.goal, fallback |-> fallback,
   next |-> "none", suffix |-> <<>>, established |-> FALSE, repair |-> repair]
NoDetour == [search |-> 0, inspect |-> 0, searchStep |-> NoStep, inspectStep |-> NoStep]

\* start() refuses a Goal of another Skill: the Skill is FAILED at once, which the
\* next tick sees.
Refused == active.kind = "PLANNED" /\ SkillOf[active.goal] # active.skill
Flying(k) == Running /\ active.skill = k /\ active.kind = "PLANNED" /\ ~Refused

\* _goal_from_step() of a step that is reached.
Resolvable(s, out) == SkillOf[s] = "TRACK" /\ RefOf[s] # NoStep => out[RefOf[s]] = "target"

SkillInit ==
  /\ status = "IDLE" /\ pending = "none"
  /\ plan = <<>> /\ version = 0 /\ index = 0
  /\ active = Nothing
  /\ outputs = [s \in Steps |-> "none"]
  /\ attempts = [s \in Steps |-> 0]
  /\ locked = FALSE
  /\ hold = NoHold /\ detour = NoDetour /\ calls = 0

(***************************************************************************)
(* Shared endings                                                          *)
(***************************************************************************)

\* _start_emergency_landing() in plan p.
EmergencyLand(p, verdict) ==
  /\ pending' = verdict
  /\ index' = Len(p)
  /\ active' = Active("LAND", "EMERGENCY", p[Len(p)], p[Len(p)])

\* _begin_landing(): nothing of the interruption or the detour survives.
BeginLanding(verdict) ==
  /\ EmergencyLand(plan, verdict)
  /\ hold' = NoHold /\ detour' = NoDetour
  /\ UNCHANGED <<status, plan, version>>

FinishTask(verdict) ==
  /\ status' = verdict
  /\ active' = Nothing
  /\ detour' = NoDetour
  /\ UNCHANGED <<pending, plan, version, index, hold>>

StartStep(i) ==
  /\ index' = i
  /\ active' = Planned(plan[i])

Output(s, out) == outputs' = [outputs EXCEPT ![s] = out]

Intervene == calls < MaxCalls /\ calls' = calls + 1

(***************************************************************************)
(* start_task(), reset_task(), cancel_task()                               *)
(***************************************************************************)

StartTask(p) ==
  /\ status = "IDLE"
  /\ status' = "RUNNING" /\ pending' = "none"
  /\ plan' = p /\ version' = 1
  /\ index' = 1 /\ active' = Planned(p[1])
  /\ outputs' = [s \in Steps |-> "none"]
  /\ attempts' = [s \in Steps |-> 0]
  /\ locked' = FALSE
  /\ hold' = NoHold /\ calls' = 0
  /\ UNCHANGED detour

ResetTask ==
  /\ status \in TaskOver
  /\ status' = "IDLE" /\ pending' = "none"
  /\ plan' = <<>> /\ version' = 0 /\ index' = 0
  /\ active' = Nothing
  /\ outputs' = [s \in Steps |-> "none"]
  /\ attempts' = [s \in Steps |-> 0]
  /\ locked' = FALSE
  /\ hold' = NoHold /\ detour' = NoDetour /\ calls' = 0

\* A vehicle that lands already goes on landing; a failure stays a failure.
CancelTask ==
  /\ Running
  /\ \/ /\ active.skill = "LAND"
        /\ pending' = IF pending = "FAILED" THEN pending ELSE "CANCELED"
        /\ UNCHANGED <<status, plan, version, index, active, hold, detour>>
     \/ /\ active.skill # "LAND"
        /\ BeginLanding("CANCELED")
  /\ UNCHANGED <<workVars, calls>>

(***************************************************************************)
(* Interruption and its continuations                                      *)
(***************************************************************************)

\* interrupt_with_hover()
Interrupt(fallback) ==
  /\ \E k \in Interruptible : Flying(k)
  /\ hold = NoHold
  /\ Intervene
  /\ hold' = Hold(fallback, FALSE)
  /\ active' = Hover(active.step)
  /\ UNCHANGED <<taskVars, workVars, detour>>

Undecided == Running /\ hold # NoHold /\ hold.next = "none"

\* The decision is taken now; HOVER ends on a later tick.
Decide(next, p) ==
  /\ Undecided
  /\ Intervene
  /\ hold' = [hold EXCEPT !.next = next, !.suffix = p]
  /\ UNCHANGED <<taskVars, active, workVars, detour>>

\* resume_interrupted_step()
Resume == Decide("RESUME", <<>>)

\* _validate_replacement_plan(): the steps before the interrupted one are kept.
Replaceable(p, i) ==
  /\ <<plan, i, p>> \in Revisions
  /\ Len(p) >= i
  /\ SubSeq(p, 1, i - 1) = SubSeq(plan, 1, i - 1)
  /\ Resolvable(p[i], outputs)

\* replace_interrupted_step_and_suffix()
Replace(p) == Undecided /\ Replaceable(p, hold.index) /\ Decide("REPLACE", p)

\* handoff_interrupted_search_candidate_to_inspect()
HandOff(p) ==
  LET i == hold.index
  IN  /\ Undecided /\ SkillOf[hold.step] = "SEARCH"
      /\ ~locked /\ outputs[hold.step] = "none"
      /\ detour = NoDetour
      /\ Replaceable(p, i)
      /\ p[i] = hold.step
      /\ Len(p) > i /\ SkillOf[p[i + 1]] = "INSPECT"
      /\ Decide("INSPECT", p)

\* Fault: a new plan starts with fresh budgets.
PublishFresh(p) ==
  /\ plan' = p /\ version' = version + 1
  /\ attempts' = [s \in Steps |-> 0]
  /\ UNCHANGED <<status, pending, outputs, locked>>

\* The plan is replaced by the next version p; budgets of the TRACKs it keeps stay.
Publish(p) ==
  /\ plan' = p /\ version' = version + 1
  /\ attempts' = [s \in Steps |-> IF \E i \in 1..Len(p) : p[i] = s THEN attempts[s] ELSE 0]
  /\ UNCHANGED <<status, pending, outputs, locked>>

\* Fault: the plan goes on behind the interrupted step.
ResumeBehind ==
  /\ StartStep(hold.index + 1)
  /\ hold' = NoHold
  /\ UNCHANGED <<status, pending, plan, version, workVars, detour>>

\* _resume_saved_interruption()
ResumeSaved ==
  /\ index' = hold.index
  /\ active' = Active(SkillOf[hold.step], "PLANNED", hold.step, hold.goal)
  /\ hold' = NoHold
  /\ UNCHANGED <<status, pending, plan, version, workVars, detour>>

\* _start_replacement_after_interruption()
StartReplacement ==
  /\ Publish(hold.suffix)
  /\ index' = hold.index
  /\ active' = Planned(hold.suffix[hold.index])
  /\ hold' = NoHold
  /\ UNCHANGED detour

\* _start_search_candidate_handoff_after_interruption()
StartHandOff ==
  LET i == hold.index
  IN  /\ Publish(hold.suffix)
      /\ index' = i + 1
      /\ active' = Planned(hold.suffix[i + 1])
      /\ detour' = [search |-> i, inspect |-> i + 1,
                    searchStep |-> hold.step, inspectStep |-> hold.suffix[i + 1]]
      /\ hold' = NoHold

Hovering == Running /\ active.kind = "SUPERVISORY"

\* Fault: a hold that timed out is resumed whatever its fallback says.
HoverTimesOutResumed ==
  /\ Hovering /\ hold.next = "none"
  /\ ResumeSaved
  /\ UNCHANGED calls

\* The first setpoint of the hold: HOLD_ESTABLISHED.
HoldEstablished ==
  /\ Hovering /\ ~hold.established
  /\ hold' = [hold EXCEPT !.established = TRUE]
  /\ UNCHANGED <<taskVars, active, workVars, detour, calls>>

\* _transition_from_supervisory_hover(): released.
HoverReleased ==
  /\ Hovering
  /\ \/ hold.next = "RESUME" /\ ResumeSaved
     \/ hold.next = "REPLACE" /\ StartReplacement
     \/ hold.next = "INSPECT" /\ StartHandOff
  /\ UNCHANGED calls

\* max_wait_s has passed without a decision.
HoverTimesOut ==
  /\ Hovering /\ hold.next = "none"
  /\ \/ hold.fallback = "RESUME_PREVIOUS" /\ ResumeSaved
     \/ /\ hold.fallback = "CANCEL_AND_LAND"
        /\ BeginLanding("FAILED")
        /\ UNCHANGED workVars
  /\ UNCHANGED calls

HoverFails ==
  /\ Hovering
  /\ BeginLanding("FAILED")
  /\ UNCHANGED <<workVars, calls>>

(***************************************************************************)
(* _transition_from_result(): a planned Skill ends                         *)
(***************************************************************************)

NextNonSearch == CHOOSE j \in (index + 1)..Len(plan) :
                   /\ SkillOf[plan[j]] # "SEARCH"
                   /\ \A k \in (index + 1)..(j - 1) : SkillOf[plan[k]] = "SEARCH"

\* This SEARCH closes the detour: the INSPECT behind it has been visited.
ClosesDetour ==
  /\ detour # NoDetour
  /\ active.skill = "SEARCH" /\ active.step = detour.searchStep
  /\ index = detour.search

\* _start_next_planned() from step n, with outputs' already set.
Proceed(n) ==
  LET next == IF ClosesDetour THEN n + 1 ELSE n
      bad == \/ ClosesDetour /\ n # detour.inspect
             \/ next > Len(plan)
             \/ ~Resolvable(plan[next], outputs')
  IN  \/ bad /\ BeginLanding("FAILED")
      \/ /\ ~bad
         /\ StartStep(next)
         /\ detour' = IF ClosesDetour THEN NoDetour ELSE detour
         /\ UNCHANGED <<status, plan, version, hold>>
         /\ pending' = IF active.skill = "TRACK" THEN "SUCCEEDED" ELSE pending

\* TAKEOFF, GOTO, FOLLOW_ROUTE, timed HOVER; an INSPECT that is no detour; TRACK,
\* whose success is the provisional result of the task.
StepDone ==
  /\ \E k \in PlannedSkills \ {"SEARCH", "LAND"} : Flying(k)
  /\ active.skill = "INSPECT" => detour = NoDetour
  /\ Output(active.step, "evidence")
  /\ Proceed(index + 1)
  /\ UNCHANGED <<attempts, locked, calls>>

\* The target is found: the rest of the chain of SEARCHes is skipped.
TargetFound ==
  /\ Flying("SEARCH")
  /\ outputs' = [s \in Steps |->
       IF \E i \in index..(NextNonSearch - 1) : plan[i] = s THEN "target" ELSE outputs[s]]
  /\ locked' = TRUE
  /\ Proceed(NextNonSearch)
  /\ UNCHANGED <<attempts, calls>>

SearchFollows == SkillOf[plan[index + 1]] = "SEARCH"

\* Nothing found: the next SEARCH of the chain runs.
SearchFallsBack ==
  /\ Flying("SEARCH") /\ SearchFollows
  /\ Output(active.step, "evidence")
  /\ Proceed(index + 1)
  /\ UNCHANGED <<attempts, locked, calls>>

\* _resume_search_after_inspection(): back to the exact SEARCH, if the plan still
\* has both steps where they were.
BackToSearch ==
  LET d == detour
      kept == /\ Len(plan) >= d.inspect
              /\ plan[d.search] = d.searchStep /\ plan[d.inspect] = d.inspectStep
  IN  \/ /\ kept
         /\ StartStep(d.search)
         /\ UNCHANGED <<status, pending, plan, version, hold, detour>>
      \/ ~kept /\ BeginLanding("FAILED")

InspectDone ==
  /\ Flying("INSPECT") /\ detour # NoDetour
  /\ \/ /\ active.step = detour.inspectStep
        /\ Output(active.step, "evidence")
        /\ BackToSearch
     \/ /\ active.step # detour.inspectStep
        /\ BeginLanding("FAILED")
        /\ UNCHANGED outputs
  /\ UNCHANGED <<attempts, locked, calls>>

\* TIMEOUT or INVALID_STATE of a detour: the SEARCH goes on without it.
InspectRejected ==
  /\ Flying("INSPECT") /\ detour # NoDetour
  /\ BackToSearch
  /\ UNCHANGED <<workVars, calls>>

\* _try_start_recovery(); without attempts left, or evidence to start from, the
\* failure is one like any other (StepFails).
TargetLost ==
  /\ Flying("TRACK")
  /\ attempts[active.step] < MaxAttempts
  /\ attempts' = [attempts EXCEPT ![active.step] = @ + 1]
  /\ active' = Active("REACQUIRE", "RECOVERY", active.step, active.goal)
  /\ locked' = TRUE
  /\ UNCHANGED <<taskVars, outputs, hold, detour, calls>>

Reacquiring == Running /\ active.kind = "RECOVERY"

\* Fault: a target that is seen again counts as one that was followed.
ReacquiredSuffices ==
  /\ Reacquiring
  /\ StartStep(index + 1)
  /\ UNCHANGED <<status, pending, plan, version, workVars, hold, detour, calls>>

\* _resume_track_after_recovery(); another target is a failure (StepFails).
Reacquired ==
  /\ Reacquiring
  /\ active' = Planned(active.step)
  /\ UNCHANGED <<taskVars, workVars, hold, detour, calls>>

\* _try_start_local_repair(): an exhausted SEARCH or a GOTO or route out of time.
RepairPending ==
  /\ LocalRepair
  /\ \/ Flying("GOTO") \/ Flying("FOLLOW_ROUTE")
     \/ Flying("SEARCH") /\ ~SearchFollows
  /\ detour = NoDetour
  /\ pending \in {"none", "SUCCEEDED"}
  /\ pending' = "none"
  /\ hold' = Hold("CANCEL_AND_LAND", TRUE)
  /\ active' = Hover(active.step)
  /\ UNCHANGED <<status, plan, version, index, workVars, detour, calls>>

\* Every other failure lands the vehicle.
StepFails ==
  /\ \/ Reacquiring
     \/ Running /\ active.kind = "PLANNED" /\ active.skill # "LAND"
  /\ BeginLanding("FAILED")
  /\ UNCHANGED <<workVars, calls>>

Landing == Running /\ active.skill = "LAND"

\* Fault: what happened before the landing is forgotten.
LandDoneForgets ==
  /\ Landing
  /\ Output(active.step, "evidence")
  /\ FinishTask("SUCCEEDED")
  /\ UNCHANGED <<attempts, locked, calls>>

LandDone ==
  /\ Landing
  /\ Output(active.step, "evidence")
  /\ FinishTask(IF pending \in {"FAILED", "CANCELED"} THEN pending
                ELSE IF index = Len(plan) /\ plan[index] = active.step THEN "SUCCEEDED"
                ELSE "FAILED")
  /\ UNCHANGED <<attempts, locked, calls>>

\* One emergency landing is tried after a planned one; it does not recurse.
LandFails ==
  /\ Landing
  /\ \/ /\ active.kind = "PLANNED"
        /\ EmergencyLand(plan, "FAILED")
        /\ UNCHANGED <<status, plan, version, hold, detour>>
     \/ /\ active.kind = "EMERGENCY"
        /\ FinishTask("FAILED")
  /\ UNCHANGED <<workVars, calls>>

(***************************************************************************)
(* Local and coordinated repair                                            *)
(***************************************************************************)

\* _prepare_replacement(): step s stays, behind at most new GOTO detours.
Prepared(p, i, s) ==
  /\ Replaceable(p, i)
  /\ Resolvable(s, outputs)
  /\ \E j \in i..Len(p) :
       /\ p[j] = s
       /\ j > i => /\ SkillOf[s] \in {"GOTO", "SEARCH"}
                   /\ \A k \in i..(j - 1) :
                        /\ SkillOf[p[k]] = "GOTO"
                        /\ \A l \in 1..Len(plan) : plan[l] # p[k]

\* publish_prepared_suffix(): the first step of the suffix starts with the Goal
\* that was prepared, which is that of the retained step.
PublishPrepared(p, i, s) ==
  /\ Prepared(p, i, s)
  /\ Intervene
  /\ Publish(p)
  /\ index' = i
  /\ active' = Active(SkillOf[p[i]], "PLANNED", p[i], s)
  /\ hold' = NoHold
  /\ UNCHANGED detour

RepairOpen == Undecided /\ hold.repair /\ pending = "none"

\* commit_local_repair(), on fresh evidence of a stable hold.
CommitLocalRepair(p) ==
  /\ RepairOpen /\ hold.established
  /\ PublishPrepared(p, hold.index, hold.step)

\* fail_local_repair()
FailLocalRepair ==
  /\ RepairOpen
  /\ BeginLanding("FAILED")
  /\ UNCHANGED <<workVars, calls>>

\* commit_coordinated_suffix(), for a healthy vehicle that flies.
CommitCoordinated(p) ==
  /\ \E k \in Interruptible : Flying(k)
  /\ pending = "none"
  /\ PublishPrepared(p, index, active.step)

(***************************************************************************)
(* Specification                                                           *)
(***************************************************************************)

\* A tick at which the active Skill has ended.
SkillEnds ==
  \/ StepDone \/ TargetFound \/ SearchFallsBack
  \/ InspectDone \/ InspectRejected
  \/ TargetLost \/ Reacquired \/ RepairPending
  \/ StepFails
  \/ LandDone \/ LandFails
  \/ HoverReleased \/ HoverTimesOut \/ HoverFails

Decisions ==
  \/ Resume
  \/ \E p \in Plans : Replace(p) \/ HandOff(p) \/ CommitLocalRepair(p) \/ CommitCoordinated(p)
  \/ FailLocalRepair

SkillNext ==
  \/ \E p \in Tasks : StartTask(p)
  \/ ResetTask
  \/ CancelTask
  \/ \E fallback \in {"RESUME_PREVIOUS", "CANCEL_AND_LAND"} : Interrupt(fallback)
  \/ Decisions
  \/ HoldEstablished
  \/ SkillEnds

SkillSpec == SkillInit /\ [][SkillNext]_skillVars

\* Every Skill has a deadline of its own (timeout, duration_s, max_wait_s) and
\* the vehicle is ticked as long as its task runs.
SkillFairness == WF_skillVars(SkillEnds)
LiveSkillSpec == SkillSpec /\ SkillFairness

(***************************************************************************)
(* Properties                                                              *)
(***************************************************************************)

ActiveRecords ==
  [skill : PlannedSkills \cup {"REACQUIRE", "NONE"},
   kind : {"NONE", "PLANNED", "RECOVERY", "SUPERVISORY", "EMERGENCY"},
   step : Steps \cup {NoStep}, goal : Steps \cup {NoStep}]
HoldRecords ==
  [index : Nat, step : Steps \cup {NoStep}, goal : Steps \cup {NoStep},
   fallback : {"none", "RESUME_PREVIOUS", "CANCEL_AND_LAND"},
   next : {"none", "RESUME", "REPLACE", "INSPECT"},
   suffix : Plans \cup {<<>>}, established : BOOLEAN, repair : BOOLEAN]

\* Every variable has its type; a hold or a detour names steps of the plan.
SkillTypeOK ==
  /\ status \in TaskOver \cup {"IDLE", "RUNNING"}
  /\ pending \in TaskOver \cup {"none"}
  /\ plan \in Plans \cup {<<>>} /\ version \in Nat
  /\ index \in 0..Len(plan)
  /\ active \in ActiveRecords
  /\ outputs \in [Steps -> {"none", "evidence", "target"}]
  /\ attempts \in [Steps -> 0..MaxAttempts]
  /\ locked \in BOOLEAN /\ calls \in 0..MaxCalls
  /\ hold \in HoldRecords
  /\ detour \in [search : Nat, inspect : Nat, searchStep : Steps \cup {NoStep},
                 inspectStep : Steps \cup {NoStep}]

\* The phase a caller sees.
Phase == IF ~Running THEN IF status = "IDLE" THEN "idle" ELSE status
         ELSE IF active.skill = "LAND" THEN "landing"
         ELSE IF active.kind = "SUPERVISORY" THEN "holding" ELSE "flying"

Life == INSTANCE VehicleLifecycle WITH
          phase <- Phase,
          trouble <- IF pending \in {"FAILED", "CANCELED"} THEN pending ELSE "none",
          planNo <- version

\* The manager implements VehicleLifecycle: whatever its coordinators call and
\* however its Skills end, it lands once and for good, an early end is never
\* reported as a success or a failure as a cancellation, and plans change only
\* by the next version and never during a landing.
ImplementsLifecycle == Life!LifeSpec

\* Every task ends: losses are reacquired a bounded number of times, a SEARCH is
\* interrupted for one INSPECT only, and no hold lasts for ever, so only
\* its coordinators could keep a vehicle in the air, and they stop.
TaskEnds == Running ~> status \in TaskOver

\* A TRACK names a SEARCH that is before it in the plan.
RefsBehind ==
  \A p \in Plans : \A j \in 1..Len(p) :
    SkillOf[p[j]] = "TRACK" /\ RefOf[p[j]] # NoStep =>
      \E k \in 1..(j - 1) : p[k] = RefOf[p[j]]

\* Revisions that leave an inspection in the plan, right behind its SEARCH when
\* that is still to run.
KeepsInspections(R) ==
  \A r \in R : \A k \in r[2]..Len(r[1]) :
    SkillOf[r[1][k]] = "INSPECT" =>
      \E m \in 1..Len(r[3]) :
        /\ r[3][m] = r[1][k]
        /\ k > r[2] /\ SkillOf[r[1][k - 1]] = "SEARCH" => m > 1 /\ r[3][m - 1] = r[1][k - 1]

\* Revisions that put no new GOTO in front of the step that runs.
NoNewGotoFirst(R) ==
  \A r \in R : r[2] \in 1..Len(r[3]) /\ SkillOf[r[3][r[2]]] = "GOTO" =>
    \E l \in 1..Len(r[1]) : r[1][l] = r[3][r[2]]

\* A task succeeds only if each step of the plan it ended with was carried out:
\* all but an INSPECT have an output, and a TRACK followed a target that was
\* found by the SEARCH it names.
SuccessIsEarned ==
  status = "SUCCEEDED" =>
    \A i \in 1..Len(plan) :
      /\ SkillOf[plan[i]] # "INSPECT" => outputs[plan[i]] # "none"
      /\ Resolvable(plan[i], outputs)

\* An interruption leaves no trace but the decision it was made for: afterwards
\* the same step runs with the Goal it had, or the next version of the plan runs
\* from that step on (from the INSPECT behind it for a candidate), or the
\* vehicle lands.
LeavesHold ==
  \/ active'.kind = "EMERGENCY"
  \/ /\ plan' = plan /\ version' = version /\ index' = hold.index
     /\ active'.step = hold.step /\ active'.goal = hold.goal
  \/ /\ version' = version + 1 /\ active'.step = plan'[index']
     /\ \/ index' = hold.index
        \/ index' = hold.index + 1 /\ detour'.searchStep = hold.step
     /\ \A i \in 1..(hold.index - 1) : plan'[i] = plan[i]
HoldLeavesNoTrace == [][Running /\ hold # NoHold /\ hold' = NoHold => LeavesHold]_skillVars

\* What was done and spent in a task stays so through holds, revisions and
\* repairs: no output is lost, and no TRACK of the plan gets attempts back.
WorkKept ==
  [][Running /\ status' # "IDLE" =>
       \A i \in 1..Len(plan') :
         /\ outputs[plan'[i]] # "none" => outputs'[plan'[i]] # "none"
         /\ (\E j \in 1..Len(plan) : plan[j] = plan'[i]) =>
              attempts'[plan'[i]] >= attempts[plan'[i]]]_skillVars

\* The docstring of release_prepared_execution() (manager.py:716): it "starts the
\* prepared retained step of the already-published plan": a planned Skill always
\* runs with the Goal of its own step.
StepRunsOwnGoal == Running /\ active.kind = "PLANNED" => active.goal = active.step

\* The docstring of _SearchInspectionDetour (manager.py:174): the runtime "skips
\* the already-run INSPECT only after SEARCH produces its real target_id output":
\* the step a SEARCH skips to close its detour is that INSPECT.
SkipsInspected ==
  [][Running /\ ClosesDetour /\ detour' = NoDetour /\ active'.kind = "PLANNED" =>
       plan[detour.inspect] = detour.inspectStep]_skillVars
=============================================================================
