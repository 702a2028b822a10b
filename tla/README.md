# A TLA+ model of the fleet control code

The repository flies a fleet of UAVs on missions that language and vision models plan, review and repair.
Everything a model says is advice: the code that queues the calls, owns the targets, holds and lands the vehicles
and decides what a mission has come to is ordinary deterministic Python, driven by one control loop, with model
calls on other threads that may be slow, late or never return. This directory models that code. It says what the
parts promise, checks it with TLC on small instances, and proves what matters most with TLAPS.

Paths below are relative to `src/uav_agent/`.

## 1. The system

```
 scripts/run_fleet_mission.py            one loop: observe, tick(), cancel() on the way out
        |
 fleet/runtime.py  FleetMissionRuntime   assignments, failures, landings, replans
   |       |        \
   |       |         fleet/target_registry.py   who may claim which target
   |       fleet/recovery_controller.py         repairs of a held vehicle
 agents/mission_agent.py (one per UAV)          one mission: skills, safety, reviews
   |        \
 skills/manager.py   visual and plan-revision coordinators
                          |                                 recovery_controller
                    ModelRequestDispatcher             BrokeredTextTaskRunner
                    + AsyncModelWorker threads          + one thread per call
                          \                              /
                           fleet/model_request_broker.py   one queue and one set of slots for the fleet
```

### Inventory

| Component | State | Operations | What is hard | What makes it correct |
|---|---|---|---|---|
| Model request broker | queue, leases, revoked leases, audit log | submit, acquire_next, complete, cancel | two owners share the queue; supersession, eviction, preemption and ageing interact; a revoked call still occupies its slot | one verdict for each request; slots never oversubscribed; bounded queues; urgent work is not passed, aged reviews are not starved |
| Text task runner | tasks, deadlines, threads, results, audit marks | submit, pump, poll, cancel, close; thread return | the Broker takes work away behind its back; prepare() runs without the lock and may take long or raise; deadlines race answers; threads never return | one answer for each request, none late; every lease given back; every deadline ends in an answer |
| Visual dispatcher and workers | requests, dispatched set, results; per-vehicle pending and active call | submit, poll, close; worker pick-up and return | the worker is between any two steps of a call of the dispatcher; reviews are superseded, evicted or preempted | each accepted review is answered, once; a revoked result arrives marked stale; nothing granted is dropped |
| Shared target registry | binding and claim of each assignment; a staged copy | bind, claim or lock, release, terminate; clone and adopt | provisional, weaker and stronger claims in every order; publication of a copy | one holder of a target; a vehicle has one assignment; only rank displaces; history survives publication |
| Fleet runtime | plan, records, agents, landings in and out of the plan, pending replans, cancellation | start, tick (a loop over vehicles), cancel, publication | one vehicle's failure changes how later ones of the same loop are treated; holds, landings, handovers and cancellation overlap | nothing keeps flying unowned; claims follow the plan; goals survive handovers; a cancelled fleet comes down and ends |
| Recovery controller | episodes with phase, deadline, attempts; candidate | tick, local, joint and reassignment repair, commit, exit | a candidate is computed for seconds against a state that goes on changing; one deadline over three phases | a candidate is committed only against the state it was computed for; each episode ends in a repair, a landing or a handover |
| Mission agent, skill manager | active skill, recoveries, supervisory hover and its continuation, event queue | tick, cancel, interrupt, resume, replace | one hover shared by several owners; timeouts of the hover | an interrupted step is resumed or replaced by its owner only; a terminal task stays terminal |
| Obstacle hold and detour | collision-supervisor state, fused evidence, revision session | camera frame, model report, hold established, route proposed, accepted, rejected | evidence and handshakes in any order; another coordinator may release the hover | each hold has an owner who ends it; the plan a hazard was found in is not flown again |
| Visual coordinators, review scheduler | review in flight, cooldown, pending revision | schedule, finish, tick | a late answer for an older plan version; a reservation that is never given back | one review in flight; a stale answer changes nothing |
| Airspace | none but the last decision | evaluate | geometry over reals | separation; one of two always moves |
| Global planning, compiler, validators, planners | retry budgets | plan, repair, compile | budgets; documents | bounded retries; only valid plans are published |
| Perception, target manager, frame store | trackers, buffers | process a frame | bounded buffers; floating-point evidence | bounds; no evidence of another vehicle |
| Model clients, YOLO service, simulation, experiments, training, data, scripts | - | - | outside of the control core | - |

`PROJECT.json` lists every component with its sources and, where it is not modelled, the reason; the hazards are
listed there at the line where they bite, with the properties that watch them.

## 2. The modules

| Module | Models | Extends |
|---|---|---|
| `ModelRequestBroker` | `fleet/model_request_broker.py`: one action for each method | |
| `TextTaskRunner` | `BrokeredTextTaskRunner` of `fleet/model_request_dispatcher.py`, composed with the Broker; the visual owner is reduced to its calls of the Broker | `ModelRequestBroker` |
| `VisualDispatcher` | `ModelRequestDispatcher` and `AsyncModelWorker` (`models/async_worker.py`), composed with the Broker; the text owner is reduced to its calls | `ModelRequestBroker` |
| `RequestLifecycle` | what both owners promise to whoever made a request: the abstract specification of `TextTaskRunner` and `VisualDispatcher` | |
| `SharedTargetRegistry` | `fleet/target_registry.py`, with the staged copy of a publication | |
| `FleetRuntime` | `FleetMissionRuntime` (`fleet/runtime.py`) and the lifecycle of `MissionAgent`, composed with the registry | `SharedTargetRegistry` |
| `VehicleLifecycle` | what a manager promises to whoever runs a vehicle: the abstract specification of `SkillManager` | |
| `SkillManager` | `SkillManager` (`skills/manager.py`) executing a linear plan, with its coordinators' calls | |
| `ObstacleHold` | `ObstacleHazardRuntime`, `CollisionSupervisor`, the assessment coordinator (`agents/runtime_visual_assessment_coordinator.py`) and the route coordinator (`runtime/obstacle_route_runtime.py`, `agents/obstacle_revision_coordinator.py`) in the frame order of `scripts/run_dynamic_visual_mission.py`, composed with the manager | `SkillManager` |
| `RecoveryController` | `FleetRecoveryController` (`fleet/recovery_controller.py`) inside the ticks of the fleet runtime, with what those do to its vehicles | |
| `*Proofs` | theorems about the module of that name | the module, `TLAPS` |
| `MC*` | constants of the small instances, views and symmetry | the module |

**ModelRequestBroker.** A request has a record of the attributes the code compares: vehicle, stream, priority
(0..4), whether it is control work, whether it is replaceable. `pending`, `inflight` and `preempted` are the
code's dictionaries and set; `arrival` orders the queue; `logs` is the sequence of verdicts a request has got,
which the code writes in its audit log. `submit()` is one action with all it does: the supersession of an older
frame, the eviction of a queued request, the revocation of a running one. `submit()` revokes in a loop; the model
does it in one step, and `UrgentSettles` is the check that the loop would have nothing left to do. The identifier
that decides between equal requests is a random string, hence any of the equals may be chosen.

**TextTaskRunner.** A call of `pump()` or `poll()` is several steps, since the lock is released around
`prepare()` and threads return at any time: `pc` says where the owner is (servicing finished and expired tasks,
admitting, inside the callback, settling it, closing). `delivered` is what callers have been given. Model threads
return a value, an error, or never.

**VisualDispatcher.** A call of `poll()` or `close()` collects, reconciles with the Broker, hands over and
answers in this order, vehicle by vehicle; a worker's thread picks up, runs and returns in between. `answered`
counts the results put in a vehicle's queue.

**RequestLifecycle.** The life of a request as its caller sees it: it waits, is computed, is over; its answer is a
value, an error or stale, and gone once it was fetched or pushed out of a full queue. Revocation, eviction,
supersession, deadlines and `close()` are not there, only what they may do to a request. Runner and dispatcher each
implement it under a mapping (`CallStage`, `CallAnswer`) from their books and the Broker's; `Slots` is the number of
the runner's threads (`max_workers`) there and the Broker's `max_inflight_global` here.

**SharedTargetRegistry.** A registry is a record of two functions, binding and claim of each assignment, so that
the live registry and the staged copy of a publication are values of one type, and each method is an operator from
registry to registry. `bind_assignment()` stores the binding before it tries the claim; a refused claim leaves the
binding, as in the code.

**FleetRuntime.** One tick is a loop over vehicles and is many steps here; `pc` and `todo` are the loop. What an
agent may do in a tick or at a cancel is a set of outcomes by its state (flying, landing because a skill failed,
shutting down, ended), read from `agents/mission_agent.py`. The airspace may hold any set of vehicles that leaves
one moving. The replan handler is a set of answers: it postpones, fails, hands the goal over to another vehicle, or
puts the same vehicle to work again. A publication is one step that goes through the registry's staged copy. It takes
what the code's checks accept (`Admissible`): a new id on a new vehicle, or an old id back on its own vehicle and
target, also while that vehicle still lands. Then the vehicle has two agents, the new one (`agent`, in `agents`) and the
one that lands (`former`, in `_retired_failsafe_agents`), which are ticked in different loops. Callers
are taken as they are in `scripts/run_fleet_mission.py`: `cancel()` is called between ticks, at most once while
the fleet runs.

**VehicleLifecycle.** The life of one task seen from outside: idle, flying, holding, landing, over; what has gone
wrong so far; the number of the plan. Nobody has to know how the manager works to rely on it.

**SkillManager.** A plan is a sequence of steps and a step is its Skill; what a Skill reports is a choice, so each
branch of `_transition_from_result()` is an action: a step is done, a target found or not (the rest of a chain of
SEARCHes is skipped, or the next of them runs), a target lost and reacquired within the TRACK's budget, a failure that
lands the vehicle, a landing that itself fails. `active` has the name of the running Skill, its execution kind, the
step it counts for and the step whose Goal it was started with: these last two differ if a caller mixes them up
(section 5). `hold` is `_interrupted_execution` with the decision taken for it (`resume_interrupted_step()`,
`replace_interrupted_step_and_suffix()`, `handoff_interrupted_search_candidate_to_inspect()`), which takes effect when
HOVER reports `SUPERVISORY_RELEASED`, on a later tick; `detour` is `_search_inspection_detour`. What planners may ask
for is the relation `Revisions`; what the manager checks of it (`_validate_replacement_plan()`,
`_prepare_replacement()`) is in the guards. A start that the Skill refuses leaves it FAILED, which the next tick sees
(`Refused`). The snapshots the code keeps of plan, outputs, attempts and target with an interruption are not repeated:
nothing changes the originals while one is held.

**ObstacleHold.** One frame of the mission loop is a round of turns (`turn`): the camera, the model's report, the
reviews, the manager, the handshake of the hold, the route coordinator. Each turn calls the manager by the actions of
`SkillManager` or leaves it alone, and each coordinator keeps its own picture: `safety` is the supervisor's state
(GEOMETRY_GROUNDED is "GROUNDED"), `bound` the plan version it holds for, `known` the version the agent knows, which
lags behind the manager's by a turn, `asked` the version an assessment was asked for, `news` a HOLD_ESTABLISHED record
the runtime has not read. `gate` says whether models control: then reports may hold (`add_qwen_hazard()`) and reviews and
revisions take, resume, replace or cancel holds, whosever they are (`ReviewDecides`; `review` is only that
somebody waits). Without it ("camera-only") the camera alone holds. An exception no turn catches ends the loop,
and what follows is a landing (`LoopDies`, `FailSafeLanding`); one in the route turn is caught, and switches that
turn off for good (`gaveUp`). Evidence is a choice: a frame has no geometry, is clear, or shows a hazard; a
proposal is accepted, rejected or useless.

**RecoveryController.** The fleet from the side of its repairs. Each visit of an agent, each service of a pending
assignment, each episode's turn and each preparation of a request is an action, in any order, except that what is
pending is serviced before the tick goes on (`Serviced`) and that `cancel()` comes between ticks. An episode is a record of the
fields of `RecoveryEpisode` that decide anything; what its context digests (`_dependencies()`) is the fleet version and
the versions of the records it names (`Digest`), frozen when the request is prepared and compared when its answer is
published. A route is the corridor it occupies, so a space conflict is a corridor somebody else's route has
(`Occupants`). A model's answer is a choice of corridors; a request is queued, running or gone, which is what
`TextTaskRunner` makes of it. A publication is one step (the code holds `_recovery_commit_lock`) and names the
vehicles whose skill does not start: these land with the new plan published, which is the `finally` of the code.
`HandOverExpires` is the guard between the cancellation of the source and the exchange of the records, failing. A
handover goes to any vehicle no assignment is on (`Spare`): one that never flew, one that has landed, or one that was
retired and lands still, whose old agent is then one of `former`. The
agents' states are finer than in `FleetRuntime` where a repair sees a difference (hovering for a fault, landing with
or without a shutdown) and coarser elsewhere.

## 3. Runs

| Run | Question | Instance | Distinct states |
|---|---|---|---|
| `broker` | Do verdicts, limits, priorities, preemption and ageing hold in every order of calls? | 4 requests of 6 kinds, 3 slots, 2 for one vehicle, queues of 2, clock 0..1 | 559,360 |
| `runner` | Do runner and Broker agree, is every request answered once, in time and audited? | 3 requests of 4 kinds, 2 slots, 2 threads | 3,886,751 |
| `runner_service` | Is a request answered though calls hang, and do reviews of other vehicles go on? | 3 requests, 3 vehicles, one thread | 280,749 |
| `visual` | Is every review answered once, nothing dropped, and do coordinators see what `RequestLifecycle` says? | 3 requests of one vehicle, one slot | 745,041 |
| `targets` | Who holds a target, and what do publications keep? | 3 assignments, 3 vehicles, 1 target, 2 priorities, clock 0..1 | 1,254,458 |
| `fleet` | What do failures, holds, handovers and cancellation do to vehicles, goals and claims, is nothing that waits forgotten, and does a cancelled fleet end? | 2 vehicles on missions and a spare one, 3 ids, 3 policies, 4 handlers | 584,611 |
| `skills` | Does a task land once and for good, with every step earned, whatever its coordinators call? | 2 missions, 16 possible revisions, 2 reacquisitions, 6 calls of coordinators | 22,545 |
| `obstacle` | Has each hold an owner who ends it, do supervisor and coordinators agree, is a blocked plan flown again, does the mission end? | 1 mission, 5 possible revisions, 4 calls of coordinators, 2 proposals, both modes | 1,096,338 |
| `recovery` | Are repairs computed side by side published only where nothing they rest on has changed, and is each fault settled? | 2 vehicles and a spare one, 3 corridors, a fault of vehicle 1 and of the spare one, 1 local and 2 reassignment attempts, up to two handovers, both modes | 635,645 |
| `recovery_tick_raises`, `skills_repair_goal`, `skills_stale_detour` | disagreements of code and documentation (section 5) | as small as shows them | |

Why the bounds are enough, as far as one can say. *Broker:* a preemption that picks its victim among several needs
two leases and an urgent third; a supersession and an eviction in one submission need a queue of two; four requests
are these and one more that comes late. *Runner:* two threads and a queue of one make a third request wait, and
one of the three may belong to the visual owner. *Visual:* three requests of one vehicle are one at the worker, one
queued and one that supersedes or preempts. Workers of two vehicles share nothing but the Broker's slots, which
`broker` varies; the run has one vehicle so that liveness can be checked on the whole graph. *Registry:* a
provisional, a weaker and a stronger claim meet on one target; targets do not interact. *Fleet:* one vehicle fails,
another is still to be visited in the same loop, and a third takes the goal over; when that fails, the goal may go back to
the first, down or still landing. There is no handler that both postpones and hands over: an assignment that waits
longer only meets more ticks of the others. *Skills:* six calls interrupt, decide and
interrupt again three times, so a hold is taken inside an inspection detour and after a repair; the missions have a
chain of two SEARCHes, a TRACK that names one of them, and each kind of revision the planners produce (the same
again, a route for a GOTO, a route in front, an INSPECT behind a SEARCH, detours of repairs, a SEARCH given up). *Obstacle:* four calls
are two holds with their decisions (a hold is taken only while a call is left to decide it, `TakeHold`), so a second
hazard meets a route that was accepted and one that was rejected; two
proposals are one repair and the end of the budget. *Recovery:* two episodes at once, in every phase,
a joint repair of both vehicles (the scope is two), a handover to the third vehicle while the other is repaired, and a free
corridor to repair into; one fault of a vehicle is enough for an episode to be overtaken by the landing, the
cancellation or the joint repair of another. The vehicle that was handed work may fault in its turn and hand it back,
to a vehicle that has landed or that lands still, and this one flies again (`MaxHandOvers`: the assignment of the faulty
vehicle is handed over up to fleet version 2, the other up to version 1). A local request that fails escalates at
once; asking again is what the two reassignment attempts show (the instance with two local attempts passes too, in nearly
twice the time). Larger bounds, such as a fault of the second vehicle or a third handover, make the graph too large for
liveness; the safety properties are proved for all of them. *Clocks* are 0..1, with time-outs
of one: a time-out has happened or not, and the tie at the instant itself is included. Each property has a mutant
in `PROJECT.json`, a plausible fault of the code the run finds, which is the evidence that the bounds reach the
interesting states.

Symmetry over requests is used in runs without liveness only. The views of the MC modules leave out the attributes
of requests that neither wait nor run and the order and times of those that do not wait, which no action or property
reads. Type invariants that are proved are not run as well.

The broker and dispatcher models stop when all requests have been used, and the bounded clock with them; these runs
do not check for deadlock. The registry never stops, and a fleet that has ended stutters by an action of its own
(`Stopped`); these runs check for deadlock, as do `skills`, where a task that is over can be reset, and
`obstacle`, where a mission that is over stutters (`MissionOver`), and `recovery`, which stutters when the fleet is over
or the loop has ended (`LoopEnds`).

### Fairness

* *Runner.* The fleet's tick pumps again and again, the clock is a wall clock no call stops, every request has a
  deadline, as all submissions of the recovery controller have, and the visual owner takes and returns its calls. Of
  the model threads nothing is assumed, nor that anyone polls or closes. Each request is made once, so "it is answered"
  is stated as "again and again nobody waits": once answered, a request stays so.
* *Visual.* Coordinators poll each tick, threads run, and the HTTP client bounds each call by a time-out, so a
  worker's call returns. Strong fairness is not needed.
* *Fleet.* The script ticks until the fleet has ended (`scripts/run_fleet_mission.py:3059`). The environment delivers
  observations, a landing that is ticked again and again comes down, the handler does not postpone for ever. The
  airspace may hold any vehicle for ever: this is what `CancelEnds` is about.
* *Skills.* Every Skill has a deadline of its own (a time-out, a duration, the longest wait of a hover), and a vehicle is
  ticked while its task runs: a running Skill ends (`SkillFairness`). Nothing is assumed of the coordinators, who may
  hold a vehicle and never come back: that the task ends all the same is `TaskEnds`.
* *Obstacle.* The loop goes through its frames, and the fail-safe landing is ticked when it has died
  (`_best_effort_production_failure_land`). A Skill past its deadline ends when the manager has its turn, which it has
  once a frame: hence strong fairness of that end. The shutdown guard, which gives a landing up that takes too long, is
  left out: a landing comes down in time. `MissionEnds` then says that no hold, review or lost handshake keeps the
  vehicle in the air.
* *Recovery.* Every tick services what is pending and gives every episode its turn, and the deadline of an episode passes
  (`Due`). Nothing is assumed of models, of the Broker, or of the visits of the agents: a fault is settled by the
  controller itself (`FaultSettles`). A loop that `recovery_tick_raises` has ended settles nothing, and is excepted.

A hung text call occupies its vehicle's only slot (`max_inflight_per_uav = 1` as shipped) for as long as it hangs, so
`ReviewServed` is about reviews of the *other* vehicles; that the same vehicle's reviews wait is the behaviour of
the code, not a property.

## 4. Proofs

All theorems hold for every value of the constants that satisfies the named assumptions (`BrokerAssumption`: the
limits are positive numbers, kinds have the attributes' types; `RunnerAssumption` and the like: the constants of
the composition have their types; `FleetAssumption`: a plan is a finite list that gives no vehicle, and under the
EXCLUSIVE policy no target, twice). `tlapm` checks 12263 obligations.

* **Broker** (`ModelRequestBrokerProofs`): `TypeOK`, `OneVerdict` and `WithinLimits`, the conjunction of `LeaseBounds`
  and `PendingBound`. The inductive invariant is their conjunction and that queue and leases are finite, which the
  bounds on cardinalities need.
  `OneVerdict` and the bounds depend on each other: that a revocation adds no second verdict needs that a lease has
  one exactly if it is revoked. Calls that only shrink the queue are handled once (`ShrinkInv`); `submit()` is
  split into the queue it leaves, the verdicts it adds and the bounds.
  The four action properties about urgency (`TakenOnlyForUrgent`, `NoBypass`, `AgedNotPassed`, `UrgentSettles`) follow
  from this invariant and facts about one step: a submission that is refused has taken nothing, since taking frees the
  place it was refused for (`RefusedTakesNothing`, from the bound of the queue); one revocation frees a lease for the
  urgent request (`OneRevocationFrees`, from the lease bounds); ageing moves no request over the boundary between
  urgent and ordinary (`BandFact`, `AgedFact`).
* **Compositions** (`TextTaskRunnerProofs`, `VisualDispatcherProofs`): the runner and the dispatcher, with their
  threads, deadlines and `close()`, implement the Broker's specification: each of their steps is one method of the
  Broker or none of them. So whatever is proved of the Broker holds of them: its verdicts and limits, and its rules of
  urgency (`RunnerKeepsUrgency`, `VisualKeepsUrgency`). The dispatcher needs one invariant, that what it hands over is
  a request (`HandsRequest`).
  Their own invariants are `LeasesMatch`, `OneAnswer`, `AuditComplete` and the action property `DeadlineRespected` of
  the runner, `OneAnswer` and `WorkHoldsLease` of the dispatcher, and the types of both. Each relates the books of
  three parties (Broker, owner thread, worker), which no call changes together, so the invariant says for every request
  what the books of one tell of the others'. `RunnerInv` has, for each request, whose it is (`OwnerInv`), who computes
  and who waits (`WorkInv`) and what was answered and recorded (`AnswerInv`), and which lease the owner thread is in the
  middle of (`PlaceInv`). `VisualInv` has the dispatcher's books (`BooksInv`: a request is forgotten exactly when it is
  answered) and the place of its work (`WorkerInv`: queued, running, done or being handed over, one of them, at its own
  vehicle). `WorkHoldsLease` is proved for one lease per vehicle, as shipped; section 5 says what happens with more.
  Both also refine `RequestLifecycle` (`RunnerImplementsCalls`, `VisualImplementsCalls`), from the same invariants: every
  step is one of its actions for one request, or a stutter. What this adds is order: a call ends once, its answer was
  given before or is given with it, and one that was revoked has been answered and keeps its slot (for the
  runner this made `AnswerInv` say that what is revoked has been answered). The dispatcher's refinement is checked
  in the run `visual`, where it entails the dispatcher's own `OneAnswer` (proved as `VisualOneAnswer`); the runner's is proved and
  in no run.
* **Registry** (`SharedTargetRegistryProofs`): `RegistryTypeOK`, `NothingShared` (`OneHolderIn` and
  `OneAssignmentIn` of the live registry), and the action properties `RankDecides` (`DisplacedByRank` and
  `NoHolderBelowRival`) and `HistoryKept`. `Sound` is a property of one registry (typed,
  unbound ids claim nothing, one holder, one assignment for each vehicle) that the empty registry has and each
  method preserves; the invariant is `Sound` of the live one and of the copy. One holder alone is not inductive:
  without "an unbound id holds nothing" a binding could bring a second holder with it. `HistoryKept` needs to
  know that the copy is not older than the live registry: `Later(live, staged)` is an order that every method
  respects (`HistoryInv`).

* **Manager** (`SkillManagerProofs`): `SkillTypeOK`, `ImplementsLifecycle`, `HoldLeavesNoTrace`, `WorkKept`, `SuccessIsEarned`. The
  invariant `SkillInv` says of a running task that index and plan fit (`RunningShape`), that a supervisory HOVER is
  active exactly while an interruption is saved and an emergency landing exactly once something ended the mission
  early (`ActiveShape`), that what was saved names a step of the plan that may be interrupted, and that a suffix which
  was decided on continues that plan (`HoldShape`). The types alone are not inductive: a decision is carried out
  ticks after it was checked, so what was checked has to be remembered. The refinement maps a running task to flying,
  holding or landing by what is active, and each action to one abstract step or a stutter. `NextNonSearch` is a CHOOSE
  of a least index; that it exists is an argument by well-foundedness, once (`LeastElement`, `NextNonSearchExists`), from the fact that a
  plan ends with a LAND. `SuccessIsEarned` needs an invariant of its own (`EarnedInv`): every step behind the index is
  carried out but the SEARCH a detour left (`Progress`), the INSPECT of an open detour is still ahead or right
  behind a SEARCH that runs again (`DetourPlaced`), and a decision that waits was allowed by the plan it waits in
  (`DecisionSound`). It assumes `RefsBehind`, which the code enforces (`_validate_prior_search_reference`), and
  `KeepsInspections(Revisions)`, which it does not: without it the theorem is false, as the run `skills_stale_detour`
  shows. `MCSkillManager` has both as an ASSUME of its plans and revisions.
  Further theorems say where exactly the code leaves its documentation (section 5). On the same two assumptions a SEARCH
  skips only the INSPECT that was run (`SkillManagerSkipsInspected`). Whatever is revised, a planned Skill has its
  own Goal or is a GOTO in front of the GOTO or SEARCH whose Goal it has, with only GOTOs in between
  (`SkillManagerGoals`; its invariant `GoalsOnlyOfDetours` also follows the Goal through an interruption), so a Goal is
  refused only on a detour in front of a SEARCH (`SkillManagerRefuses`); and if no revision puts a new GOTO in front of
  the step that runs (`NoNewGotoFirst`), every Skill has its own Goal (`SkillManagerOwnGoals`). They rest on one lemma about steps:
  only a prepared repair gives a Skill another's Goal (`GoalStep`).

* **Obstacle hold** (`ObstacleHoldProofs`): types and every safety property of the run. First, each step of the composition is a call of
  the manager or none (`ObstacleKeepsManager`), so the manager's theorems hold in the loop
  (`ObstacleManagerSafe`, and `ObstacleEarns` where reviews and routes keep the inspections of a plan) and `SkillInv` may be used. The invariant `HoldInv` adds to it, layer by layer: the types
  with "a proposal is awaited only within the budget" (`BudgetTyped`); that a hold is of a running task, a proposal is
  awaited only while the supervisor replans, and a supervisor that replans without one is of a vehicle that lands or has
  landed (`ReplanInv`: without it a new hold could begin while the supervisor still replans); and, where only the
  camera holds, that reports and reviews have no turn (`TurnInv`), that neither agent nor supervisor is ahead of the
  manager's plan and a HOVER is left for the next plan or a landing (`FlightInv`, which says that what is flown is
  newer than what a hazard was found in), and that only a grounded hazard stops the vehicle, a decided hold was
  established, and a handshake is consumed in the frame it was made in, before anything is decided about its hold
  (`OwnedInv`). Of the manager only lemmas about its calls are used (`NoTakeOffAgain`, `StartsOnce`,
  `HeldWhileRunning` and the like), several of them read off its refinement of `VehicleLifecycle`.

* **Fleet** (`FleetRuntimeProofs`): `FleetTypeOK`, and every safety property of the run: `NoneForgotten`, `ClaimsRouted`, `GoalsKept`,
  `GoalsReached`, `NoStrayFlight`, `TerminalKept` and `OwnLandingNotHeld`, for every finite plan, any number of vehicles and
  ids, every policy and every handler. `GoalsReached` assumes what the run has in its constants: no handler that
  answers "the same vehicle" also fails or hands over (section 5 says what happens otherwise). The invariant `FleetInv`
  has the registry (`ClaimsInv`, `Sound` from its proofs), the routes (`RouteInv`: one assignment for each vehicle, a
  binding is a route as long as there is one, whatever is in the air flies a route or was retired from one, and a retired agent lands, beside the new agent of its
  vehicle if that has a route again), the goals
  (`GoalInv`, by cardinalities), where the runtime is in its loops (`PlaceInv`, which also says what an end was decided
  on), who may not be held (`HeldInv`), and for each assignment how its record agrees with its claim (`ClaimRow`), with
  the agent of its vehicle (`FlightRow`) and with what was asked for (`LandingRow`). None of the properties is inductive
  alone: `NoStrayFlight` needs that a vehicle in the air still has a route, `OwnLandingNotHeld` that CANCELING is the
  record of a vehicle that lands and is exempt from the holds of this tick. Steps that publish nothing keep all routes
  (`Keeps`, `KeepsRoutes`) and are about one assignment (`OneRow`) or cancel several (`RowCanceled`); only a
  handover changes the routes (`HandOverStep`); that what it binds is what `bind_assignment()` accepts comes from the checks
  of the publication (`Admissible`). That a lock under the EXCLUSIVE policy never meets a rival (`NoRival`) is part of it. `NoneForgotten` is inductive relative to it: all but a few steps add nobody to those who
  wait for a start and put whoever waits for a replan on the list (`Tidy`).
  The fleet also keeps what the registry promises its callers: `NothingShared` (`FleetKeepsRegistrySafe`) and
  `HistoryKept` (`FleetHistoryKept`: a terminated claim is of an assignment that has succeeded, and no step rebinds an
  id, `BindingsKept`). This is no refinement, since one step of the fleet is several calls of the registry; for the same
  reason `RankDecides`, which is about one call, is not claimed of the fleet.

* **Recovery** (`RecoveryControllerProofs`): `RecoveryTypeOK`, `CarriedOnce`, and of the run `CorridorsApart`,
  `VersionsAgree`, `HoldIsServed` and `LandingIsFinal`, for any fleet, corridors, dependencies and limits. The
  invariant has two halves. `FlightInv` is about vehicles: types, one assignment per vehicle, routes apart, what is planned is
  routed and who carries an assignment has a route, a vehicle that never flew has no plan and no fault, READY is a vehicle
  on the ground, what is retired lands (`RetiredLand`), a vehicle no assignment is on is down or lands as a retired one
  (`UnroutedLand`: a vehicle that is handed work back flies nothing else), and `VersionsAgree`. `LandingIsFinal` speaks of
  the current agent of a vehicle and of a former one; that neither is dropped is a fact about each step (`ApartStep`). `CorridorsApart` follows and is not inductive alone: what is
  checked at a publication are the routes of the table, and that these are the routes flown has to be known.
  `EpisodeInv` is about episodes: `Sound` says of each what its phase and request entail (a running request has the
  digest it was prepared with and its peers theirs; an episode that waits for reassignment is of a vehicle that does
  not fly) and `EventsPast` that no number of a fault to come is finished. Most steps publish nothing (`Quiet`,
  `QuietKeeps`); starts, local and joint commits and handovers have a lemma each.
  `RecoveryStaysLocal` bounds the first disagreement of section 5: in the mode LOCAL_ONLY nothing ever waits for a
  reassignment (`StaysLocal`), so `tick()` always returns, assignments stay with their vehicles and spare vehicles stay
  on the ground.

Only model-checked: all liveness (`AnsweredByDeadline`, `ReviewServed`, `EveryReviewAnswered`, `CancelEnds`, `TaskEnds`,
`MissionEnds`, `FaultSettles`), since fairness is out of the prover's reach. Every safety property that a passing run
checks is proved as well.

## 5. Disagreements of code and documentation

Three runs end in a counterexample; `PROJECT.json` has the quotations.

1. `recovery_tick_raises`: a vehicle that is already shutting down and whose tick raises becomes pending for reassignment,
   and the wait it is then given cancels it a second time (`recovery_controller.py:346`): the exception leaves the
   fleet's `tick()` and ends the loop that would tick its landing. An assignment that was pending when the operator
   cancels has the same effect (`cancel()` does not clear `_pending_reassignments`, `runtime.py:1921`).
   It cannot happen in the mode LOCAL_ONLY (`RecoveryStaysLocal`).
2. `skills_repair_goal`: a repair may put GOTO detours in front of the interrupted step; the first of them is then
   started with the Goal of that step (`manager.py:729`). In front of a GOTO the vehicle flies straight to the old
   goal; in front of a SEARCH the Skill refuses the Goal and the vehicle lands. These are the only cases
   (`SkillManagerGoals`, `SkillManagerRefuses`).
3. `skills_stale_detour`: the bookmark of an inspection detour survives a revision of the plan, and the SEARCH that
   closes it skips whatever step stands at the old index (`manager.py:3220`): a TRACK, if the revision dropped the
   INSPECT, and the task succeeds without it. `SuccessIsEarned` is checked and proved for revisions that keep the
   INSPECT; that the detour is then closed over this INSPECT is proved too (`SkillManagerSkipsInspected`).

Landings are where the fleet's code and its comments part most often. These are behaviours of the models, and the
properties are stated around them:

* A vehicle that already lands on its own account when the operator cancels is recorded as failed at once, since its
  `cancel()` raises, and the fleet may end while it lands (`runtime.py:1940`); "do not terminate the Fleet loop until
  LAND has produced the requested terminal outcome" (`runtime.py:1956-1959`).
* A vehicle cancelled by the failure of another in the same tick, under CANCEL_FLEET, is held on a list made before, and
  its landing is frozen (`runtime.py:1142`), which `_cancel_landing_overrides()` says it prevents
  (`runtime.py:1854-1862`). `OwnLandingNotHeld` is the promise where it does hold.
* An episode that ends for a vehicle whose agent shuts down already marks its record FAILED at once
  (`_exit()`, then `runtime.py:2742-2770`): it is not ticked again, nor is it retired, though
  `docs/fleet_local_repair.md:342-343` has it land.
* A goal may be handed back to a vehicle that still lands: the handler takes for occupied whoever is in the world belief
  (`run_fleet_mission.py:1118-1123`), which lists the current records only (`runtime.py:2917`), and the publication does
  not ask whether a vehicle it routes to is retired (`runtime.py:1535-1600`). The vehicle then has two MissionAgents, the
  new one in `agents` (`runtime.py:1755`) and the one that lands it, and one tick calls both. If the new one is taken out
  of the plan in its turn while the first still lands, its entry replaces that of the first (`runtime.py:1713`), which is
  not ticked again. `GoalsKept` and `LandingIsFinal` say what is true of this: the vehicle is routed under the new agent only,
  and a landing agent of it is always ticked until it has landed, the last one that began.
* Under LOCAL_THEN_REASSIGN a vehicle the operator cancelled and whose landing ends FAILED waits for a reassignment
  that nobody computes any more, and the fleet does not end.

Of repairs: a joint repair entered because a dependency changed (COORDINATION_REQUIRED,
`docs/fleet_remaining_task_contract.md:117`) keeps the context that was found stale and is refused when it is prepared
(`_prepare_joint()` repeats `_check_local_live()`), so only space conflicts are ever repaired jointly; and a handover
of any assignment moves the fleet version, which refuses every local repair under way.

Two limits of the handler are part of the model and of the properties: a handler that lets an assignment fail and
later puts the same vehicle to work again leaves a stale entry in `_local_failsafe_landings` which hides the later
success, and one that answers "the same vehicle" after a cancellation starts it again, since
`register_ready_agent()` does not look at the cancellation. `GoalsReached` is checked with handlers that do not mix
the first two answers, `TerminalKept` excepts the second.

Two more limits are of configurations and mixtures no text of the repository speaks about: with
`model_broker.max_inflight_per_uav` above one a worker that is handed a second call overwrites the first
(`async_worker.py:238`), so the dispatcher is checked as shipped, with one; and a newer event frame replaces a queued
periodic one of its stream, leaving an older event frame ahead of it (`model_request_broker.py:261`).

Three limits of the obstacle loop show where its properties stop:

* In gate mode a hazard found while somebody else holds the vehicle, or while a Skill runs that cannot be interrupted,
  leaves the supervisor BRAKING without a hold of its own (`obstacle_runtime.py:182`); when the other owner resumes,
  or refuses a revision and resumes a hold that is not its own (`plan_revision_coordinator.py:1128-1132`), the
  vehicle flies on, and later hazards only answer KEEP_HOLDING. "Prevent ungrounded reports or unchecked routes from
  resuming flight" (`collision_supervisor.py:44`) is therefore stated, as `FliesNewPlan`, for camera-only mode and for
  the time-out that lands, which all shipped configurations have; with RESUME_PREVIOUS a hold that times out flies
  the blocked step again without telling the supervisor.
* In camera-only mode a hazard between the acceptance of a route and the release of the hold is bound to the old plan.
  The vehicle is released onto the new plan for one frame; the next fresh frame is refused as "active collision
  supervision cannot change routing", which ends the loop and lands the vehicle (`collision_supervisor.py:69`).
* A frame without camera geometry has no route turn. If the hold is released in such a frame and a new hazard comes
  in the next one, the route coordinator is still ACCEPTED when the new hold is grounded, and as the manager is
  paused it is not reset (`obstacle_route_runtime.py:154`): nobody asks for a detour, and the hold ends by its time-out.
  This is the case `HoldIsOwned` leaves to the manager.

## 6. What is not modelled

* Values of poses, routes, images, scores, prompts and documents. Where control depends on them the model chooses.
* In the fleet: the recovery controller's hooks (`RecoveryController` has them), plan versions, perception providers,
  logs and `close()`. Every assignment has a target: one without is never bound, so that the claim history refuses it no
  vehicle. A publication replaces one assignment by another id on another vehicle; the checks accept the same id on the same
  vehicle too, which then does what `Reregister` does, but no handler offers it (the vehicle is occupied by its own record). Two vehicles never claim one target there, since a plan with unique targets is assumed under
  the EXCLUSIVE policy (plan validation enforces it), so claim conflicts are the business of `targets`.
* In the dispatcher: facades bound to an assignment, and `discard_stale_results()`, which nothing in the fleet calls.
* In the manager: programs with graph edges (`runtime/program_executor.py` decides their order), a HOVER
  released without a decision, which only they use, the Skill API of manual flight, and the Skills' own control.
* Around the obstacle hold: what the evidence is (fusion, time to collision, corridors), what a route must satisfy, its
  registration and compilation, the classical coordinator (`agents/classical_obstacle_revision_coordinator.py`), the
  route collision monitor, whose answer is a cancellation (`MissionCanceled`), and of the visual coordinators all but
  their calls of the manager: reviews, scheduler, consensus and revision requests.
* In the recovery controller: what models are told and answer, and what only adds a reason to refuse, to wait or to give up
  (map and reference versions, age and drift of the anchor, stable hold, obstacles, cooldowns, what the claim history refuses of a
  handover: a deadline may always pass instead); the rollback of a joint publication that fails halfway, which its
  docstring calls unreachable (`_rollback_joint_peers()`); airspace holds and
  claims, which `FleetRuntime` has. A handed over assignment keeps its name. `CorridorsApart` is about
  the routes of the current agents: where a vehicle lands whose assignment was handed back to it is only in its pose, which
  `_check_space()` reads and the model has not. `SpatialReferenceValidity` at
  `recovery_controller.py:501`, on the path without an observation, is not imported there: one more refusal.
* In the registry: aliases, confidences and the bounded decision log.
* Components that only transform data, talk to hardware or run offline (`PROJECT.json`, status `not_modelled`).

## 7. Plan

Written, checked and proved: the Broker, the text runner, the visual dispatcher, the registry, the fleet runtime, the
skill manager, the obstacle hold and the recovery controller. The abstract
specifications `VehicleLifecycle` and `RequestLifecycle` are refined by what implements them. What would come next:
ReviewScheduler with the visual coordinator, stale answers over plan versions, in place of the choices `ObstacleHold`
makes for them.

The set of runs is kept small on purpose: a new module's run takes the place of one whose question a stronger run
answers.
