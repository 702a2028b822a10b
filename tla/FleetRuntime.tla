---------------------------- MODULE FleetRuntime ----------------------------
(***************************************************************************)
(* FleetMissionRuntime (fleet/runtime.py) with a replan handler: it starts *)
(* one MissionAgent for each planned assignment and then, tick after tick, *)
(* starts repaired assignments, asks the airspace who must hold, ticks the *)
(* agents one after the other, and turns what they report into the states  *)
(* of the assignments, of their claims in the SharedTargetRegistry, and of *)
(* the fleet.  A failing assignment is reported, replanned, or cancels the *)
(* fleet; a vehicle taken out of service must land first.                  *)
(*                                                                         *)
(* One call of tick() is many steps here, one for each vehicle it visits,  *)
(* since what happens to one vehicle decides how the later ones are        *)
(* treated.  A MissionAgent is reduced to the states the runtime can tell  *)
(* apart by ticking and cancelling it:                                     *)
(*   RUNNING   flies its mission                                           *)
(*   LANDING   lands since a skill failed; cancel() is still accepted      *)
(*   SHUTDOWN  lands since the agent shut down; cancel() raises            *)
(* All three report RUNNING.  Routes, poses, plan versions and the         *)
(* provider of observations are left out; every assignment has a target.   *)
(***************************************************************************)
EXTENDS SharedTargetRegistry

CONSTANTS
  InitialPlan,     \* for each id the binding the planner gives it, or Unbound
  Required,        \* targets the mission requires
  Policies,        \* failure policies a plan may have
  Handlers         \* for each replan handler the answers it may give; {} is no handler

ASSUME FleetAssumption ==
  /\ InitialPlan \in [Assignments -> Bindings \cup {Unbound}]
  /\ IsFiniteSet({a \in Assignments : InitialPlan[a] # Unbound})
  /\ \A a, b \in Assignments :
       (a # b /\ InitialPlan[a] # Unbound /\ InitialPlan[b] # Unbound) =>
         /\ InitialPlan[a].uav # InitialPlan[b].uav
         /\ Exclusive => InitialPlan[a].target # InitialPlan[b].target
  /\ Required \subseteq Targets
  /\ Policies \subseteq {"REPORT_AND_REPLAN", "REPORT_ONLY", "CANCEL_FLEET"}
  /\ Handlers \subseteq SUBSET {"later", "fails", "same", "handoff"}

VARIABLES
  policy,           \* assignment_failure_policy of the plan
  replies,          \* answers of the _replan_handler
  fleet,            \* _status
  plan,             \* _plan: binding of each routed id, else Unbound
  record,           \* status of the record of each id; READY stands for DEGRADED_EXECUTABLE too
  agent,            \* state of the MissionAgent of each vehicle, or "none"
  retired,          \* vehicles of _retired_failsafe_agents
  former,           \* the retired agent of a vehicle that has been given a new one, or "none"
  landings,         \* _local_failsafe_landings
  ready,            \* _pending_ready_assignments
  reassign,         \* _pending_reassignments
  cancelRequested,  \* _cancel_requested
  pc,               \* where the runtime is: outside of a call, or in which loop of it
  todo,             \* ids or vehicles the loop has still to visit
  held,             \* vehicles the airspace holds in this tick
  observed          \* this tick has observations

missionVars == <<fleet, plan, record, agent, retired, former, landings, ready, reassign,
                 cancelRequested, live>>
loopVars == <<pc, todo, held, observed>>
\* The staged copy lives only inside of one publication, which is one step.
fixedVars == <<policy, replies, staged>>
fleetVars == <<missionVars, loopVars, fixedVars>>

FleetTerminal == {"SUCCEEDED", "PARTIAL_SUCCESS", "FAILED", "FAILED_NO_EXECUTABLE_PLAN", "CANCELED"}
Terminal == {"SUCCEEDED", "FAILED", "CANCELED", "REASSIGNMENT_REQUIRED"}
Startable == {"PENDING", "READY"}
\* HOLDING for the airspace ends with the conflict, CLAIM_HOLD (HOLDING with
\* another last_error) does not.
RecordStates == Terminal \cup Startable \cup
  {"none", "RUNNING", "HOLDING", "CLAIM_HOLD", "CANCELING", "WAITING_REASSIGNMENT"}

Airborne == {"RUNNING", "LANDING", "SHUTDOWN"}
AgentTerminal == {"SUCCEEDED", "FAILED", "CANCELED"}
AgentStates == Airborne \cup AgentTerminal \cup {"none", "IDLE"}

Routed == {a \in Assignments : record[a] # "none"}
RouteOn(u) == {a \in Routed : plan[a].uav = u}
FirstOf(S) == CHOOSE x \in S : \A y \in S : x <= y

(***************************************************************************)
(* MissionAgent                                                            *)
(***************************************************************************)

\* States an agent may be in after a tick that returns.
TickResults(s) ==
  CASE s = "RUNNING"  -> {"RUNNING", "LANDING", "SHUTDOWN", "SUCCEEDED", "FAILED"}
    [] s = "LANDING"  -> {"LANDING", "SHUTDOWN", "FAILED"}
    [] s = "SHUTDOWN" -> {"SHUTDOWN", "CANCELED", "FAILED"}
    [] OTHER          -> {}

\* What cancel() may come to: the state it leaves, or "raised".
CancelResults(s) ==
  CASE s = "RUNNING" -> {"SHUTDOWN", "FAILED"}
    [] s = "LANDING" -> {"SHUTDOWN"}
    [] OTHER         -> {"raised"}

AfterCancel(s, result) == IF result = "raised" THEN s ELSE result

\* States a start() that raises may leave.
FailedStarts == {"IDLE", "FAILED", "SHUTDOWN"}

(***************************************************************************)
(* Claims                                                                  *)
(***************************************************************************)

\* _release_target_claim(), for each id of S; a refusal is swallowed.
Released(R, S) ==
  [R EXCEPT !.claims = [a \in Assignments |->
     IF a \in S /\ Settleable(R, a) THEN Settled(R, a, "RELEASED", 0).claims[a] ELSE R.claims[a]]]

\* terminate(): the goal is reached.
Terminated(R, a) == IF Settleable(R, a) THEN Settled(R, a, "TERMINATED", 0) ELSE R

(***************************************************************************)
(* _aggregate_status()                                                     *)
(***************************************************************************)

Open(rec, out) == out # {} \/ \E a \in Assignments : rec[a] \notin Terminal \cup {"none"}

\* Fault: any goal will do.
ReachedAny(ids, won, pl) == won # {}
Reached(ids, won, pl) ==
  LET required == {a \in ids : pl[a].target \in Required}
  IN  won = ids \/ (required # {} /\ required \subseteq won)

\* The fleet runs while a vehicle lands out of the plan or an assignment is
\* open; then the cancellation, the required goals, or any success decides.
Aggregate(rec, pl, out, canceled) ==
  LET ids == {a \in Assignments : rec[a] # "none"}
      won == {a \in ids : rec[a] = "SUCCEEDED"}
      lost == {a \in ids : rec[a] \in {"FAILED", "REASSIGNMENT_REQUIRED"}}
  IN  IF Open(rec, out) THEN "RUNNING"
      ELSE IF canceled /\ lost = {} THEN "CANCELED"
      ELSE IF ~canceled /\ Reached(ids, won, pl) THEN "SUCCEEDED"
      ELSE IF won # {} THEN "PARTIAL_SUCCESS"
      ELSE "FAILED"

(***************************************************************************)
(* cancel() of the agents of a set of assignments                          *)
(***************************************************************************)

CancelOutcomes(S, ag) ==
  {f \in [S -> {"SHUTDOWN", "FAILED", "raised"}] :
     \A a \in S : f[a] \in CancelResults(ag[plan[a].uav])}

AgentsAfter(f, ag) ==
  [u \in Uavs |-> IF RouteOn(u) \cap DOMAIN f = {} THEN ag[u]
                  ELSE AfterCancel(ag[u], f[FirstOf(RouteOn(u))])]

\* Fault: claims of ended assignments are kept.
EndedNone(f) == {}

\* An agent that lands keeps its assignment open, any other outcome ends it.
RecordAfter(result) == IF result = "SHUTDOWN" THEN "CANCELING" ELSE "FAILED"
Ended(f) == {a \in DOMAIN f : f[a] # "SHUTDOWN"}

(***************************************************************************)
(* _mark_local_failure(): the assignment a has failed, its agent and the   *)
(* others are in the states ag.                                            *)
(***************************************************************************)

\* Reported and replanned: the claim is given back, the handler will be asked.
AwaitReplan(a, ag) ==
  /\ policy = "REPORT_AND_REPLAN" /\ replies # {}
  /\ record' = [record EXCEPT ![a] = "WAITING_REASSIGNMENT"]
  /\ live' = Released(live, {a})
  /\ reassign' = reassign \cup {a}
  /\ agent' = ag
  /\ UNCHANGED <<landings, cancelRequested>>

\* _begin_local_failsafe_landing(): only the vehicle of a is taken down.
BeginLanding(a, ag) ==
  \E f \in CancelOutcomes({a}, ag) :
    /\ agent' = AgentsAfter(f, ag)
    /\ record' = [record EXCEPT ![a] = RecordAfter(f[a])]
    /\ landings' = (landings \cup {a}) \ Ended(f)
    /\ reassign' = reassign \ {a}
    /\ UNCHANGED cancelRequested

\* Without a handler REASSIGNMENT_REQUIRED is left at once for the landing.
LandUnreplaced(a, ag) ==
  /\ policy = "REPORT_AND_REPLAN" /\ replies = {}
  /\ live' = Released(live, {a})
  /\ BeginLanding(a, ag)

\* Under CANCEL_FLEET the failure of one assignment cancels the others.
CancelOthers(a) ==
  IF policy = "CANCEL_FLEET" THEN {b \in Routed \ {a} : record[b] \notin Terminal} ELSE {}

GiveUp(a, ag) ==
  /\ policy # "REPORT_AND_REPLAN"
  /\ LET unstarted == {b \in CancelOthers(a) : record[b] = "PENDING"}
     IN  \E f \in CancelOutcomes(CancelOthers(a) \ unstarted, ag) :
           /\ agent' = AgentsAfter(f, ag)
           /\ record' = [b \in Assignments |->
                CASE b = a            -> "FAILED"
                  [] b \in unstarted  -> "CANCELED"
                  [] b \in DOMAIN f   -> RecordAfter(f[b])
                  [] OTHER            -> record[b]]
           /\ live' = Released(live, {a} \cup unstarted \cup Ended(f))
  /\ cancelRequested' = (cancelRequested \/ policy = "CANCEL_FLEET")
  /\ UNCHANGED <<landings, reassign>>

FailLocally(a, ag) == AwaitReplan(a, ag) \/ LandUnreplaced(a, ag) \/ GiveUp(a, ag)

(***************************************************************************)
(* start()                                                                 *)
(***************************************************************************)

FleetInit ==
  /\ RegistryInit
  /\ policy \in Policies /\ replies \in Handlers
  /\ policy # "REPORT_AND_REPLAN" => replies = {}  \* the handler is not asked then
  /\ fleet = "IDLE"
  /\ plan = [a \in Assignments |-> Unbound]
  /\ record = [a \in Assignments |-> "none"]
  /\ agent = [u \in Uavs |-> "none"]
  /\ former = [u \in Uavs |-> "none"]
  /\ retired = {} /\ landings = {} /\ ready = {} /\ reassign = {}
  /\ cancelRequested = FALSE
  /\ pc = "idle" /\ todo = {} /\ held = {} /\ observed = FALSE

\* Planning, validation or the environment raises.
StartFails ==
  /\ fleet = "IDLE"
  /\ fleet' = "FAILED"
  /\ UNCHANGED <<plan, record, agent, retired, former, landings, ready, reassign, cancelRequested,
                 live, fixedVars, loopVars>>

\* A planned vehicle without an agent is declared REASSIGNMENT_REQUIRED; the
\* others get a provisional claim.  With no vehicle to start it ends here.
Start ==
  LET planned == {a \in Assignments : InitialPlan[a] # Unbound}
  IN
  /\ fleet = "IDLE"
  /\ \E declared \in [planned -> {"PENDING", "READY", "REASSIGNMENT_REQUIRED"}] :
       LET startable == {a \in planned : declared[a] \in Startable}
       IN  /\ record' = [a \in Assignments |-> IF a \in planned THEN declared[a] ELSE "none"]
           /\ agent' = [u \in Uavs |->
                IF \E a \in startable : InitialPlan[a].uav = u THEN "IDLE" ELSE "none"]
           /\ live' = [binding |-> [a \in Assignments |->
                                      IF a \in startable THEN InitialPlan[a] ELSE Unbound],
                       claims |-> [a \in Assignments |->
                          [state |-> IF a \in startable THEN "PROVISIONAL" ELSE "UNCLAIMED", at |-> 0]]]
           /\ todo' = {InitialPlan[a].uav : a \in startable}
           /\ fleet' = IF startable = {} THEN "FAILED_NO_EXECUTABLE_PLAN" ELSE "PLANNING"
           /\ pc' = IF startable = {} THEN "idle" ELSE "starting"
  /\ plan' = InitialPlan
  /\ UNCHANGED <<fixedVars, retired, former, landings, ready, reassign, cancelRequested, held, observed>>

\* An earlier start that failed may have cancelled this one.
MayStart(a) == record[a] \in Startable

\* An agent starts, or its start raises.
LaunchAgent(a) ==
  LET u == plan[a].uav IN
  \/ /\ record' = [record EXCEPT ![a] = "RUNNING"]
     /\ agent' = [agent EXCEPT ![u] = "RUNNING"]
     /\ fleet' = "RUNNING"
     /\ UNCHANGED <<live, landings, reassign, cancelRequested>>
  \/ /\ \E s \in FailedStarts : FailLocally(a, [agent EXCEPT ![u] = s])
     /\ UNCHANGED fleet

\* The fleet will run if any agent was started, whatever became of it since:
\* the count of started agents is kept as fleet = "RUNNING".
StartAgent ==
  /\ pc = "starting" /\ todo # {}
  /\ todo' = todo \ {FirstOf(todo)}
  /\ LET a == FirstOf(RouteOn(FirstOf(todo)))
     IN  IF MayStart(a) THEN LaunchAgent(a)
         ELSE UNCHANGED <<fleet, record, agent, live, landings, reassign, cancelRequested>>
  /\ UNCHANGED <<plan, retired, former, ready, fixedVars, pc, held, observed>>

StartEnds ==
  /\ pc = "starting" /\ todo = {}
  /\ fleet' = IF fleet = "RUNNING" THEN "RUNNING" ELSE "FAILED"
  /\ pc' = "idle"
  /\ UNCHANGED <<plan, record, agent, retired, former, landings, ready, reassign, cancelRequested,
                 live, fixedVars, todo, held, observed>>

(***************************************************************************)
(* cancel(), by the operator, between two calls of tick()                  *)
(***************************************************************************)

\* The callers ask once, but do not see that the failure policy has asked.
UserCancel ==
  /\ pc = "idle" /\ fleet = "RUNNING"
  /\ cancelRequested => policy = "CANCEL_FLEET"
  /\ cancelRequested' = TRUE
  /\ \E f \in CancelOutcomes({a \in Routed : record[a] \notin Terminal}, agent) :
       /\ agent' = AgentsAfter(f, agent)
       /\ record' = [a \in Assignments |-> IF a \in DOMAIN f THEN RecordAfter(f[a]) ELSE record[a]]
       /\ live' = Released(live, Ended(f))
  /\ fleet' = Aggregate(record', plan, retired, TRUE)
  /\ UNCHANGED <<plan, retired, former, landings, ready, reassign, fixedVars, loopVars>>

(***************************************************************************)
(* tick(): pending starts, airspace, retired vehicles, agents, replans     *)
(***************************************************************************)

TickBegin ==
  /\ pc = "idle" /\ fleet = "RUNNING"
  /\ pc' = "ready" /\ todo' = ready
  /\ UNCHANGED <<missionVars, fixedVars, held, observed>>

MayLaunch(a) == record[a] = "READY"

StartReady ==
  /\ pc = "ready" /\ todo # {}
  /\ todo' = todo \ {FirstOf(todo)}
  /\ LET a == FirstOf(todo)
     IN  /\ ready' = ready \ {a}
         /\ IF MayLaunch(a) THEN LaunchAgent(a)
            ELSE UNCHANGED <<fleet, record, agent, live, landings, reassign, cancelRequested>>
  /\ UNCHANGED <<plan, retired, former, fixedVars, pc, held, observed>>

\* Faults: landings are not exempt; or only those of a cancelled fleet are.
NoOverrides == {}
CancelOverrides == {u \in Uavs : cancelRequested /\ \E a \in RouteOn(u) : record[a] = "CANCELING"}
\* A hold does not keep a vehicle from landing.
Overrides ==
  retired \cup {u \in Uavs : \E a \in RouteOn(u) :
                  record[a] = "CANCELING" /\ (cancelRequested \/ a \in landings)}

\* Fault: finished assignments are visited.
VisitedFinished(a) == record[a] # "WAITING_REASSIGNMENT"
\* An assignment that is finished, waits for the fleet, or lost its claim is
\* not ticked.
Visited(a) == record[a] \notin Terminal \cup {"WAITING_REASSIGNMENT"}

\* Vehicles a hold makes a difference to in this tick.
Ticked == retired \cup {u \in Uavs : agent[u] # "none" /\ \E a \in RouteOn(u) : Visited(a)}

\* The environment advances and the airspace names the vehicles to hold; the
\* vehicle of the highest priority is never among them.
Advance(obs, hold) ==
  /\ pc = "ready" /\ todo = {}
  /\ hold = {} \/ \E u \in Uavs \ hold : agent[u] # "none"
  /\ held' = hold \ Overrides
  /\ observed' = obs
  /\ pc' = "retired" /\ todo' = IF obs THEN retired ELSE {}
  /\ UNCHANGED <<missionVars, fixedVars>>

\* The agent that was retired is ticked, also when its vehicle has a new one.  A
\* tick that raises leaves it where it is, to be ticked again.
TickRetired ==
  /\ pc = "retired" /\ todo # {}
  /\ todo' = todo \ {FirstOf(todo)}
  /\ LET u == FirstOf(todo)
         left(s) == IF s \in AgentTerminal THEN retired \ {u} ELSE retired
     IN  \/ UNCHANGED <<agent, former, retired>>
         \/ /\ u \notin held /\ former[u] = "none"
            /\ \E s \in TickResults(agent[u]) :
                 agent' = [agent EXCEPT ![u] = s] /\ retired' = left(s) /\ UNCHANGED former
         \/ /\ u \notin held /\ former[u] # "none"
            /\ \E s \in TickResults(former[u]) :
                 /\ former' = [former EXCEPT ![u] = IF s \in AgentTerminal THEN "none" ELSE s]
                 /\ retired' = left(s) /\ UNCHANGED agent
  /\ UNCHANGED <<fleet, plan, record, landings, ready, reassign, cancelRequested, live, fixedVars,
                 pc, held, observed>>

RetiredEnd ==
  /\ pc = "retired" /\ todo = {}
  /\ pc' = "agents" /\ todo' = {u \in Uavs : agent[u] # "none"}
  /\ UNCHANGED <<missionVars, fixedVars, held, observed>>

(***************************************************************************)
(* The visit of the agent of vehicle u                                     *)
(***************************************************************************)

\* _adopt_agent_snapshot() for a vehicle that is being brought down.
AdoptLanding(a, ag) ==
  LET over == ag[plan[a].uav] \in AgentTerminal
  IN  /\ agent' = ag
      /\ record' = [record EXCEPT ![a] = IF over THEN "FAILED" ELSE "CANCELING"]
      /\ landings' = IF over THEN landings \ {a} ELSE landings
      /\ live' = IF over THEN Released(live, {a}) ELSE live
      /\ UNCHANGED <<reassign, cancelRequested>>

\* _adopt_agent_snapshot() otherwise; R is the registry after the claim.
Adopt(a, ag, R) ==
  LET s == ag[plan[a].uav]
  IN  IF s = "FAILED" \/ (s = "CANCELED" /\ ~cancelRequested) THEN FailLocally(a, ag)
      ELSE /\ agent' = ag
           /\ record' = [record EXCEPT ![a] =
                           IF s \in AgentTerminal THEN s
                           ELSE IF cancelRequested THEN "CANCELING" ELSE "RUNNING"]
           /\ live' = CASE s = "SUCCEEDED" -> Terminated(R, a)
                        [] s = "CANCELED"  -> Released(R, {a})
                        [] OTHER           -> R
           /\ UNCHANGED <<landings, reassign, cancelRequested>>

\* _synchronize_target_claim(): a vehicle that has locked a foreign target is
\* held for good, and so is the loser of a conflict about its own.
HoldForClaim(a, ag) ==
  /\ agent' = ag
  /\ record' = [record EXCEPT ![a] = "CLAIM_HOLD"]
  /\ UNCHANGED <<live, landings, reassign, cancelRequested>>

AdoptLocked(a, ag) ==
  LET R == Claimed(live, a, LockState, 0)
      displaced == {b \in Routed : Active(live, b) /\ ~Active(R, b) /\ record[b] \notin Terminal}
      losers == displaced \cup (IF Holder(R, a) THEN {} ELSE {a})
  IN  IF losers = {} THEN Adopt(a, ag, R)
      ELSE /\ agent' = ag
           /\ live' = R
           /\ record' = [b \in Assignments |-> IF b \in losers THEN "CLAIM_HOLD"
                          ELSE IF b # a THEN record[b]
                          ELSE IF cancelRequested THEN "CANCELING" ELSE "RUNNING"]
           /\ UNCHANGED <<landings, reassign, cancelRequested>>

\* Only an agent on its mission has a target; landing terminates it.
TickAgent(a) ==
  LET u == plan[a].uav IN
  \/ FailLocally(a, agent)                                       \* the tick raises
  \/ \E s \in TickResults(agent[u]) :
       LET ag == [agent EXCEPT ![u] = s] IN
       IF a \in landings THEN AdoptLanding(a, ag)
       ELSE \/ Adopt(a, ag, live)
            \/ s = "RUNNING" /\ HoldForClaim(a, ag)
            \/ s = "RUNNING" /\ AdoptLocked(a, ag)

Frozen(a) == ~observed \/ record[a] = "CLAIM_HOLD"

VisitAgent ==
  /\ pc = "agents" /\ todo # {}
  /\ todo' = todo \ {FirstOf(todo)}
  /\ LET u == FirstOf(todo)
         visits == {a \in RouteOn(u) : Visited(a)}
         calm == UNCHANGED <<agent, live, landings, reassign, cancelRequested>>
     IN  IF visits = {} THEN calm /\ UNCHANGED record
         ELSE LET a == FirstOf(visits) IN
              IF u \in held
              THEN calm /\ record' = [record EXCEPT ![a] = IF @ = "CLAIM_HOLD" THEN @ ELSE "HOLDING"]
              ELSE IF Frozen(a) THEN calm /\ UNCHANGED record
              ELSE TickAgent(a)
  /\ UNCHANGED <<fleet, plan, retired, former, ready, fixedVars, pc, held, observed>>

AgentsEnd ==
  /\ pc = "agents" /\ todo = {}
  /\ pc' = "replan" /\ todo' = IF replies = {} THEN {} ELSE reassign
  /\ UNCHANGED <<missionVars, fixedVars, held, observed>>

(***************************************************************************)
(* _service_pending_reassignments(): the handler is asked about a          *)
(***************************************************************************)

\* register_ready_agent(): the same vehicle tries again with a new agent.
Reregister(a) ==
  /\ agent' = [agent EXCEPT ![plan[a].uav] = "IDLE"]
  /\ live' = AfterBind(live, a, plan[a], "PROVISIONAL", 0)
  /\ record' = [record EXCEPT ![a] = "READY"]
  /\ ready' = ready \cup {a}
  /\ reassign' = reassign \ {a}
  /\ UNCHANGED <<plan, retired, former, landings, cancelRequested>>

\* Faults: the vehicle flies on; the goal is routed twice.
SourceFliesOn(s) == {s}
ReroutedTwice(f, a, none, b, x) == [f EXCEPT ![b] = x]

\* The vehicle handing over is cancelled, unless it has ended.
SourceAfter(s) == IF s \in AgentTerminal THEN {s} ELSE CancelResults(s)
Rerouted(f, a, none, b, x) == [f EXCEPT ![a] = none, ![b] = x]

\* The ids and vehicles the checks of a publication accept for the goal of a:
\* an id out of the plan that was never bound to anything else, on a vehicle out
\* of the plan that was never bound to another id.  A vehicle may get back the id
\* it had, and is not asked whether it still lands.
Admissible(a, b, v) ==
  /\ record[b] = "none" /\ RouteOn(v) = {}
  /\ Bound(live, b) => live.binding[b] = [plan[a] EXCEPT !.uav = v]
  /\ \A c \in Assignments : (Bound(live, c) /\ live.binding[c].uav = v) => c = b

\* _publish_fleet_replan(): b on v takes over the target of a.  The vehicle of a
\* is retired if it lands, its older entry overwritten.  A vehicle v that lands
\* out of the plan gets a new agent, while the retired one stays the old one.
HandOver(a, b, v) ==
  LET u == plan[a].uav
      bind == [plan[a] EXCEPT !.uav = v]
      kept == IF v \in retired /\ former[v] = "none"
              THEN [former EXCEPT ![v] = agent[v]] ELSE former
  IN
  /\ ~cancelRequested /\ "raised" \notin SourceAfter(agent[u])
  /\ \E s \in SourceAfter(agent[u]) :
       /\ agent' = [agent EXCEPT ![u] = s, ![v] = "IDLE"]
       /\ retired' = IF s \in AgentTerminal THEN retired ELSE retired \cup {u}
       /\ former' = IF s \in AgentTerminal THEN kept ELSE [kept EXCEPT ![u] = "none"]
  /\ plan' = Rerouted(plan, a, Unbound, b, bind)
  /\ record' = Rerouted(record, a, "none", b, "READY")
  /\ live' = AfterBind(live, b, bind, "PROVISIONAL", 0)
  /\ ready' = ready \cup {b}
  /\ reassign' = reassign \ {a}
  /\ UNCHANGED <<landings, cancelRequested>>

\* The publication is refused after the candidate was made.
HandOverRefused(a) ==
  cancelRequested \/ "raised" \in SourceAfter(agent[plan[a].uav])

ReplanFails(a) ==
  /\ "fails" \in replies \/ ("handoff" \in replies /\ HandOverRefused(a))
  /\ BeginLanding(a, agent)
  /\ UNCHANGED <<plan, live, retired, former, ready>>

\* Fault: a request is taken off the list whatever the answer.
ReplanLaterDropped(a) ==
  /\ "later" \in replies
  /\ reassign' = reassign \ {a}
  /\ UNCHANGED <<plan, record, agent, live, retired, former, landings, ready, cancelRequested>>

ReplanLater(a) ==
  /\ "later" \in replies
  /\ UNCHANGED <<plan, record, agent, live, retired, former, landings, ready, reassign, cancelRequested>>

Replanned(a) ==
  \/ "same" \in replies /\ Reregister(a)
  \/ "handoff" \in replies /\ \E b \in Assignments, v \in Uavs :
                                Admissible(a, b, v) /\ HandOver(a, b, v)
  \/ ReplanFails(a)

\* A request whose assignment does not wait any more is dropped.
Replan ==
  /\ pc = "replan" /\ todo # {}
  /\ todo' = todo \ {FirstOf(todo)}
  /\ LET a == FirstOf(todo)
     IN  IF record[a] = "WAITING_REASSIGNMENT" THEN ReplanLater(a) \/ Replanned(a)
         ELSE /\ reassign' = reassign \ {a}
              /\ UNCHANGED <<plan, record, agent, live, retired, former, landings, ready, cancelRequested>>
  /\ UNCHANGED <<fleet, fixedVars, pc, held, observed>>

TickEnd ==
  /\ pc = "replan" /\ todo = {}
  /\ fleet' = Aggregate(record, plan, retired, cancelRequested)
  /\ pc' = "idle" /\ held' = {} /\ observed' = FALSE
  /\ UNCHANGED <<plan, record, agent, retired, former, landings, ready, reassign, cancelRequested,
                 live, fixedVars, todo>>

\* tick() and cancel() raise once the fleet is not running.
Stopped == fleet \in FleetTerminal /\ pc = "idle" /\ UNCHANGED fleetVars

TickStep ==
  \/ TickBegin \/ StartReady
  \/ \E obs \in BOOLEAN, hold \in SUBSET Ticked : Advance(obs, hold)
  \/ TickRetired \/ RetiredEnd
  \/ VisitAgent \/ AgentsEnd
  \/ Replan \/ TickEnd

FleetNext == StartFails \/ Start \/ StartAgent \/ StartEnds \/ UserCancel \/ TickStep \/ Stopped

FleetSpec == FleetInit /\ [][FleetNext]_fleetVars

(***************************************************************************)
(* Fairness: the runtime is called again and its loops go on; the          *)
(* environment keeps delivering observations, a landing that is ticked     *)
(* again and again comes to its end, and the handler does not put off for  *)
(* ever.  The airspace may hold any vehicle for ever.                      *)
(***************************************************************************)

Observe == \E hold \in SUBSET Ticked : Advance(TRUE, hold)
LandingEnds(u) ==
  /\ todo # {} /\ FirstOf(todo) = u
  /\ \/ TickRetired /\ u \notin retired'
     \/ VisitAgent /\ agent[u] = "SHUTDOWN" /\ agent'[u] \in AgentTerminal
HandlerAnswers(a) == todo # {} /\ FirstOf(todo) = a /\ Replan /\ record' # record

FleetFairSpec ==
  /\ FleetSpec
  /\ WF_fleetVars(StartAgent \/ StartEnds \/ TickStep)
  /\ SF_fleetVars(Observe)
  /\ SF_fleetVars(\E u \in Uavs : LandingEnds(u))
  /\ SF_fleetVars(\E a \in Assignments : HandlerAnswers(a))

(***************************************************************************)
(* Properties                                                              *)
(***************************************************************************)

FleetTypeOK ==
  /\ RegistryTypeOK
  /\ policy \in Policies /\ replies \in Handlers
  /\ fleet \in FleetTerminal \cup {"IDLE", "PLANNING", "RUNNING"}
  /\ plan \in [Assignments -> Bindings \cup {Unbound}]
  /\ record \in [Assignments -> RecordStates]
  /\ agent \in [Uavs -> AgentStates] /\ former \in [Uavs -> AgentStates]
  /\ retired \subseteq Uavs /\ held \subseteq Uavs
  /\ landings \subseteq Assignments /\ ready \subseteq Assignments /\ reassign \subseteq Assignments
  /\ cancelRequested \in BOOLEAN /\ observed \in BOOLEAN
  /\ pc \in {"idle", "starting", "ready", "retired", "agents", "replan"}
  /\ todo \subseteq Uavs \cup Assignments

\* Nothing that waits is forgotten: between any two steps a failed assignment that
\* waits for its replan is on the list the handler is asked about, and one that has
\* still to start is on the list of the start in progress or of the next tick.
\* Its record keeps the fleet running, so that off its list the fleet never ends.
NoneForgotten ==
  \A a \in Assignments :
    /\ record[a] = "WAITING_REASSIGNMENT" => a \in reassign
    /\ record[a] \in Startable =>
         IF pc = "starting" THEN plan[a].uav \in todo ELSE record[a] = "READY" /\ a \in ready

\* A fleet that reports CANCELED, or SUCCEEDED with every goal reached, has
\* every vehicle down, those taken out of the plan included.
CanceledMeansDown ==
  (fleet = "CANCELED" \/ (fleet = "SUCCEEDED" /\ \A a \in Routed : record[a] = "SUCCEEDED")) =>
    \A u \in Uavs : agent[u] \notin Airborne /\ former[u] \notin Airborne

\* Whoever has an active claim is routed to that target on that vehicle by the
\* current plan, and its assignment is still open or about to be: no failure,
\* cancellation or handover leaves a claim behind.
ClaimsRouted ==
  \A a \in Assignments : Active(live, a) =>
    /\ plan[a] = live.binding[a]
    /\ record[a] \in Startable \cup {"RUNNING", "HOLDING", "CLAIM_HOLD", "CANCELING"}

\* An assignment has succeeded exactly if its claim is terminated; the success
\* of a vehicle on its route is counted, also on a second try; and the fleet
\* reports SUCCEEDED only with every required target reached.
GoalsReached ==
  /\ \A a \in Assignments : record[a] = "SUCCEEDED" <=> live.claims[a].state = "TERMINATED"
  /\ pc = "idle" => \A a \in Routed : agent[plan[a].uav] = "SUCCEEDED" => record[a] = "SUCCEEDED"
  /\ fleet = "SUCCEEDED" => \A x \in Required :
       (\E a \in Assignments : InitialPlan[a] # Unbound /\ InitialPlan[a].target = x) =>
         \E a \in Routed : plan[a].target = x /\ live.claims[a].state = "TERMINATED"

\* However often assignments are handed over, every goal of the initial plan is
\* routed by as many assignments as in the beginning, on different vehicles,
\* and a vehicle taken out of the plan in the air keeps an agent that lands it. It is
\* routed only if it was handed an assignment back, and then under another agent.
GoalsKept ==
  Routed # {} =>
    /\ \A x \in Targets : Cardinality({a \in Routed : plan[a].target = x}) =
         Cardinality({a \in Assignments : InitialPlan[a] # Unbound /\ InitialPlan[a].target = x})
    /\ \A a, b \in Routed : plan[a].uav = plan[b].uav => a = b
    /\ \A u \in retired : \/ RouteOn(u) = {} /\ agent[u] = "SHUTDOWN" /\ former[u] = "none"
                         \/ former[u] = "SHUTDOWN"

\* When a failure is to be replanned or the vehicle landed, no vehicle goes on
\* flying its mission without an open assignment between two ticks of the fleet.
MissionServed ==
  (policy = "REPORT_AND_REPLAN" /\ pc = "idle") =>
    \A u \in Uavs : agent[u] = "RUNNING" =>
      \E a \in RouteOn(u) : record[a] \notin Terminal

\* No vehicle is in the air on its own account.
NoStrayFlight == CanceledMeansDown /\ MissionServed

\* What is over stays over: a finished assignment is never reopened, whatever
\* fails or is cancelled, and once the fleet is cancelled no agent is started,
\* unless the handler answers the failure of a cancelled vehicle by a second try.
TerminalKept ==
  [][/\ \A a \in Assignments : record[a] \in Terminal => record'[a] = record[a]
     /\ cancelRequested /\ "same" \notin replies =>
          \A u \in Uavs : agent'[u] = "RUNNING" => agent[u] = "RUNNING"]_fleetVars

\* A vehicle that is being brought down is not held any more, where a failure does
\* not cancel the other vehicles and the handler does not put a cancelled one to work
\* again: "Skipping every subsequent Agent tick because the same UAV is held by
\* airspace arbitration freezes LAND forever".
OwnLandingNotHeld ==
  [][(policy # "CANCEL_FLEET" /\ "same" \notin replies) =>
       \A a \in Assignments :
         record[a] = "CANCELING" => record'[a] \notin {"HOLDING", "CLAIM_HOLD"}]_fleetVars

\* A cancelled fleet comes to an end, even if the airspace holds its vehicles
\* for ever, with the same two exceptions.
CancelEnds ==
  (cancelRequested /\ policy # "CANCEL_FLEET" /\ "same" \notin replies) ~> fleet \in FleetTerminal
=============================================================================
