------------------------- MODULE RecoveryController -------------------------
(***************************************************************************)
(* FleetRecoveryController (fleet/recovery_controller.py) at work inside   *)
(* the ticks of FleetMissionRuntime: a vehicle whose skill fails waits in  *)
(* a protected HOVER, a model is asked for another suffix of its plan, for *)
(* suffixes of the plans of several vehicles, or for another vehicle, and  *)
(* what it answers many ticks later is published only if nothing it rests  *)
(* on has changed; otherwise the vehicle lands.                            *)
(*                                                                         *)
(* A tick visits the agents, services pending reassignments, then ticks    *)
(* the episodes and pumps the requests.  Here each visit, service, episode *)
(* and request is a step of its own; their order is left open, except that *)
(* what is pending is serviced before the tick goes on.  A request to a    *)
(* model is what TextTaskRunner makes of it, queued, running or gone.      *)
(*                                                                         *)
(* Left out: what a model is told and answers, and everything whose only   *)
(* effect is one more reason to refuse an answer, to wait or to give up    *)
(* (map and reference versions, the anchor's age and drift, stable_hold,   *)
(* obstacles, live poses, the history of claims, cooldowns; a deadline may *)
(* always pass); HOLDING by the airspace and target claims, which          *)
(* FleetRuntime has.  A route is the corridor it occupies.  A handed over  *)
(* assignment keeps its name, where the code makes a new one.  The states  *)
(* of a MissionAgent:                                                      *)
(*   FLYING    on its plan                                                 *)
(*   HOVERING  in the protected HOVER of a fault event                     *)
(*   LANDING   lands since a skill failed; cancel() is still accepted      *)
(*   SHUTDOWN  lands since the agent shut down; cancel() raises            *)
(*   DOWN      ended, as SUCCEEDED, FAILED or CANCELED                     *)
(***************************************************************************)
EXTENDS Integers, FiniteSets

CONSTANTS
  Uavs,
  Assignments,
  FirstHolder,        \* vehicle each assignment is planned for
  Corridors,
  FirstRoute,         \* corridor planned for each of those vehicles
  Related,            \* for each assignment those its dependencies name
  Modes,              \* values of config.mode
  MaxLocalAttempts,   \* config.max_local_attempts
  MaxReassignAttempts,\* config.max_reassign_attempts
  MaxScope,           \* config.max_joint_repair_scope_uavs
  MaxFaults,          \* bound: recoverable faults of each vehicle
  MaxHandOvers        \* bound: last fleet version an assignment is handed over at

NoRoute == "no route"
NoPlan == [version |-> 0, route |-> NoRoute]
Planned == {FirstHolder[a] : a \in Assignments}

ASSUME RecoveryAssumption ==
  /\ IsFiniteSet(Uavs) /\ IsFiniteSet(Assignments)
  /\ FirstHolder \in [Assignments -> Uavs]
  /\ \A a, b \in Assignments : FirstHolder[a] = FirstHolder[b] => a = b
  /\ NoRoute \notin Corridors
  /\ FirstRoute \in [Uavs -> Corridors \cup {NoRoute}]
  /\ \A u \in Uavs : FirstRoute[u] = NoRoute <=> u \notin Planned
  /\ \A u, v \in Planned : FirstRoute[u] = FirstRoute[v] => u = v
  /\ Related \in [Assignments -> SUBSET Assignments]
  /\ Modes \subseteq {"LOCAL_ONLY", "LOCAL_THEN_REASSIGN"}
  /\ MaxLocalAttempts \in Nat \ {0} /\ MaxReassignAttempts \in Nat \ {0}
  /\ MaxScope \in 2..3 /\ MaxFaults \in [Uavs -> Nat] /\ MaxHandOvers \in [Assignments -> Nat]

VARIABLES
  mode,            \* config.mode
  holder,          \* vehicle an assignment is routed to
  status,          \* its AssignmentStatus; READY is not started yet
  version,         \* local_plan_version of its record
  agent,           \* state of the MissionAgent of each vehicle, or "none"
  faults,          \* fault events of a vehicle so far; the last one may be live
  plan,            \* version and route of the plan its SkillManager flies
  route,           \* _planned_routes
  fleetVersion,    \* fleet_plan_version
  pending,         \* _pending_reassignments
  landings,        \* _local_failsafe_landings
  retired,         \* _retired_failsafe_agents
  former,          \* those of them that have a newer agent in agents
  episode,         \* episodes, NoEpisode where there is none
  finished,        \* finished_events
  cancelRequested, \* _cancel_requested
  raised           \* an exception has left tick()

records == <<holder, status, version, pending, landings>>
flight == <<agent, faults, plan, route>>
apart == <<retired, former>>
fleetVars == <<fleetVersion, apart, cancelRequested>>
recovery == <<episode, finished>>
recoveryVars == <<mode, records, flight, fleetVars, recovery, raised>>

Cancelable == {"FLYING", "HOVERING", "LANDING"}
Airborne == Cancelable \cup {"SHUTDOWN"}
AgentStates == Airborne \cup {"none", "IDLE", "DOWN"}
\* ENDED stands for SUCCEEDED, FAILED and CANCELED.
Statuses == {"READY", "RUNNING", "CANCELING", "WAITING_REASSIGNMENT", "ENDED"}
Phases == {"LOCAL", "JOINT", "REASSIGN"}

Carried(u) == \E a \in Assignments : holder[a] = u
LiveEvent(u) == IF agent[u] = "HOVERING" THEN faults[u] ELSE 0

\* What a repair of a depends on, dependency_digest(): a change of any of it
\* takes the candidate its admission.  0 is no dependency.
Digest(a) ==
  [fleet |-> fleetVersion,
   versions |-> [b \in Assignments |-> IF b \in {a} \cup Related[a] THEN version[b] ELSE 0]]

NoDigest == [fleet |-> 0, versions |-> [b \in Assignments |-> 0]]
NoContexts == [b \in Assignments |-> NoDigest]

(***************************************************************************)
(* An episode: its phase and live event (0 is none), the local version it  *)
(* owns, attempts so far, its request (queued at the broker, running at a  *)
(* model, refused before that), the fleet version the request was queued   *)
(* at, the digest frozen when it was admitted, the peers of a joint repair *)
(* and their digests.                                                      *)
(***************************************************************************)
NoEpisode == [phase |-> "none", event |-> 0, base |-> 0, attempts |-> 0, reassigns |-> 0,
              request |-> "none", queuedAt |-> 0, context |-> NoDigest,
              peers |-> {}, contexts |-> NoContexts]

NewEpisode(a, ph) ==
  [NoEpisode EXCEPT !.phase = ph, !.event = LiveEvent(holder[a]), !.base = version[a]]

Open(a) == episode[a] # NoEpisode

\* _owns_execution()
Owned(a) ==
  /\ version[a] = episode[a].base
  /\ IF episode[a].phase = "REASSIGN" THEN status[a] = "WAITING_REASSIGNMENT"
     ELSE /\ LiveEvent(holder[a]) = episode[a].event
          /\ plan[holder[a]].version = episode[a].base

\* An event is known by its vehicle and number.
Events(S) == {<<holder[a], episode[a].event>> : a \in {b \in S : episode[b].event # 0}}

\* _finish() of the episodes of a set of assignments
Finish(S) ==
  /\ episode' = [a \in Assignments |-> IF a \in S THEN NoEpisode ELSE episode[a]]
  /\ finished' = finished \cup Events(S)

RecoveryInit ==
  /\ mode \in Modes
  /\ holder = FirstHolder
  /\ status = [a \in Assignments |-> "RUNNING"]
  /\ version = [a \in Assignments |-> 1]
  /\ agent = [u \in Uavs |-> IF u \in Planned THEN "FLYING" ELSE "none"]
  /\ faults = [u \in Uavs |-> 0]
  /\ plan = [u \in Uavs |-> IF u \in Planned THEN [version |-> 1, route |-> FirstRoute[u]] ELSE NoPlan]
  /\ route = FirstRoute
  /\ fleetVersion = 1
  /\ pending = {} /\ landings = {} /\ retired = {} /\ former = {}
  /\ episode = [a \in Assignments |-> NoEpisode] /\ finished = {}
  /\ cancelRequested = FALSE /\ raised = FALSE

(***************************************************************************)
(* The runtime: agents, failures and landings                              *)
(***************************************************************************)

\* States an agent may be in after a tick that returns.
TickResults(s) ==
  CASE s = "FLYING"   -> {"HOVERING", "LANDING", "SHUTDOWN", "DOWN"}
    [] s = "HOVERING" -> {"LANDING", "SHUTDOWN", "DOWN"}
    [] s = "LANDING"  -> {"SHUTDOWN", "DOWN"}
    [] s = "SHUTDOWN" -> {"DOWN"}
    [] OTHER          -> {}

\* States cancel() may leave; none if it raises.
CancelResults(s) ==
  CASE s = "LANDING"                -> {"SHUTDOWN"}
    [] s \in {"FLYING", "HOVERING"} -> {"SHUTDOWN", "DOWN"}
    [] OTHER                        -> {}

Ticked(u, s) ==
  /\ s \in TickResults(agent[u])
  /\ IF agent[u] = "FLYING" /\ s = "HOVERING"
     THEN faults[u] < MaxFaults[u] /\ faults' = [faults EXCEPT ![u] = @ + 1]
     ELSE UNCHANGED faults

\* _begin_local_failsafe_landing(), the agents being in the states ag.
BeginLanding(a, ag) ==
  LET u == holder[a]
  IN  /\ pending' = pending \ {a}
      /\ \/ /\ "SHUTDOWN" \in CancelResults(ag[u])
            /\ agent' = [ag EXCEPT ![u] = "SHUTDOWN"]
            /\ landings' = landings \cup {a}
            /\ status' = [status EXCEPT ![a] = "CANCELING"]
         \/ /\ \/ "DOWN" \in CancelResults(ag[u]) /\ agent' = [ag EXCEPT ![u] = "DOWN"]
               \/ CancelResults(ag[u]) = {} /\ agent' = ag
            /\ landings' = landings \ {a}
            /\ status' = [status EXCEPT ![a] = "ENDED"]

\* _mark_local_failure()
MarkFailure(a, ag) ==
  IF mode = "LOCAL_ONLY" THEN BeginLanding(a, ag)
  ELSE /\ status' = [status EXCEPT ![a] = "WAITING_REASSIGNMENT"]
       /\ pending' = pending \cup {a}
       /\ agent' = ag
       /\ UNCHANGED landings

\* service_reassignments() ends the agents' part of a tick, and the tick: when a
\* vehicle is visited, only a cancellation has left its assignment unserviced.
Serviced(a) == a \in pending => Open(a)

VehicleTurn ==
  UNCHANGED <<holder, version, plan, route, fleetVersion, cancelRequested, recovery, raised>>

VisitTurn(a) == (Serviced(a) \/ cancelRequested) /\ VehicleTurn

\* The source of a reassignment is kept moving; what becomes of it is not adopted.
VisitWaiting(a) ==
  /\ VisitTurn(a)
  /\ status[a] = "WAITING_REASSIGNMENT" /\ agent[holder[a]] \in Airborne
  /\ \/ /\ \E s \in TickResults(agent[holder[a]]) :
             /\ Ticked(holder[a], s)
             /\ agent' = [agent EXCEPT ![holder[a]] = s]
        /\ UNCHANGED <<status, pending, landings>>
     \/ BeginLanding(a, agent) /\ UNCHANGED faults
  /\ UNCHANGED apart

\* _adopt_agent_snapshot(): the agent of a was in state old, is in state s now.
Adopt(a, old, s, ag) ==
  \/ /\ s \in Airborne
     /\ agent' = ag /\ UNCHANGED <<status, pending, landings>>
  \/ /\ s = "DOWN" /\ (a \in landings \/ cancelRequested \/ old = "FLYING")
     /\ status' = [status EXCEPT ![a] = "ENDED"] /\ landings' = landings \ {a}
     /\ agent' = ag /\ UNCHANGED pending
  \/ s = "DOWN" /\ a \notin landings /\ MarkFailure(a, ag)

Visit(a) ==
  /\ VisitTurn(a)
  /\ status[a] \in {"RUNNING", "CANCELING"}
  /\ LET u == holder[a]
     IN  \/ \E s \in TickResults(agent[u]) :
              Ticked(u, s) /\ Adopt(a, agent[u], s, [agent EXCEPT ![u] = s])
         \/ MarkFailure(a, agent) /\ UNCHANGED faults
  /\ UNCHANGED apart

\* _service_retired_failsafe_landings(): it may be a former agent that has landed.
VisitRetired(u) ==
  /\ VehicleTurn
  /\ u \in retired
  /\ agent' = IF u \in former THEN agent ELSE [agent EXCEPT ![u] = "DOWN"]
  /\ retired' = retired \ {u} /\ former' = former \ {u}
  /\ UNCHANGED <<status, pending, landings, faults>>

\* _start_pending_ready_assignments()
StartReady(a) ==
  LET u == holder[a]
  IN  /\ status[a] = "READY"
      /\ \/ /\ agent' = [agent EXCEPT ![u] = "FLYING"]
            /\ plan' = [plan EXCEPT ![u] = [version |-> version[a], route |-> route[u]]]
            /\ status' = [status EXCEPT ![a] = "RUNNING"]
            /\ UNCHANGED <<pending, landings>>
         \/ MarkFailure(a, agent) /\ UNCHANGED plan
         \/ \E s \in {"SHUTDOWN", "DOWN"} :
              /\ MarkFailure(a, [agent EXCEPT ![u] = s])
              /\ plan' = [plan EXCEPT ![u] = [version |-> version[a], route |-> route[u]]]
      /\ UNCHANGED <<holder, version, faults, route, fleetVars, recovery, raised>>

\* cancel(), between two ticks: the episodes end, the agents land.
UserCancel ==
  /\ ~cancelRequested /\ \A a \in Assignments : Serviced(a)
  /\ cancelRequested' = TRUE
  /\ Finish(Assignments)
  /\ LET called == {a \in Assignments : status[a] # "ENDED"}
         accepts == {a \in called : agent[holder[a]] \in Cancelable}
     IN  \E down \in SUBSET {a \in accepts : "DOWN" \in CancelResults(agent[holder[a]])} :
           /\ agent' = [u \in Uavs |-> IF \E a \in down : holder[a] = u THEN "DOWN"
                                       ELSE IF \E a \in accepts : holder[a] = u THEN "SHUTDOWN"
                                       ELSE agent[u]]
           /\ status' = [a \in Assignments |-> IF a \in accepts \ down THEN "CANCELING"
                                               ELSE IF a \in called THEN "ENDED" ELSE status[a]]
  /\ UNCHANGED <<holder, version, pending, landings, faults, plan, route, fleetVersion,
                 apart, raised>>

(***************************************************************************)
(* service_reassignments()                                                 *)
(***************************************************************************)

\* A pending assignment without an episode gets one; a source that flies on
\* without a live event must land meanwhile, _safe_source_wait(), and where its
\* agent lands already cancel() raises and nobody catches it.
Service(a) ==
  LET u == holder[a]
  IN  /\ a \in pending /\ ~Open(a)
      /\ episode' = [episode EXCEPT ![a] = NewEpisode(a, "REASSIGN")]
      /\ \/ /\ agent[u] \notin {"FLYING", "LANDING", "SHUTDOWN"}
            /\ UNCHANGED <<agent, raised>>
         \/ /\ agent[u] \in {"FLYING", "LANDING"}
            /\ \E s \in CancelResults(agent[u]) : agent' = [agent EXCEPT ![u] = s]
            /\ UNCHANGED raised
         \/ /\ agent[u] = "SHUTDOWN"
            /\ raised' = TRUE /\ UNCHANGED agent
      /\ UNCHANGED <<records, faults, plan, route, fleetVars, finished>>

(***************************************************************************)
(* tick(): one episode                                                     *)
(***************************************************************************)

\* cancel_all()
EndEpisodes ==
  /\ cancelRequested /\ \E a \in Assignments : Open(a)
  /\ Finish(Assignments)
  /\ UNCHANGED <<records, flight, fleetVars, raised>>

OpenEpisode(a) ==
  /\ ~cancelRequested /\ Serviced(a)
  /\ LiveEvent(holder[a]) # 0 /\ ~Open(a)
  /\ <<holder[a], LiveEvent(holder[a])>> \notin finished
  /\ episode' = [episode EXCEPT ![a] = NewEpisode(a, "LOCAL")]
  /\ UNCHANGED <<records, flight, fleetVars, finished, raised>>

DropEpisode(a) ==
  /\ ~cancelRequested /\ Open(a) /\ ~Owned(a)
  /\ Finish({a})
  /\ UNCHANGED <<records, flight, fleetVars, raised>>

EpisodeTurn(a) ==
  /\ ~cancelRequested /\ Open(a) /\ Owned(a)
  /\ UNCHANGED <<cancelRequested, raised>>

NothingPublished == UNCHANGED <<holder, version, faults, plan, route, fleetVersion>>

\* Fault: the episode ends, nobody lands the vehicle.
ExitQuietly(a) ==
  /\ Finish({a}) /\ NothingPublished
  /\ UNCHANGED <<status, pending, landings, agent, apart>>

\* _exit()
Exit(a) ==
  /\ BeginLanding(a, agent) /\ Finish({a})
  /\ UNCHANGED apart /\ NothingPublished

\* The deadline has passed.
Expire(a) == EpisodeTurn(a) /\ Exit(a)

InPhase(a, ph, reqs) == EpisodeTurn(a) /\ episode[a].phase = ph /\ episode[a].request \in reqs
Becomes(a, e) == episode' = [episode EXCEPT ![a] = e] /\ UNCHANGED finished
Untouched == UNCHANGED <<status, pending, landings, agent, apart>> /\ NothingPublished

\* The first thing an episode asks for, once the vehicle hovers stably.
SubmitLocal(a) ==
  /\ InPhase(a, "LOCAL", {"none"})
  /\ agent[holder[a]] = "HOVERING" /\ episode[a].attempts < MaxLocalAttempts
  /\ Becomes(a, [episode[a] EXCEPT !.request = "queued", !.queuedAt = fleetVersion, !.attempts = @ + 1])
  /\ Untouched

SubmitJoint(a) ==
  /\ InPhase(a, "JOINT", {"none"})
  /\ agent[holder[a]] = "HOVERING"
  /\ Becomes(a, [episode[a] EXCEPT !.request = "queued"])
  /\ Untouched

SubmitReassign(a) ==
  /\ InPhase(a, "REASSIGN", {"none"})
  /\ episode[a].reassigns < MaxReassignAttempts
  /\ Becomes(a, [episode[a] EXCEPT !.request = "queued", !.queuedAt = fleetVersion, !.reassigns = @ + 1])
  /\ Untouched

(***************************************************************************)
(* The pump: a queued request is prepared from the state of that moment,   *)
(* or refused by the broker, its deadline or the preparation.              *)
(***************************************************************************)

\* _require_joint_peer()
FitPeer(b) ==
  /\ status[b] = "RUNNING" /\ ~Open(b)
  /\ agent[holder[b]] = "FLYING"
  /\ plan[holder[b]].version = version[b]

Admitted(a, e) ==
  CASE e.phase = "LOCAL"    -> agent[holder[a]] = "HOVERING" /\ e.queuedAt = fleetVersion
    [] e.phase = "JOINT"    -> /\ agent[holder[a]] = "HOVERING"
                               /\ e.context = Digest(a)
                               /\ \A b \in e.peers : FitPeer(b)
    [] e.phase = "REASSIGN" -> e.queuedAt = fleetVersion /\ plan[holder[a]] # NoPlan

\* A joint repair keeps the digest the single one was admitted with.
Prepare(a) ==
  /\ EpisodeTurn(a) /\ episode[a].request = "queued"
  /\ Untouched
  /\ Admitted(a, episode[a])
  /\ Becomes(a, [episode[a] EXCEPT !.request = "running", !.queuedAt = 0, !.context = Digest(a),
                   !.contexts = [b \in Assignments |-> IF b \in episode[a].peers THEN Digest(b)
                                                               ELSE NoDigest]])

(***************************************************************************)
(* _handle_failure()                                                       *)
(***************************************************************************)

\* Fault: the runtime is not told that the vehicle waits.
EscalateQuietly(a) ==
  /\ Becomes(a, [episode[a] EXCEPT !.phase = "REASSIGN", !.request = "none", !.queuedAt = 0,
                                   !.context = NoDigest])
  /\ Untouched

\* _escalate()
Escalate(a) ==
  IF mode = "LOCAL_ONLY" THEN Exit(a)
  ELSE /\ MarkFailure(a, agent)
       /\ Becomes(a, [episode[a] EXCEPT !.phase = "REASSIGN", !.request = "none", !.queuedAt = 0,
                                       !.context = NoDigest])
       /\ UNCHANGED apart /\ NothingPublished

\* Nothing came of the request: once more, while there are attempts left.
RetryLocal(a) ==
  /\ InPhase(a, "LOCAL", {"queued", "running"})
  /\ IF episode[a].attempts < MaxLocalAttempts
     THEN Becomes(a, [episode[a] EXCEPT !.request = "none", !.queuedAt = 0]) /\ Untouched
     ELSE Escalate(a)

\* _try_enter_joint_repair(), the vehicles S being affected.
EnterJoint(a, S) ==
  LET peers == {b \in Assignments \ {a} : holder[b] \in S}
  IN  /\ Cardinality(S \cup {holder[a]}) \in 2..MaxScope
      /\ \A v \in S \ {holder[a]} : \E b \in peers : holder[b] = v /\ FitPeer(b)
      /\ Becomes(a, [episode[a] EXCEPT !.phase = "JOINT", !.request = "none", !.queuedAt = 0,
                                       !.peers = peers])
      /\ Untouched

DependencyChanged(a) == episode[a].request = "queued" \/ episode[a].context # Digest(a)

\* Fault: vehicles that land or hover are not in the way.
OccupantsFlying(c, S) == {v \in Uavs \ S : route[v] = c /\ agent[v] = "FLYING"}

Occupants(c, S) == {v \in Uavs \ S : route[v] = c}

\* COORDINATION_REQUIRED names the vehicles of the dependencies,
\* SHARED_SPACE_CONFLICT those whose route is in the way.
Coordinate(a) ==
  /\ InPhase(a, "LOCAL", {"queued", "running"})
  /\ \/ DependencyChanged(a) /\ EnterJoint(a, {holder[b] : b \in Related[a]})
     \/ /\ episode[a].request = "running" /\ ~DependencyChanged(a)
        /\ \E c \in Corridors : EnterJoint(a, Occupants(c, {holder[a]}))

FleetChanged(a) ==
  fleetVersion # IF episode[a].request = "running" THEN episode[a].context.fleet ELSE episode[a].queuedAt

\* A reassignment is asked for again if only the fleet has moved on.
RetryReassign(a) ==
  /\ InPhase(a, "REASSIGN", {"queued", "running"})
  /\ FleetChanged(a) /\ episode[a].reassigns < MaxReassignAttempts
  /\ Becomes(a, [episode[a] EXCEPT !.request = "none", !.queuedAt = 0, !.context = NoDigest])
  /\ Untouched

\* Whatever else is wrong with an answer, the vehicle lands.
GiveUp(a) ==
  /\ EpisodeTurn(a) /\ episode[a].request \in {"queued", "running"}
  /\ Exit(a)

(***************************************************************************)
(* Publications                                                            *)
(***************************************************************************)

\* Fault: records and routes of vehicles whose skill does not start stay as they were.
PublishStarted(S, f) ==
  LET on(u) == CHOOSE b \in S : holder[b] = u
      moved == {holder[b] : b \in S}
  IN  /\ plan' = [u \in Uavs |-> IF u \in moved
                                 THEN [version |-> version[on(u)] + 1, route |-> f[on(u)]] ELSE plan[u]]
      /\ \E failed \in SUBSET moved :
           /\ agent' = [u \in Uavs |-> IF u \in failed THEN "LANDING"
                                       ELSE IF u \in moved THEN "FLYING" ELSE agent[u]]
           /\ route' = [u \in Uavs |-> IF u \in moved \ failed THEN f[on(u)] ELSE route[u]]
           /\ version' = [b \in Assignments |-> IF b \in S /\ holder[b] \notin failed
                                                THEN version[b] + 1 ELSE version[b]]
           /\ status' = [b \in Assignments |-> IF b \in S /\ holder[b] \notin failed
                                               THEN "RUNNING" ELSE status[b]]
      /\ UNCHANGED <<holder, pending, landings, faults, fleetVersion, apart>>

\* The vehicles of S are given the corridors f, and fly them or, where the
\* skill does not start, land.
Publish(S, f) ==
  LET on(u) == CHOOSE b \in S : holder[b] = u
      moved == {holder[b] : b \in S}
  IN  /\ version' = [b \in Assignments |-> IF b \in S THEN version[b] + 1 ELSE version[b]]
      /\ status' = [b \in Assignments |-> IF b \in S THEN "RUNNING" ELSE status[b]]
      /\ plan' = [u \in Uavs |-> IF u \in moved
                                 THEN [version |-> version[on(u)] + 1, route |-> f[on(u)]] ELSE plan[u]]
      /\ route' = [u \in Uavs |-> IF u \in moved THEN f[on(u)] ELSE route[u]]
      /\ \E failed \in SUBSET moved :
           agent' = [u \in Uavs |-> IF u \in failed THEN "LANDING"
                                    ELSE IF u \in moved THEN "FLYING" ELSE agent[u]]
      /\ UNCHANGED <<holder, pending, landings, faults, fleetVersion, apart>>

CommitLocal(a) ==
  /\ InPhase(a, "LOCAL", {"running"})
  /\ agent[holder[a]] = "HOVERING" /\ episode[a].context = Digest(a)
  /\ \E c \in Corridors :
       /\ Occupants(c, {holder[a]}) = {}
       /\ Publish({a}, [b \in {a} |-> c])
  /\ Finish({a})

\* Fault: only what the peer's own dependencies say is compared.
PeerSameDigest(a, b) == status[b] = "RUNNING" /\ episode[a].contexts[b] = Digest(b)

\* _check_joint_live() of a peer
PeerUnchanged(a, b) ==
  /\ status[b] = "RUNNING" /\ LiveEvent(holder[b]) = 0
  /\ agent[holder[b]] = "FLYING"
  /\ plan[holder[b]].version = version[b]
  /\ episode[a].contexts[b] = Digest(b)

CommitJoint(a) ==
  LET S == {a} \cup episode[a].peers
  IN  /\ InPhase(a, "JOINT", {"running"})
      /\ agent[holder[a]] = "HOVERING" /\ episode[a].context = Digest(a)
      /\ \A b \in episode[a].peers : PeerUnchanged(a, b)
      /\ \E f \in [S -> Corridors] :
           /\ \A b \in S : Occupants(f[b], {holder[d] : d \in S}) = {}
           /\ \A b, d \in S : f[b] = f[d] => b = d
           /\ Publish(S, f)
      /\ Finish({a})

\* A vehicle no assignment is on, be it one that has flown: one that has landed, or
\* lands as a retired one.  Nobody asks for that.
Spare(v) == ~Carried(v)

ReassignmentLive(a) ==
  /\ InPhase(a, "REASSIGN", {"running"})
  /\ episode[a].context = Digest(a)

\* _publish_fleet_replan() ends the flight of the source before it publishes: the
\* states that leaves, none where cancel() raises.
EndStates(s) == CancelResults(s) \cup ({"DOWN"} \cap {s})

\* The source, now in state s, is retired if it still lands: its agent is ticked
\* apart from the records, in the place of an older one that lands.  A retired
\* agent of a vehicle of V stays when that gets a new agent.
Retire(u, s, V) ==
  LET lands == IF s = "SHUTDOWN" THEN {u} ELSE {}
  IN  /\ retired' = retired \cup lands
      /\ former' = (former \ lands) \cup (retired \cap V)

HandOver(a) ==
  LET u == holder[a]
  IN  /\ ReassignmentLive(a) /\ fleetVersion <= MaxHandOvers[a]
      /\ \E s \in EndStates(agent[u]), v \in Uavs, c \in Corridors :
           /\ Spare(v) /\ Occupants(c, {v}) = {}
           /\ agent' = [agent EXCEPT ![u] = s, ![v] = "IDLE"]
           /\ Retire(u, s, {v})
           /\ holder' = [holder EXCEPT ![a] = v]
           /\ plan' = [plan EXCEPT ![v] = NoPlan]
           /\ route' = [route EXCEPT ![v] = c]
      /\ status' = [status EXCEPT ![a] = "READY"]
      /\ version' = [version EXCEPT ![a] = @ + 1]
      /\ fleetVersion' = fleetVersion + 1
      /\ pending' = pending \ {a}
      /\ Finish({a})
      /\ UNCHANGED <<landings, faults>>

\* The deadline passes between the two: the source has begun to land, and
\* nothing is published.
HandOverExpires(a) ==
  LET u == holder[a]
  IN  /\ ReassignmentLive(a)
      /\ \E v \in Uavs, c \in Corridors : Spare(v) /\ Occupants(c, {v}) = {}
      /\ \E s \in EndStates(agent[u]) :
           /\ Retire(u, s, {})
           /\ BeginLanding(a, [agent EXCEPT ![u] = s])
      /\ Finish({a})
      /\ NothingPublished

(***************************************************************************)
(* The specification                                                       *)
(***************************************************************************)

TickEpisode(a) ==
  \/ OpenEpisode(a) \/ DropEpisode(a) \/ Expire(a)
  \/ SubmitLocal(a) \/ SubmitJoint(a) \/ SubmitReassign(a) \/ Prepare(a)
  \/ RetryLocal(a) \/ Coordinate(a) \/ RetryReassign(a) \/ GiveUp(a)
  \/ CommitLocal(a) \/ CommitJoint(a) \/ HandOver(a) \/ HandOverExpires(a)

TickVehicle(a) == VisitWaiting(a) \/ Visit(a) \/ StartReady(a)

FleetOver == retired = {} /\ \A a \in Assignments : status[a] = "ENDED"

Flying == ~raised /\ UNCHANGED mode

RecoveryNext ==
  /\ Flying
  /\ \/ \E a \in Assignments : TickVehicle(a) \/ Service(a) \/ TickEpisode(a)
     \/ \E u \in Uavs : VisitRetired(u)
     \/ UserCancel \/ EndEpisodes

LoopEnds == (raised \/ FleetOver) /\ UNCHANGED recoveryVars

\* Every tick services what is pending and ticks every episode, and in the end a
\* deadline passes.
Due(a) == Service(a) \/ OpenEpisode(a) \/ DropEpisode(a) \/ Expire(a)

RecoveryFairness == \A a \in Assignments : WF_recoveryVars(Flying /\ Due(a))

RecoverySpec ==
  RecoveryInit /\ [][RecoveryNext \/ LoopEnds]_recoveryVars /\ RecoveryFairness

(***************************************************************************)
(* Properties                                                              *)
(***************************************************************************)

Digests == [fleet : Nat, versions : [Assignments -> Nat]]
Episodes ==
  [phase : Phases \cup {"none"}, event : Nat, base : Nat, attempts : Nat, reassigns : Nat,
   request : {"none", "queued", "running"}, queuedAt : Nat, context : Digests,
   peers : SUBSET Assignments, contexts : [Assignments -> Digests]]

\* The controller's tables and the runtime's have the types the code gives them.
RecoveryTypeOK ==
  /\ mode \in {"LOCAL_ONLY", "LOCAL_THEN_REASSIGN"}
  /\ holder \in [Assignments -> Uavs] /\ status \in [Assignments -> Statuses]
  /\ version \in [Assignments -> Nat]
  /\ agent \in [Uavs -> AgentStates] /\ faults \in [Uavs -> Nat]
  /\ plan \in [Uavs -> [version : Nat, route : Corridors \cup {NoRoute}]]
  /\ route \in [Uavs -> Corridors \cup {NoRoute}]
  /\ fleetVersion \in Nat
  /\ pending \subseteq Assignments /\ landings \subseteq Assignments
  /\ retired \subseteq Uavs /\ former \subseteq retired
  /\ finished \subseteq Uavs \X Nat
  /\ episode \in [Assignments -> Episodes]
  /\ cancelRequested \in BOOLEAN /\ raised \in BOOLEAN

\* An assignment is carried by one vehicle and a vehicle carries one assignment,
\* whatever is handed over: what _record_for_uav() takes for granted.
CarriedOnce == \A a, b \in Assignments : holder[a] = holder[b] => a = b

\* No two vehicles fly, land on or have ended in plans for one corridor: local,
\* joint and reassignment answers were computed side by side from older routes,
\* and each was checked against the routes of others only when it was published
\* (_check_space, _check_joint_space).  The plan of a vehicle is that of its agent
\* in agents; a former agent's is in no table of the code.
CorridorsApart ==
  \A u, v \in Uavs : plan[u].route = plan[v].route /\ plan[u] # NoPlan => u = v

\* An event is finished only when its vehicle has left the protected HOVER.  Once
\* it is in finished_events nobody looks at it again: were an episode to finish
\* (stale, escalated, committed, canceled) with the vehicle hovering on, it would
\* hover for good.
HoldIsServed ==
  \A a \in Assignments : LET u == holder[a] IN
    LiveEvent(u) # 0 => <<u, LiveEvent(u)>> \notin finished

\* Manager, record and route table tell of one plan for each vehicle in the air,
\* also after a publication whose skill start failed, and of every vehicle of a
\* joint repair: else each later answer for it is refused as STALE_VERSION.
VersionsAgree ==
  \A a \in Assignments : LET u == holder[a] IN
    agent[u] \in Airborne =>
      plan[u] = [version |-> version[a], route |-> route[u]]

\* A landing that has begun is never flown away from: no late answer, no repair of
\* another vehicle and no handover puts a landing vehicle that carries an assignment
\* on a plan again, or gives one that has ended there new work.  A vehicle no
\* assignment is on may be handed one back; if it still lands, the agent that lands
\* it is kept and ticked until it has landed, unless a newer one of the same vehicle
\* is left to land in its place.
LandingIsFinal ==
  [][\A u \in Uavs :
       /\ agent[u] = "LANDING" => agent'[u] \in {"LANDING", "SHUTDOWN", "DOWN"}
       /\ agent[u] \in {"SHUTDOWN", "DOWN"} =>
            \/ agent'[u] \in {agent[u], "DOWN"}
            \/ /\ ~Carried(u) /\ Carried(u)' /\ agent'[u] = "IDLE"
               /\ agent[u] = "SHUTDOWN" => u \in former'
       /\ u \in former /\ u \in retired' =>
            u \in former' \/ agent'[u] = "SHUTDOWN"]_recoveryVars

\* A fault is settled: by a repair, a landing or a handover, though models may
\* never answer, candidates be refused over and over, and the protected HOVER go
\* on for as long as nobody ends it.
FaultSettles ==
  \A a \in Assignments :
    LiveEvent(holder[a]) # 0 ~> (LiveEvent(holder[a]) = 0 \/ raised)

\* "A non-repairable or terminal source must not wait indefinitely in the air. Let
\* the existing cancel-and-land controller run while an idle replacement is
\* computed" (recovery_controller.py:343): tick() returns and the loop that ticks
\* the landing goes on.  It does not where the source lands already.
TickReturns == ~raised
=============================================================================
