------------------------- MODULE FleetRuntimeProofs -------------------------
(***************************************************************************)
(* Proofs about FleetRuntime, for every plan, every set of vehicles and    *)
(* spare ids, every policy and every replan handler.                       *)
(*                                                                         *)
(* The invariant says what the routes of the fleet are (RouteInv), and for *)
(* each assignment how its record agrees with its claim in the registry    *)
(* (ClaimRow), with the agent of its vehicle (FlightRow) and with what was *)
(* asked for, a landing or a cancellation (LandingRow).  A step changes    *)
(* one assignment, or cancels all that are open.                           *)
(***************************************************************************)
EXTENDS FleetRuntime, SharedTargetRegistryProofs, FiniteSetTheorems, WellFoundedInduction

Serving(x) == {a \in Routed : plan[a].target = x}
Planned(x) == {a \in Assignments : InitialPlan[a] # Unbound /\ InitialPlan[a].target = x}
Pilot(a) == agent[plan[a].uav]

\* The registry, which the fleet uses without a staged copy at time zero.
ClaimsInv ==
  /\ Sound(live) /\ staged = NoStage
  /\ \A a \in Assignments : live.claims[a].at = 0

\* What is planned is routed, one assignment for each vehicle and, under the
\* EXCLUSIVE policy, for each target; a binding is a route as long as there is
\* one; a vehicle in the air flies a route or was retired from one.  The agent
\* that was retired of a vehicle lands, and is its agent only while it has no route.
RouteInv ==
  /\ \A a \in Assignments : plan[a] = Unbound <=> record[a] = "none"
  /\ \A a, b \in Routed : plan[a].uav = plan[b].uav => a = b
  /\ Exclusive => \A a, b \in Routed : plan[a].target = plan[b].target => a = b
  /\ \A a \in Routed : Bound(live, a) => live.binding[a] = plan[a]
  /\ \A u \in retired : former[u] = "none" => RouteOn(u) = {} /\ agent[u] = "SHUTDOWN"
  /\ \A u \in Uavs : former[u] # "none" => u \in retired /\ former[u] = "SHUTDOWN"
  /\ \A u \in Uavs : agent[u] \in Airborne => RouteOn(u) # {} \/ (u \in retired /\ former[u] = "none")

\* As many assignments serve a target as were planned for it.
GoalInv ==
  Routed # {} => \A x \in Targets : /\ IsFiniteSet(Serving(x))
                                    /\ Cardinality(Serving(x)) = Cardinality(Planned(x))

Claiming == Startable \cup {"RUNNING", "HOLDING", "CLAIM_HOLD", "CANCELING"}

ClaimRow(a) ==
  /\ record[a] = "SUCCEEDED" <=> live.claims[a].state = "TERMINATED"
  /\ Active(live, a) => record[a] \in Claiming
  /\ record[a] \notin {"none", "REASSIGNMENT_REQUIRED"} \/ a \in landings =>
       live.claims[a].state # "UNCLAIMED"

\* Handlers that do not let a landing vehicle try again.
Tame == "same" \in replies => replies \cap {"fails", "handoff"} = {}
\* A failure concerns one vehicle, and no vehicle is put to work again.
Plain == policy # "CANCEL_FLEET" /\ "same" \notin replies

FlightRow(a) ==
  a \in Routed =>
    /\ record[a] \in Startable => Pilot(a) = "IDLE"
    /\ record[a] = "SUCCEEDED" => Pilot(a) = "SUCCEEDED"
    /\ Pilot(a) = "SUCCEEDED" => record[a] \in {"SUCCEEDED", "FAILED"} /\ (Tame => record[a] = "SUCCEEDED")
    /\ record[a] = "CANCELED" => Pilot(a) \notin Airborne
    /\ policy = "REPORT_AND_REPLAN" /\ Pilot(a) = "RUNNING" => record[a] \notin Terminal

LandingRow(a) ==
  /\ a \in landings /\ Tame =>
       "same" \notin replies /\ a \in Routed /\ (record[a] \notin Terminal => Pilot(a) = "SHUTDOWN")
  /\ Plain /\ record[a] = "CANCELING" => (cancelRequested \/ a \in landings) /\ Pilot(a) = "SHUTDOWN"
  /\ Plain /\ cancelRequested =>
       record[a] \in Terminal \cup {"none", "CANCELING", "WAITING_REASSIGNMENT"}
  /\ cancelRequested /\ "same" \notin replies => record[a] \notin Startable

RowInv(a) == ClaimRow(a) /\ FlightRow(a) /\ LandingRow(a)

\* A vehicle that lands on request is not held from the moment on at which it
\* may be visited.
HeldInv ==
  Plain => \A a \in Routed :
    record[a] = "CANCELING" /\ (pc = "retired" \/ (pc = "agents" /\ plan[a].uav \in todo)) =>
      plan[a].uav \notin held

\* Where the runtime is says what it has to visit, and what the end of the
\* fleet was decided on.
PlaceInv ==
  /\ pc \in {"starting", "retired", "agents"} => todo \subseteq Uavs
  /\ pc \in {"ready", "replan"} => todo \subseteq Assignments
  /\ pc = "retired" => todo \subseteq retired
  /\ pc = "starting" => \A u \in todo : RouteOn(u) # {}
  /\ fleet \in FleetTerminal \cup {"IDLE"} => pc = "idle"
  /\ fleet = "IDLE" => /\ Routed = {} /\ ~cancelRequested /\ landings = {} /\ retired = {}
                       /\ \A a \in Assignments : ~Bound(live, a)
  /\ Routed = {} => fleet \in {"IDLE", "FAILED", "FAILED_NO_EXECUTABLE_PLAN"}
  /\ fleet = "CANCELED" => retired = {} /\ \A a \in Routed : record[a] \in {"SUCCEEDED", "CANCELED"}
  /\ fleet = "SUCCEEDED" =>
       /\ retired = {}
       /\ \A a \in Routed : plan[a].target \in Required => record[a] = "SUCCEEDED"

FleetInv ==
  /\ FleetTypeOK
  /\ ClaimsInv
  /\ RouteInv
  /\ GoalInv
  /\ \A a \in Assignments : RowInv(a)
  /\ HeldInv
  /\ PlaceInv

-----------------------------------------------------------------------------
(* Facts about ids, routes and claims.                                      *)

\* The first of some ids is one of them.
LEMMA FirstFact ==
  ASSUME NEW S \in SUBSET Nat, S # {}
  PROVE  FirstOf(S) \in S
<1>. DEFINE L == OpToRel(<, Nat)
<1>1. IsWellFoundedOn(L, Nat)
  BY NatLessThanWellFounded
<1>2. ASSUME NEW x \in S, NEW y \in S, y < x PROVE <<y, x>> \in L
  BY <1>2 DEF OpToRel
<1>. HIDE DEF L
<1>3. PICK x \in S : \A y \in S : ~ (<<y, x>> \in L)
  BY <1>1, WFMin
<1>4. \A y \in S : x \in Nat /\ y \in Nat /\ ~ (y < x)
  BY <1>2, <1>3
<1>5. \A y \in S : x <= y
  BY <1>4
<1>. QED BY <1>5 DEF FirstOf

\* A routed assignment has a vehicle and is the only one on it.
LEMMA RouteFact ==
  ASSUME FleetTypeOK, RouteInv, NEW a \in Routed
  PROVE  /\ a \in Assignments /\ record[a] # "none" /\ plan[a] # Unbound
         /\ plan[a] \in Bindings /\ plan[a].uav \in Uavs /\ plan[a].target \in Targets
         /\ RouteOn(plan[a].uav) = {a} /\ FirstOf(RouteOn(plan[a].uav)) = a
         /\ Pilot(a) \in AgentStates
<1>1. a \in Assignments /\ record[a] # "none" /\ plan[a] # Unbound
  BY DEF Routed, RouteInv
<1>2. plan[a] \in Bindings /\ plan[a].uav \in Uavs /\ plan[a].target \in Targets
  BY <1>1 DEF FleetTypeOK, Bindings
<1>3. RouteOn(plan[a].uav) = {a}
  BY DEF RouteOn, RouteInv
<1>4. a \in Nat
  BY <1>1, RegistryAssumption
<1>5. {a} \in SUBSET Nat /\ {a} # {}
  BY <1>4
<1>6. FirstOf({a}) \in {a}
  BY <1>5, FirstFact
<1>. QED BY <1>1, <1>2, <1>3, <1>6 DEF FleetTypeOK, Pilot

\* What release() leaves of the claims of a set of assignments.
LEMMA ReleasedFact ==
  ASSUME NEW R, Sound(R), \A b \in Assignments : R.claims[b].at = 0, NEW S \in SUBSET Assignments
  PROVE  /\ Sound(Released(R, S)) /\ Released(R, S).binding = R.binding
         /\ \A b \in Assignments : Released(R, S).claims[b].at = 0
         /\ \A b \in Assignments \ S : Released(R, S).claims[b] = R.claims[b]
         /\ \A b \in S : Released(R, S).claims[b].state =
              IF R.claims[b].state \in {"UNCLAIMED", "TERMINATED"} THEN R.claims[b].state ELSE "RELEASED"
<1> DEFINE c == [a \in Assignments |->
                   IF a \in S /\ Settleable(R, a) THEN Settled(R, a, "RELEASED", 0).claims[a] ELSE R.claims[a]]
           Q == [R EXCEPT !.claims = c]
<1>1. R \in Registries /\ WellFormed(R) /\ OneHolderIn(R) /\ OneAssignmentIn(R) /\ 0 \in Times
  BY RegistryAssumption DEF Sound, WellFormed, Times
<1>2. ASSUME NEW a \in Assignments, Settleable(R, a)
      PROVE  Settled(R, a, "RELEASED", 0).claims[a] = [state |-> "RELEASED", at |-> 0]
  <2>1. R.claims[a].at = 0
    OBVIOUS
  <2>2. (IF R.claims[a].at > 0 THEN R.claims[a].at ELSE 0) = 0
    BY <2>1
  <2>. QED BY <1>1, <2>2 DEF Settled, Registries
<1>3. "RELEASED" \in ClaimStates
  BY DEF ClaimStates
<1>4. c \in [Assignments -> [state : ClaimStates, at : Times]]
  BY <1>1, <1>2, <1>3 DEF Registries
<1>5. Q \in Registries /\ Q.binding = R.binding /\ Q.claims = c /\ Released(R, S) = Q
  BY <1>1, <1>4 DEF Registries, Released
<1>6. /\ \A b \in Assignments : c[b].at = 0
      /\ \A b \in Assignments \ S : c[b] = R.claims[b]
  BY <1>2
<1>7. ASSUME NEW b \in S
      PROVE  c[b].state = IF R.claims[b].state \in {"UNCLAIMED", "TERMINATED"} THEN R.claims[b].state
                          ELSE "RELEASED"
  <2>1. R.claims[b].state \notin {"UNCLAIMED", "TERMINATED"} <=> Settleable(R, b)
    BY <1>1 DEF Settleable, WellFormed
  <2>. QED BY <1>2, <2>1
<1>8. \A b \in Assignments : c[b] = R.claims[b] \/ c[b].state \in {"RELEASED", R.claims[b].state}
  BY <1>6, <1>7
<1>. HIDE DEF c, Q
<1>9. \A b \in Assignments : Holder(Q, b) => Holder(R, b)
  BY <1>5, <1>8 DEF Holder, HolderStates
<1>10. \A b \in Assignments : Bound(Q, b) <=> Bound(R, b)
  BY <1>5 DEF Bound
<1>11. \A b \in Assignments : ~Bound(R, b) => c[b].state = "UNCLAIMED"
  BY <1>1, <1>6, <1>7 DEF WellFormed
<1>12. WellFormed(Q)
  BY <1>5, <1>10, <1>11 DEF WellFormed
<1>13. OneHolderIn(Q) /\ OneAssignmentIn(Q)
  BY <1>1, <1>5, <1>9, <1>10 DEF OneHolderIn, OneAssignmentIn
<1>. QED BY <1>5, <1>6, <1>7, <1>12, <1>13 DEF Sound

\* What terminate() makes of a claim that was made.
LEMMA TerminatedFact ==
  ASSUME NEW R, Sound(R), \A b \in Assignments : R.claims[b].at = 0, NEW a \in Assignments,
         R.claims[a].state \notin {"UNCLAIMED", "TERMINATED"}
  PROVE  /\ Sound(Terminated(R, a)) /\ Terminated(R, a).binding = R.binding
         /\ \A b \in Assignments : Terminated(R, a).claims[b].at = 0
         /\ Terminated(R, a).claims[a].state = "TERMINATED"
         /\ \A b \in Assignments \ {a} : Terminated(R, a).claims[b] = R.claims[b]
<1>1. WellFormed(R) /\ 0 \in Times /\ Settleable(R, a)
  BY RegistryAssumption DEF Sound, WellFormed, Times, Settleable
<1>2. Terminated(R, a) = Settled(R, a, "TERMINATED", 0)
  BY <1>1 DEF Terminated
<1>3. Settled(R, a, "TERMINATED", 0).claims[a].at = 0
  <2>1. (IF R.claims[a].at > 0 THEN R.claims[a].at ELSE 0) = 0
    OBVIOUS
  <2>. QED BY <1>1, <2>1 DEF Settled, Registries, WellFormed
<1>. QED BY <1>1, <1>2, <1>3, SettledFact, SettledSound

\* A claim that meets no rival to arbitrate with is granted as it is.
LEMMA GrantedFact ==
  ASSUME NEW R, Sound(R), \A b \in Assignments : R.claims[b].at = 0, NEW a \in Assignments,
         NEW s \in ActiveStates, Bound(R, a), s = "PROVISIONAL" \/ ~Exclusive \/ Rivals(R, a) = {}
  PROVE  /\ Sound(Claimed(R, a, s, 0)) /\ Claimed(R, a, s, 0).binding = R.binding
         /\ \A b \in Assignments : Claimed(R, a, s, 0).claims[b].at = 0
         /\ Claimed(R, a, s, 0).claims[a].state = s
         /\ \A b \in Assignments \ {a} : Claimed(R, a, s, 0).claims[b] = R.claims[b]
<1>1. 0 \in Times /\ WellFormed(R) /\ R \in Registries
  BY RegistryAssumption DEF Sound, WellFormed, Times
<1>2. Sound(Claimed(R, a, s, 0)) /\ Claimed(R, a, s, 0).binding = R.binding
  BY <1>1, ClaimedSound, ClaimedFact
<1> DEFINE c == [b \in Assignments |-> IF b = a THEN [state |-> s, at |-> 0] ELSE R.claims[b]]
<1>3. Claimed(R, a, s, 0).claims = c
  <2>1. ~ (Exclusive /\ s # "PROVISIONAL" /\ Rivals(R, a) # {})
    OBVIOUS
  <2>2. Claimed(R, a, s, 0) = [R EXCEPT !.claims = c]
    BY <2>1 DEF Claimed
  <2>. QED BY <1>1, <2>2 DEF Registries
<1>. QED BY <1>2, <1>3

\* A vehicle is bound, or bound again, with a provisional claim.
LEMMA BoundFact ==
  ASSUME NEW R, Sound(R), \A b \in Assignments : R.claims[b].at = 0, NEW a \in Assignments,
         NEW bind \in Bindings, Bindable(R, a, bind), R.claims[a].state # "TERMINATED",
         NEW Q, Q = AfterBind(R, a, bind, "PROVISIONAL", 0)
  PROVE  /\ Sound(Q) /\ Q.binding = [R.binding EXCEPT ![a] = bind]
         /\ \A b \in Assignments : Q.claims[b].at = 0
         /\ Q.claims[a].state = "PROVISIONAL"
         /\ \A b \in Assignments \ {a} : Q.claims[b] = R.claims[b]
<1> DEFINE routed == [R EXCEPT !.binding[a] = bind]
<1>1. 0 \in Times /\ "PROVISIONAL" \in ActiveStates /\ WellFormed(R) /\ R \in Registries
  BY RegistryAssumption DEF Sound, WellFormed, Times, ActiveStates
<1>2. Sound(Q)
  BY <1>1, BindSound
<1>3. routed.claims = R.claims /\ routed.binding = [R.binding EXCEPT ![a] = bind] /\ routed.binding[a] = bind
  BY <1>1 DEF Registries
<1>4. bind # Unbound
  BY RegistryAssumption DEF Bindings
<1> HIDE DEF routed
<1>5. Bound(routed, a) /\ Claimable(routed, a, 0)
  BY <1>3, <1>4 DEF Bound, Claimable
<1>6. Q = Claimed(routed, a, "PROVISIONAL", 0)
  BY <1>5 DEF AfterBind, routed
<1> DEFINE c == [b \in Assignments |-> IF b = a THEN [state |-> "PROVISIONAL", at |-> 0] ELSE R.claims[b]]
<1>7. Q.binding = routed.binding /\ Q.claims = c
  <2>1. Q = [routed EXCEPT !.claims = c]
    BY <1>3, <1>6 DEF Claimed
  <2>2. [routed EXCEPT !.claims = c].binding = routed.binding /\ [routed EXCEPT !.claims = c].claims = c
    BY <1>1 DEF routed, Registries
  <2>. QED BY <2>1, <2>2
<1>. QED BY <1>2, <1>3, <1>7

\* Under the invariant an open assignment has no rival: who else has a claim on
\* its target would be routed to it.
LEMMA NoRival ==
  ASSUME FleetInv, NEW a \in Routed, Bound(live, a), Exclusive
  PROVE  Rivals(live, a) = {}
<1> SUFFICES ASSUME NEW b \in Rivals(live, a) PROVE FALSE
  OBVIOUS
<1>1. /\ b \in Assignments /\ b # a /\ Bound(live, b) /\ Active(live, b)
      /\ live.binding[b].target = live.binding[a].target
  BY DEF Rivals, OnTarget
<1>2. record[b] \in Claiming
  BY <1>1 DEF FleetInv, RowInv, ClaimRow
<1>3. b \in Routed
  BY <1>1, <1>2 DEF Routed, Claiming, Startable
<1>4. plan[b].target = plan[a].target
  BY <1>1, <1>3 DEF FleetInv, RouteInv
<1>. QED BY <1>1, <1>3, <1>4 DEF FleetInv, RouteInv

\* What cancelling the agents of some assignments makes of the vehicles.
LEMMA CancelFact ==
  ASSUME FleetInv, NEW S \in SUBSET Routed, NEW ag \in [Uavs -> AgentStates], NEW f \in CancelOutcomes(S, ag)
  PROVE  /\ DOMAIN f = S /\ \A a \in S : f[a] \in CancelResults(ag[plan[a].uav])
         /\ AgentsAfter(f, ag) \in [Uavs -> AgentStates]
         /\ \A a \in Routed : AgentsAfter(f, ag)[plan[a].uav] =
              IF a \in S THEN AfterCancel(ag[plan[a].uav], f[a]) ELSE ag[plan[a].uav]
         /\ \A u \in Uavs : RouteOn(u) = {} => AgentsAfter(f, ag)[u] = ag[u]
         /\ \A u \in Uavs : AgentsAfter(f, ag)[u] # ag[u] => AgentsAfter(f, ag)[u] \in {"SHUTDOWN", "FAILED"}
<1>1. /\ DOMAIN f = S
      /\ \A a \in S : f[a] \in CancelResults(ag[plan[a].uav]) /\ f[a] \in {"SHUTDOWN", "FAILED", "raised"}
  BY DEF CancelOutcomes
<1>2. \A a \in Routed : /\ plan[a].uav \in Uavs /\ RouteOn(plan[a].uav) = {a}
                        /\ FirstOf(RouteOn(plan[a].uav)) = a
  BY RouteFact DEF FleetInv
<1>3. \A a \in Routed : AgentsAfter(f, ag)[plan[a].uav] =
              IF a \in S THEN AfterCancel(ag[plan[a].uav], f[a]) ELSE ag[plan[a].uav]
  BY <1>1, <1>2 DEF AgentsAfter
<1>4. \A u \in Uavs : RouteOn(u) = {} => AgentsAfter(f, ag)[u] = ag[u]
  BY DEF AgentsAfter
<1>5. \A u \in Uavs : RouteOn(u) # {} => \E a \in Routed : plan[a].uav = u
  BY DEF RouteOn
<1>6. {"SHUTDOWN", "FAILED"} \subseteq AgentStates
  BY DEF AgentStates, Airborne, AgentTerminal
<1>7. \A u \in Uavs : /\ AgentsAfter(f, ag)[u] \in AgentStates
                      /\ AgentsAfter(f, ag)[u] # ag[u] => AgentsAfter(f, ag)[u] \in {"SHUTDOWN", "FAILED"}
  BY <1>1, <1>3, <1>4, <1>5, <1>6 DEF AfterCancel
<1>8. AgentsAfter(f, ag) = [u \in Uavs |-> AgentsAfter(f, ag)[u]]
  BY DEF AgentsAfter
<1>. QED BY <1>1, <1>3, <1>4, <1>7, <1>8

-----------------------------------------------------------------------------
(* Steps that publish nothing: the routes stay, and what happens to an       *)
(* assignment is judged by its record, its agent and its claim.              *)

MissionTyped ==
  /\ record \in [Assignments -> RecordStates] /\ agent \in [Uavs -> AgentStates]
  /\ landings \subseteq Assignments /\ reassign \subseteq Assignments /\ cancelRequested \in BOOLEAN

Keeps ==
  /\ plan' = plan /\ policy' = policy /\ replies' = replies /\ retired' = retired /\ former' = former
  /\ \A b \in Assignments : record'[b] = "none" <=> record[b] = "none"
  /\ \A u \in Uavs : RouteOn(u) = {} => agent'[u] = agent[u]
  /\ ClaimsInv' /\ live'.binding = live.binding

\* What no step may do to an assignment.
Moved(b) ==
  /\ record[b] \in Terminal => record'[b] = record[b]
  /\ Plain /\ record[b] = "CANCELING" => record'[b] \notin {"HOLDING", "CLAIM_HOLD"}

NoLaunch == cancelRequested /\ "same" \notin replies =>
              \A u \in Uavs : agent'[u] = "RUNNING" => agent[u] = "RUNNING"

FlightStep ==
  /\ MissionTyped' /\ Keeps /\ NoLaunch
  /\ \A b \in Assignments : RowInv(b)' /\ Moved(b)

\* Sets of routes and of claims in the next state.
LEMMA KeepsSets ==
  ASSUME Keeps
  PROVE  /\ Routed' = Routed /\ \A u : RouteOn(u)' = RouteOn(u)
         /\ Plain' = Plain /\ Tame' = Tame
         /\ \A b : Bound(live, b)' = Bound(live, b)
         /\ \A b \in Routed : Pilot(b)' = agent'[plan[b].uav]
<1>1. Routed' = Routed
  BY DEF Keeps, Routed
<1>. QED BY <1>1 DEF Keeps, RouteOn, Plain, Tame, Bound, Pilot

\* Such a step keeps the routes and the goals.
LEMMA KeepsRoutes ==
  ASSUME FleetInv, Keeps
  PROVE  RouteInv' /\ GoalInv'
<1>1. Routed' = Routed /\ (\A u : RouteOn(u)' = RouteOn(u)) /\ plan' = plan /\ retired' = retired /\ former' = former
      /\ live'.binding = live.binding /\ (\A b : Bound(live, b)' = Bound(live, b))
      /\ \A b \in Assignments : record'[b] = "none" <=> record[b] = "none"
  BY KeepsSets DEF Keeps
<1>2. \A u \in retired : u \in Uavs
  BY DEF FleetInv, FleetTypeOK
<1>3. \A u \in Uavs : RouteOn(u) = {} => agent'[u] = agent[u]
  BY DEF Keeps
<1>4. RouteInv'
  BY <1>1, <1>2, <1>3 DEF FleetInv, RouteInv
<1>5. \A x : Serving(x)' = Serving(x) /\ Planned(x)' = Planned(x)
  BY <1>1 DEF Serving, Planned
<1>6. GoalInv'
  BY <1>1, <1>5 DEF FleetInv, GoalInv
<1>. QED BY <1>4, <1>6

\* An assignment to which nothing happens, but for a cancellation after its end.
LEMMA RowSame ==
  ASSUME FleetInv, Keeps, NEW b \in Assignments, record'[b] = record[b],
         b \in Routed => agent'[plan[b].uav] = agent[plan[b].uav],
         live'.claims[b].state = live.claims[b].state,
         b \in landings' <=> b \in landings,
         cancelRequested' = cancelRequested \/ record[b] \in Terminal \cup {"none"}
  PROVE  RowInv(b)' /\ Moved(b)
<1>1. /\ Routed' = Routed /\ Plain' = Plain /\ Tame' = Tame /\ policy' = policy /\ replies' = replies
      /\ b \in Routed => Pilot(b)' = Pilot(b)
  BY KeepsSets DEF Keeps, Pilot
<1>2. RowInv(b)
  BY DEF FleetInv
<1>3. ClaimRow(b)'
  BY <1>2 DEF RowInv, ClaimRow, Active
<1>4. FlightRow(b)'
  BY <1>1, <1>2 DEF RowInv, FlightRow
<1>5. Moved(b)
  BY DEF Moved
<1>6. b \in Assignments \ Routed => record[b] = "none"
  BY DEF Routed
<1>7. record[b] \in Terminal \cup {"none"} => record[b] \notin Startable /\ record[b] # "CANCELING"
  BY DEF Terminal, Startable
<1>8. LandingRow(b)'
  BY <1>1, <1>2, <1>6, <1>7 DEF RowInv, LandingRow
<1>. QED BY <1>3, <1>4, <1>5, <1>8 DEF RowInv

\* An assignment whose agent, in state s, is cancelled with result x: for good,
\* or since only this vehicle is to land.
LEMMA RowCanceled ==
  ASSUME FleetInv, Keeps, NEW b \in Routed, record[b] \notin Terminal,
         NEW s \in AgentStates \ {"SUCCEEDED"}, b \in landings /\ Tame => s = "SHUTDOWN",
         NEW x \in CancelResults(s), record'[b] = RecordAfter(x),
         agent'[plan[b].uav] = AfterCancel(s, x),
         live'.claims[b].state \in {live.claims[b].state, "RELEASED"},
         live'.claims[b].state = "RELEASED" => live.claims[b].state # "UNCLAIMED",
         x # "SHUTDOWN" => ~Active(live', b),
         \/ (b \in landings' <=> b \in landings) /\ (Plain => cancelRequested')
         \/ (b \in landings' <=> x = "SHUTDOWN") /\ (replies = {} \/ "fails" \in replies \/ "handoff" \in replies)
  PROVE  RowInv(b)' /\ Moved(b)
<1>1. /\ Routed' = Routed /\ Plain' = Plain /\ Tame' = Tame /\ policy' = policy /\ replies' = replies
      /\ Pilot(b)' = AfterCancel(s, x)
  BY KeepsSets DEF Keeps, Pilot
<1>2. RowInv(b) /\ b \in Assignments /\ record[b] # "none"
  BY DEF FleetInv, Routed
<1>3. \/ x = "SHUTDOWN" /\ s \in {"RUNNING", "LANDING"} /\ Pilot(b)' = "SHUTDOWN" /\ record'[b] = "CANCELING"
      \/ x = "FAILED" /\ s = "RUNNING" /\ Pilot(b)' = "FAILED" /\ record'[b] = "FAILED"
      \/ x = "raised" /\ s \notin {"RUNNING", "LANDING"} /\ Pilot(b)' = s /\ record'[b] = "FAILED"
  BY <1>1 DEF CancelResults, AfterCancel, RecordAfter
<1>4. Moved(b)
  BY <1>3 DEF Moved
<1>5. ClaimRow(b)'
  <2>1. live.claims[b].state # "TERMINATED" /\ (live.claims[b].state # "UNCLAIMED" \/ record[b] = "REASSIGNMENT_REQUIRED")
    BY <1>2 DEF RowInv, ClaimRow, Terminal
  <2>2. record[b] # "REASSIGNMENT_REQUIRED"
    BY DEF Terminal
  <2>. QED BY <1>2, <1>3, <2>1, <2>2 DEF ClaimRow, Claiming
<1>6. FlightRow(b)'
  BY <1>1, <1>3 DEF FlightRow, Startable
<1>7. LandingRow(b)'
  BY <1>1, <1>2, <1>3 DEF RowInv, LandingRow, Tame, Terminal, Startable
<1>. QED BY <1>4, <1>5, <1>6, <1>7 DEF RowInv

\* One vehicle is brought down, and its claim given back or kept.
LEMMA LandingStep ==
  ASSUME FleetInv, NEW a \in Routed, record[a] \notin Terminal,
         NEW s \in AgentStates \ {"SUCCEEDED"}, a \in landings /\ Tame => s = "SHUTDOWN",
         s = "RUNNING" => Pilot(a) = "RUNNING",
         replies = {} \/ "fails" \in replies \/ "handoff" \in replies,
         live' = Released(live, {a}) \/ (live' = live /\ ~Active(live, a)),
         UNCHANGED <<plan, retired, former, fixedVars>>,
         BeginLanding(a, [agent EXCEPT ![plan[a].uav] = s])
  PROVE  FlightStep /\ \A b \in Assignments \ {a} : record'[b] = record[b]
<1> DEFINE ag == [agent EXCEPT ![plan[a].uav] = s]
<1>0. /\ a \in Assignments /\ plan[a].uav \in Uavs /\ record[a] # "none" /\ record \in [Assignments -> RecordStates]
      /\ agent \in [Uavs -> AgentStates] /\ ag \in [Uavs -> AgentStates] /\ ag[plan[a].uav] = s
      /\ RouteInv /\ FleetTypeOK /\ Sound(live) /\ staged = NoStage /\ \A b \in Assignments : live.claims[b].at = 0
  BY RouteFact DEF FleetInv, FleetTypeOK, ClaimsInv
<1>1. PICK f \in CancelOutcomes({a}, ag) :
        /\ agent' = AgentsAfter(f, ag)
        /\ record' = [record EXCEPT ![a] = RecordAfter(f[a])]
        /\ landings' = (landings \cup {a}) \ Ended(f)
        /\ reassign' = reassign \ {a}
        /\ UNCHANGED cancelRequested
  BY DEF BeginLanding
<1>2. UNCHANGED <<plan, retired, former, policy, replies, staged, cancelRequested>>
  BY <1>1 DEF fixedVars
<1> HIDE DEF ag
<1>3. /\ DOMAIN f = {a} /\ f[a] \in CancelResults(s)
      /\ agent' \in [Uavs -> AgentStates]
      /\ agent'[plan[a].uav] = AfterCancel(s, f[a])
      /\ \A b \in Routed \ {a} : agent'[plan[b].uav] = ag[plan[b].uav]
      /\ \A u \in Uavs : RouteOn(u) = {} => agent'[u] = ag[u]
      /\ \A u \in Uavs : agent'[u] # ag[u] => agent'[u] \in {"SHUTDOWN", "FAILED"}
  <2>1. {a} \in SUBSET Routed
    OBVIOUS
  <2>2. f \in CancelOutcomes({a}, ag) /\ ag \in [Uavs -> AgentStates]
    BY <1>0, <1>1
  <2>3. /\ DOMAIN f = {a} /\ \A b \in {a} : f[b] \in CancelResults(ag[plan[b].uav])
        /\ AgentsAfter(f, ag) \in [Uavs -> AgentStates]
        /\ \A b \in Routed : AgentsAfter(f, ag)[plan[b].uav] =
             IF b \in {a} THEN AfterCancel(ag[plan[b].uav], f[b]) ELSE ag[plan[b].uav]
        /\ \A u \in Uavs : RouteOn(u) = {} => AgentsAfter(f, ag)[u] = ag[u]
        /\ \A u \in Uavs : AgentsAfter(f, ag)[u] # ag[u] => AgentsAfter(f, ag)[u] \in {"SHUTDOWN", "FAILED"}
    BY <2>1, <2>2, CancelFact, Zenon
  <2>. QED BY <1>0, <1>1, <2>3
<1>4. /\ \A b \in Routed \ {a} : ag[plan[b].uav] = agent[plan[b].uav]
      /\ \A u \in Uavs : RouteOn(u) = {} => ag[u] = agent[u]
      /\ \A u \in Uavs : ag[u] = "RUNNING" => agent[u] = "RUNNING"
  <2>1. \A b \in Routed \ {a} : plan[b].uav # plan[a].uav /\ plan[b].uav \in Uavs
    BY <1>0, RouteFact DEF RouteInv
  <2>2. a \in RouteOn(plan[a].uav)
    BY DEF RouteOn
  <2>. QED BY <1>0, <2>1, <2>2 DEF ag, Pilot
<1>5. RecordAfter(f[a]) \in {"CANCELING", "FAILED"} /\ {"CANCELING", "FAILED"} \subseteq RecordStates
  BY DEF RecordAfter, RecordStates, Terminal
<1>6. MissionTyped'
  BY <1>0, <1>1, <1>3, <1>5 DEF MissionTyped, FleetTypeOK
<1>7. /\ ClaimsInv' /\ live'.binding = live.binding
      /\ \A b \in Assignments \ {a} : live'.claims[b] = live.claims[b]
      /\ live'.claims[a].state \in {live.claims[a].state, "RELEASED"}
      /\ live'.claims[a].state = "RELEASED" => live.claims[a].state # "UNCLAIMED"
      /\ ~Active(live', a)
  <2>1. CASE live' = live /\ ~Active(live, a)
    <3>1. ClaimsInv' /\ ~Active(live', a)
      BY <1>0, <1>2, <2>1 DEF ClaimsInv, Active
    <3>. QED BY <2>1, <3>1
  <2>2. CASE live' = Released(live, {a})
    <3>1. /\ Sound(live') /\ live'.binding = live.binding /\ \A b \in Assignments : live'.claims[b].at = 0
          /\ \A b \in Assignments \ {a} : live'.claims[b] = live.claims[b]
          /\ live'.claims[a].state =
               IF live.claims[a].state \in {"UNCLAIMED", "TERMINATED"} THEN live.claims[a].state ELSE "RELEASED"
      BY <1>0, <2>2, ReleasedFact
    <3>2. ~Active(live', a)
      BY <3>1 DEF Active, ActiveStates, HolderStates
    <3>. QED BY <1>0, <1>2, <3>1, <3>2 DEF ClaimsInv, Sound, WellFormed, OneHolderIn, OneAssignmentIn
  <2>. QED BY <2>1, <2>2
<1>8. Keeps
  BY <1>0, <1>1, <1>2, <1>3, <1>4, <1>5, <1>7 DEF Keeps
<1>9. a \in landings' <=> f[a] = "SHUTDOWN"
  BY <1>1, <1>3 DEF Ended
<1>10. RowInv(a)' /\ Moved(a)
  BY <1>0, <1>1, <1>3, <1>7, <1>8, <1>9, RowCanceled
<1>11. ASSUME NEW b \in Assignments, b # a PROVE RowInv(b)' /\ Moved(b) /\ record'[b] = record[b]
  <2>1. record'[b] = record[b] /\ (b \in landings' <=> b \in landings)
    BY <1>0, <1>1, <1>3, <1>11 DEF Ended
  <2>2. b \in Routed => agent'[plan[b].uav] = agent[plan[b].uav]
    BY <1>3, <1>4, <1>11
  <2>. QED BY <1>2, <1>7, <1>8, <1>11, <2>1, <2>2, RowSame
<1>12. NoLaunch
  BY <1>3, <1>4 DEF NoLaunch
<1>. QED BY <1>6, <1>8, <1>10, <1>11, <1>12 DEF FlightStep

\* A failure that waits to be replanned.
LEMMA AwaitStep ==
  ASSUME FleetInv, NEW a \in Routed, record[a] \notin Terminal,
         NEW s \in AgentStates \ {"SUCCEEDED"}, a \in landings /\ Tame => s = "SHUTDOWN",
         s = "RUNNING" => Pilot(a) = "RUNNING",
         UNCHANGED <<plan, retired, former, fixedVars>>,
         AwaitReplan(a, [agent EXCEPT ![plan[a].uav] = s])
  PROVE  FlightStep /\ \A b \in Assignments \ {a} : record'[b] = record[b]
<1>0. /\ a \in Assignments /\ plan[a].uav \in Uavs /\ record[a] # "none" /\ record \in [Assignments -> RecordStates]
      /\ agent \in [Uavs -> AgentStates] /\ landings \subseteq Assignments /\ reassign \subseteq Assignments
      /\ cancelRequested \in BOOLEAN
      /\ RouteInv /\ FleetTypeOK /\ Sound(live) /\ staged = NoStage /\ \A b \in Assignments : live.claims[b].at = 0
  BY RouteFact DEF FleetInv, FleetTypeOK, ClaimsInv
<1>1. /\ record' = [record EXCEPT ![a] = "WAITING_REASSIGNMENT"]
      /\ live' = Released(live, {a})
      /\ reassign' = reassign \cup {a}
      /\ agent' = [agent EXCEPT ![plan[a].uav] = s]
      /\ UNCHANGED <<plan, retired, former, policy, replies, staged, landings, cancelRequested>>
  BY DEF AwaitReplan, fixedVars
<1>2. "WAITING_REASSIGNMENT" \in RecordStates /\ "WAITING_REASSIGNMENT" \notin Terminal
      /\ "WAITING_REASSIGNMENT" \notin Startable
  BY DEF RecordStates, Terminal, Startable
<1>3. MissionTyped'
  BY <1>0, <1>1, <1>2 DEF MissionTyped
<1>4. /\ Sound(live') /\ live'.binding = live.binding /\ \A b \in Assignments : live'.claims[b].at = 0
      /\ \A b \in Assignments \ {a} : live'.claims[b] = live.claims[b]
      /\ live'.claims[a].state =
           IF live.claims[a].state \in {"UNCLAIMED", "TERMINATED"} THEN live.claims[a].state ELSE "RELEASED"
  BY <1>0, <1>1, ReleasedFact
<1>5. ClaimsInv' /\ ~Active(live', a)
  BY <1>0, <1>1, <1>4 DEF ClaimsInv, Sound, WellFormed, OneHolderIn, OneAssignmentIn,
                          Active, ActiveStates, HolderStates
<1>6. /\ \A b \in Routed \ {a} : agent'[plan[b].uav] = agent[plan[b].uav]
      /\ \A u \in Uavs : RouteOn(u) = {} => agent'[u] = agent[u]
      /\ \A u \in Uavs : agent'[u] = "RUNNING" => agent[u] = "RUNNING"
      /\ agent'[plan[a].uav] = s
  <2>1. \A b \in Routed \ {a} : plan[b].uav # plan[a].uav /\ plan[b].uav \in Uavs
    BY <1>0, RouteFact DEF RouteInv
  <2>2. a \in RouteOn(plan[a].uav)
    BY DEF RouteOn
  <2>. QED BY <1>0, <1>1, <2>1, <2>2 DEF Pilot
<1>7. Keeps
  BY <1>0, <1>1, <1>4, <1>5, <1>6 DEF Keeps
<1>8. RowInv(a)' /\ Moved(a)
  <2>1. RowInv(a) /\ record'[a] = "WAITING_REASSIGNMENT"
    BY <1>0, <1>1 DEF FleetInv
  <2>2. /\ Routed' = Routed /\ Plain' = Plain /\ Tame' = Tame /\ policy' = policy /\ replies' = replies
        /\ Pilot(a)' = s
    BY <1>1, <1>6, <1>7, KeepsSets
  <2>3. ClaimRow(a)'
    BY <1>0, <1>1, <1>4, <1>5, <2>1 DEF RowInv, ClaimRow, Terminal
  <2>4. FlightRow(a)'
    BY <1>2, <2>1, <2>2 DEF FlightRow
  <2>5. LandingRow(a)'
    BY <1>0, <1>1, <1>2, <2>1, <2>2 DEF RowInv, LandingRow
  <2>. QED BY <1>2, <2>1, <2>3, <2>4, <2>5 DEF RowInv, Moved
<1>9. ASSUME NEW b \in Assignments, b # a PROVE RowInv(b)' /\ Moved(b) /\ record'[b] = record[b]
  BY <1>0, <1>1, <1>4, <1>6, <1>7, <1>9, RowSame
<1>10. NoLaunch
  BY <1>6 DEF NoLaunch
<1>. QED BY <1>3, <1>7, <1>8, <1>9, <1>10 DEF FlightStep

\* A failure that is final, and may cancel the other vehicles.
LEMMA GiveUpStep ==
  ASSUME FleetInv, NEW a \in Routed, record[a] \notin Terminal,
         NEW s \in AgentStates \ {"SUCCEEDED"}, a \in landings /\ Tame => s = "SHUTDOWN",
         s = "RUNNING" => Pilot(a) = "RUNNING",
         UNCHANGED <<plan, retired, former, fixedVars>>,
         GiveUp(a, [agent EXCEPT ![plan[a].uav] = s])
  PROVE  FlightStep /\ (Plain => \A b \in Assignments \ {a} : record'[b] = record[b])
<1> DEFINE ag == [agent EXCEPT ![plan[a].uav] = s]
           unstarted == {b \in CancelOthers(a) : record[b] = "PENDING"}
           S == CancelOthers(a) \ unstarted
<1>0. /\ a \in Assignments /\ plan[a].uav \in Uavs /\ record[a] # "none" /\ record \in [Assignments -> RecordStates]
      /\ agent \in [Uavs -> AgentStates] /\ ag \in [Uavs -> AgentStates] /\ ag[plan[a].uav] = s
      /\ landings \subseteq Assignments /\ reassign \subseteq Assignments /\ cancelRequested \in BOOLEAN
      /\ RouteInv /\ FleetTypeOK /\ Sound(live) /\ staged = NoStage /\ \A b \in Assignments : live.claims[b].at = 0
  BY RouteFact DEF FleetInv, FleetTypeOK, ClaimsInv
<1>1. PICK f \in CancelOutcomes(S, ag) :
        /\ agent' = AgentsAfter(f, ag)
        /\ record' = [b \in Assignments |->
                CASE b = a            -> "FAILED"
                  [] b \in unstarted  -> "CANCELED"
                  [] b \in DOMAIN f   -> RecordAfter(f[b])
                  [] OTHER            -> record[b]]
        /\ live' = Released(live, {a} \cup unstarted \cup Ended(f))
  BY DEF GiveUp
<1>2. /\ cancelRequested' = (cancelRequested \/ policy = "CANCEL_FLEET") /\ policy # "REPORT_AND_REPLAN"
      /\ UNCHANGED <<plan, retired, former, policy, replies, staged, landings, reassign>>
  BY DEF GiveUp, fixedVars
<1>3. /\ S \in SUBSET Routed /\ unstarted \in SUBSET Routed /\ a \notin S /\ a \notin unstarted
      /\ \A b \in S : record[b] \notin Terminal /\ b \notin unstarted
      /\ \A b \in unstarted : record[b] = "PENDING"
      /\ policy # "CANCEL_FLEET" => S = {} /\ unstarted = {}
      /\ policy = "CANCEL_FLEET" => \A b \in Assignments :
           b = a \/ b \in S \/ b \in unstarted \/ record[b] \in Terminal \cup {"none"}
  BY DEF CancelOthers, Routed
<1> HIDE DEF ag, unstarted, S
<1>4. /\ DOMAIN f = S /\ \A b \in S : f[b] \in CancelResults(ag[plan[b].uav])
      /\ agent' \in [Uavs -> AgentStates]
      /\ \A b \in Routed : agent'[plan[b].uav] =
           IF b \in S THEN AfterCancel(ag[plan[b].uav], f[b]) ELSE ag[plan[b].uav]
      /\ \A u \in Uavs : RouteOn(u) = {} => agent'[u] = ag[u]
      /\ \A u \in Uavs : agent'[u] # ag[u] => agent'[u] \in {"SHUTDOWN", "FAILED"}
  <2>1. f \in CancelOutcomes(S, ag)
    BY <1>1
  <2>2. /\ DOMAIN f = S /\ \A b \in S : f[b] \in CancelResults(ag[plan[b].uav])
        /\ AgentsAfter(f, ag) \in [Uavs -> AgentStates]
        /\ \A b \in Routed : AgentsAfter(f, ag)[plan[b].uav] =
             IF b \in S THEN AfterCancel(ag[plan[b].uav], f[b]) ELSE ag[plan[b].uav]
        /\ \A u \in Uavs : RouteOn(u) = {} => AgentsAfter(f, ag)[u] = ag[u]
        /\ \A u \in Uavs : AgentsAfter(f, ag)[u] # ag[u] => AgentsAfter(f, ag)[u] \in {"SHUTDOWN", "FAILED"}
    BY <1>0, <1>3, <2>1, CancelFact, Zenon
  <2>. QED BY <1>1, <2>2
<1>5. /\ \A b \in Routed \ {a} : ag[plan[b].uav] = agent[plan[b].uav]
      /\ \A u \in Uavs : RouteOn(u) = {} => ag[u] = agent[u]
      /\ \A u \in Uavs : ag[u] = "RUNNING" => agent[u] = "RUNNING"
  <2>1. \A b \in Routed \ {a} : plan[b].uav # plan[a].uav /\ plan[b].uav \in Uavs
    BY <1>0, RouteFact DEF RouteInv
  <2>2. a \in RouteOn(plan[a].uav)
    BY DEF RouteOn
  <2>. QED BY <1>0, <2>1, <2>2 DEF ag, Pilot
<1>6. \A x : RecordAfter(x) \in {"CANCELING", "FAILED"}
  BY DEF RecordAfter
<1>7. {"CANCELING", "FAILED", "CANCELED"} \subseteq RecordStates
  BY DEF RecordStates, Terminal
<1>8. /\ record'[a] = "FAILED" /\ \A b \in unstarted : record'[b] = "CANCELED"
      /\ \A b \in S : record'[b] = RecordAfter(f[b])
      /\ \A b \in Assignments : b # a /\ b \notin S /\ b \notin unstarted => record'[b] = record[b]
  <2>1. \A b \in unstarted \cup S : b \in Assignments
    BY <1>3 DEF Routed
  <2>. QED BY <1>0, <1>1, <1>3, <1>4, <2>1
<1>9. MissionTyped'
  <2>1. \A b \in Assignments : record'[b] \in RecordStates
    BY <1>0, <1>6, <1>7, <1>8
  <2>2. record' = [b \in Assignments |-> record'[b]]
    BY <1>1
  <2>3. record' \in [Assignments -> RecordStates]
    BY <2>1, <2>2
  <2>. QED BY <1>0, <1>2, <1>4, <2>3 DEF MissionTyped
<1>10. /\ ClaimsInv' /\ live'.binding = live.binding
       /\ \A b \in Assignments : live'.claims[b].state =
            IF (b = a \/ b \in unstarted \/ (b \in S /\ f[b] # "SHUTDOWN"))
               /\ live.claims[b].state \notin {"UNCLAIMED", "TERMINATED"}
            THEN "RELEASED" ELSE live.claims[b].state
  <2> DEFINE T == {a} \cup unstarted \cup Ended(f)
  <2>1. T \in SUBSET Assignments /\ \A b : b \in T <=> b = a \/ b \in unstarted \/ (b \in S /\ f[b] # "SHUTDOWN")
    BY <1>0, <1>3, <1>4 DEF Ended, Routed
  <2>2. live' = Released(live, T)
    BY <1>1
  <2> HIDE DEF T
  <2>3. /\ Sound(live') /\ live'.binding = live.binding /\ \A b \in Assignments : live'.claims[b].at = 0
        /\ \A b \in Assignments \ T : live'.claims[b] = live.claims[b]
        /\ \A b \in T : live'.claims[b].state =
             IF live.claims[b].state \in {"UNCLAIMED", "TERMINATED"} THEN live.claims[b].state ELSE "RELEASED"
    BY <1>0, <2>1, <2>2, ReleasedFact
  <2>4. ClaimsInv'
    BY <1>0, <1>2, <2>3 DEF ClaimsInv, Sound, WellFormed, OneHolderIn, OneAssignmentIn
  <2>. QED BY <2>1, <2>3, <2>4
<1>11. \A b \in Assignments : b = a \/ b \in unstarted \/ (b \in S /\ f[b] # "SHUTDOWN") => ~Active(live', b)
  BY <1>10 DEF Active, ActiveStates, HolderStates
<1>12. Keeps
  <2>1. \A b \in Assignments : record'[b] = "none" <=> record[b] = "none"
    BY <1>0, <1>3, <1>6, <1>8 DEF Routed
  <2>. QED BY <1>2, <1>4, <1>5, <1>10, <2>1 DEF Keeps
<1>13. /\ Routed' = Routed /\ Plain' = Plain /\ Tame' = Tame /\ policy' = policy /\ replies' = replies
       /\ \A b \in Routed : Pilot(b)' = agent'[plan[b].uav]
  BY <1>12, KeepsSets DEF Keeps
<1>14. \A b \in Assignments : b # a /\ b \notin S /\ b \notin unstarted => RowInv(b)' /\ Moved(b)
  <2> SUFFICES ASSUME NEW b \in Assignments, b # a, b \notin S, b \notin unstarted
               PROVE  RowInv(b)' /\ Moved(b)
    OBVIOUS
  <2>1. /\ record'[b] = record[b] /\ live'.claims[b].state = live.claims[b].state
        /\ b \in Routed => agent'[plan[b].uav] = agent[plan[b].uav]
    BY <1>4, <1>5, <1>8, <1>10
  <2>2. cancelRequested' = cancelRequested \/ record[b] \in Terminal \cup {"none"}
    BY <1>0, <1>2, <1>3
  <2>. QED BY <1>2, <1>12, <2>1, <2>2, RowSame
<1>15. RowInv(a)' /\ Moved(a)
  <2>1. RowInv(a) /\ record'[a] = "FAILED" /\ Pilot(a)' = s
    BY <1>0, <1>3, <1>4, <1>8, <1>13 DEF FleetInv
  <2>2. ClaimRow(a)'
    BY <1>0, <1>2, <1>10, <1>11, <2>1 DEF RowInv, ClaimRow, Terminal
  <2>3. FlightRow(a)'
    BY <1>2, <1>13, <2>1 DEF FlightRow, Startable
  <2>4. LandingRow(a)'
    BY <1>2, <1>13, <2>1 DEF RowInv, LandingRow, Startable, Terminal
  <2>. QED BY <2>1, <2>2, <2>3, <2>4 DEF RowInv, Moved
<1>16. ASSUME NEW b \in unstarted PROVE RowInv(b)' /\ Moved(b)
  <2>1. /\ RowInv(b) /\ b \in Assignments /\ b \in Routed /\ b # a /\ b \notin S
        /\ record[b] = "PENDING" /\ record'[b] = "CANCELED"
    BY <1>3, <1>8 DEF FleetInv, Routed
  <2>2. Pilot(b) = "IDLE" /\ Pilot(b)' = "IDLE"
    BY <1>4, <1>5, <1>13, <2>1 DEF RowInv, FlightRow, Startable, Pilot
  <2>3. ClaimRow(b)'
    BY <1>2, <1>10, <1>11, <1>16, <2>1 DEF RowInv, ClaimRow
  <2>4. FlightRow(b)'
    BY <1>2, <1>13, <2>1, <2>2 DEF FlightRow, Startable, Airborne
  <2>5. LandingRow(b)'
    BY <1>2, <1>13, <2>1, <2>2 DEF RowInv, LandingRow, Startable, Terminal
  <2>. QED BY <2>1, <2>3, <2>4, <2>5 DEF RowInv, Moved, Terminal
<1>17. ASSUME NEW b \in S PROVE RowInv(b)' /\ Moved(b)
  <2>1. /\ RowInv(b) /\ b \in Assignments /\ b \in Routed /\ b # a /\ record[b] \notin Terminal
        /\ record'[b] = RecordAfter(f[b]) /\ f[b] \in CancelResults(Pilot(b)) /\ Pilot(b) \in AgentStates
        /\ agent'[plan[b].uav] = AfterCancel(Pilot(b), f[b])
    BY <1>0, <1>3, <1>4, <1>5, <1>8, RouteFact DEF FleetInv, Routed, Pilot
  <2>2. Pilot(b) # "SUCCEEDED" /\ (b \in landings /\ Tame => Pilot(b) = "SHUTDOWN")
    BY <2>1 DEF RowInv, FlightRow, LandingRow, Terminal
  <2>3. Plain => cancelRequested'
    BY <1>3 DEF Plain
  <2>4. /\ live'.claims[b].state \in {live.claims[b].state, "RELEASED"}
        /\ live'.claims[b].state = "RELEASED" => live.claims[b].state # "UNCLAIMED"
        /\ f[b] # "SHUTDOWN" => ~Active(live', b)
    BY <1>10, <1>11, <1>17, <2>1
  <2>. QED BY <1>2, <1>12, <2>1, <2>2, <2>3, <2>4, RowCanceled
<1>18. NoLaunch
  BY <1>4, <1>5 DEF NoLaunch
<1>19. Plain => \A b \in Assignments \ {a} : record'[b] = record[b]
  BY <1>3, <1>8 DEF Plain
<1>. QED BY <1>9, <1>12, <1>14, <1>15, <1>16, <1>17, <1>18, <1>19 DEF FlightStep

\* A failure of one assignment, whatever the policy makes of it.
LEMMA FailStep ==
  ASSUME FleetInv, NEW a \in Routed, record[a] \notin Terminal,
         NEW s \in AgentStates \ {"SUCCEEDED"}, a \in landings /\ Tame => s = "SHUTDOWN",
         s = "RUNNING" => Pilot(a) = "RUNNING",
         UNCHANGED <<plan, retired, former, fixedVars>>,
         FailLocally(a, [agent EXCEPT ![plan[a].uav] = s])
  PROVE  FlightStep /\ (Plain => \A b \in Assignments \ {a} : record'[b] = record[b])
<1>1. CASE AwaitReplan(a, [agent EXCEPT ![plan[a].uav] = s])
  BY <1>1, AwaitStep
<1>2. CASE LandUnreplaced(a, [agent EXCEPT ![plan[a].uav] = s])
  <2>1. replies = {} /\ live' = Released(live, {a}) /\ BeginLanding(a, [agent EXCEPT ![plan[a].uav] = s])
    BY <1>2 DEF LandUnreplaced
  <2>. QED BY <2>1, LandingStep
<1>3. CASE GiveUp(a, [agent EXCEPT ![plan[a].uav] = s])
  BY <1>3, GiveUpStep
<1>. QED BY <1>1, <1>2, <1>3 DEF FailLocally

-----------------------------------------------------------------------------
(* Starts and visits.                                                       *)

\* A step about the assignment a, whose record comes to be r and its agent s.
Touched(a, r, s) ==
  /\ record' = [record EXCEPT ![a] = r] /\ agent' = [agent EXCEPT ![plan[a].uav] = s]
  /\ landings' \in {landings, landings \ {a}}
  /\ UNCHANGED <<plan, retired, former, policy, replies, staged, cancelRequested>> /\ reassign' \subseteq reassign
  /\ Sound(live') /\ live'.binding = live.binding /\ \A b \in Assignments : live'.claims[b].at = 0
  /\ \A b \in Assignments \ {a} : live'.claims[b] = live.claims[b]
  /\ cancelRequested /\ "same" \notin replies /\ s = "RUNNING" => Pilot(a) = "RUNNING"

\* A step about one assignment leaves the others alone.
LEMMA OneRow ==
  ASSUME FleetInv, NEW a \in Routed, NEW r \in RecordStates \ {"none"}, NEW s \in AgentStates,
         Touched(a, r, s)
  PROVE  /\ MissionTyped' /\ Keeps /\ NoLaunch
         /\ \A b \in Assignments \ {a} : RowInv(b)' /\ Moved(b) /\ record'[b] = record[b]
         /\ record'[a] = r /\ Pilot(a)' = s /\ RowInv(a) /\ a \in Assignments /\ record[a] # "none"
         /\ Routed' = Routed /\ Plain' = Plain /\ Tame' = Tame /\ policy' = policy /\ replies' = replies
<1>0. /\ a \in Assignments /\ plan[a].uav \in Uavs /\ record[a] # "none" /\ record \in [Assignments -> RecordStates]
      /\ agent \in [Uavs -> AgentStates] /\ landings \subseteq Assignments /\ reassign \subseteq Assignments
      /\ cancelRequested \in BOOLEAN /\ RouteInv /\ FleetTypeOK /\ staged = NoStage
  BY RouteFact DEF FleetInv, FleetTypeOK, ClaimsInv
<1>1. /\ record' = [record EXCEPT ![a] = r] /\ agent' = [agent EXCEPT ![plan[a].uav] = s]
      /\ landings' \in {landings, landings \ {a}}
      /\ UNCHANGED <<plan, retired, former, policy, replies, staged, cancelRequested>> /\ reassign' \subseteq reassign
      /\ Sound(live') /\ live'.binding = live.binding /\ \A b \in Assignments : live'.claims[b].at = 0
      /\ \A b \in Assignments \ {a} : live'.claims[b] = live.claims[b]
      /\ cancelRequested /\ "same" \notin replies /\ s = "RUNNING" => Pilot(a) = "RUNNING"
  BY DEF Touched
<1>2. MissionTyped'
  BY <1>0, <1>1 DEF MissionTyped
<1>3. ClaimsInv'
  BY <1>0, <1>1 DEF ClaimsInv, Sound, WellFormed, OneHolderIn, OneAssignmentIn
<1>4. /\ \A b \in Routed \ {a} : agent'[plan[b].uav] = agent[plan[b].uav]
      /\ \A u \in Uavs : RouteOn(u) = {} => agent'[u] = agent[u]
      /\ agent'[plan[a].uav] = s
      /\ \A u \in Uavs : agent'[u] # agent[u] => u = plan[a].uav
  <2>1. \A b \in Routed \ {a} : plan[b].uav # plan[a].uav /\ plan[b].uav \in Uavs
    BY <1>0, RouteFact DEF RouteInv
  <2>2. a \in RouteOn(plan[a].uav)
    BY DEF RouteOn
  <2>. QED BY <1>0, <1>1, <2>1, <2>2
<1>5. Keeps
  BY <1>0, <1>1, <1>3, <1>4 DEF Keeps
<1>6. NoLaunch
  BY <1>1, <1>4 DEF NoLaunch, Pilot
<1>7. ASSUME NEW b \in Assignments, b # a PROVE RowInv(b)' /\ Moved(b) /\ record'[b] = record[b]
  <2>1. record'[b] = record[b] /\ (b \in landings' <=> b \in landings) /\ live'.claims[b].state = live.claims[b].state
    BY <1>0, <1>1, <1>7
  <2>. QED BY <1>1, <1>4, <1>5, <1>7, <2>1, RowSame
<1>8. record'[a] = r /\ Pilot(a)' = s /\ RowInv(a)
  BY <1>0, <1>1, <1>4 DEF Pilot, FleetInv
<1>9. Routed' = Routed /\ Plain' = Plain /\ Tame' = Tame
  BY <1>5, KeepsSets
<1>. QED BY <1>0, <1>1, <1>2, <1>5, <1>6, <1>7, <1>8, <1>9

\* The live registry under the invariant.
LEMMA LiveFact ==
  ASSUME FleetInv
  PROVE  /\ Sound(live) /\ staged = NoStage /\ \A b \in Assignments : live.claims[b].at = 0
         /\ RouteInv /\ FleetTypeOK
         /\ \A a \in Assignments : Active(live, a) => live.claims[a].state \notin {"UNCLAIMED", "TERMINATED", "RELEASED"}
BY DEF FleetInv, ClaimsInv, Active, ActiveStates, HolderStates

\* An agent is started, or its start fails.
LEMMA LaunchStep ==
  ASSUME FleetInv, NEW a \in Routed, record[a] \in Startable,
         UNCHANGED <<plan, retired, former, fixedVars>>, LaunchAgent(a)
  PROVE  FlightStep /\ fleet' \in {fleet, "RUNNING"}
<1>0. a \in Assignments /\ record[a] \notin Terminal /\ RowInv(a) /\ Pilot(a) = "IDLE"
  BY DEF FleetInv, RowInv, FlightRow, Routed, Startable, Terminal
<1>1. CASE /\ record' = [record EXCEPT ![a] = "RUNNING"]
           /\ agent' = [agent EXCEPT ![plan[a].uav] = "RUNNING"]
           /\ fleet' = "RUNNING"
           /\ UNCHANGED <<live, landings, reassign, cancelRequested>>
  <2>1. "RUNNING" \in RecordStates \ {"none"} /\ "RUNNING" \in AgentStates
        /\ "RUNNING" \notin Startable \cup Terminal \cup {"SUCCEEDED", "CANCELED"}
    BY DEF RecordStates, AgentStates, Airborne, Startable, Terminal
  <2>2. ~ (cancelRequested /\ "same" \notin replies)
    BY <1>0 DEF RowInv, LandingRow
  <2>3. /\ MissionTyped' /\ Keeps /\ NoLaunch
        /\ \A b \in Assignments \ {a} : RowInv(b)' /\ Moved(b)
        /\ record'[a] = "RUNNING" /\ Pilot(a)' = "RUNNING"
        /\ Routed' = Routed /\ Plain' = Plain /\ Tame' = Tame /\ policy' = policy /\ replies' = replies
    <3>1. Touched(a, "RUNNING", "RUNNING")
      BY <1>1, <2>1, <2>2, LiveFact DEF Touched, fixedVars
    <3>. QED BY <2>1, <3>1, OneRow
  <2>4. ClaimRow(a)'
    BY <1>0, <1>1, <2>3 DEF RowInv, ClaimRow, Active, Claiming, Startable
  <2>5. FlightRow(a)'
    BY <2>1, <2>3 DEF FlightRow
  <2>6. LandingRow(a)'
    BY <1>0, <1>1, <2>1, <2>2, <2>3 DEF RowInv, LandingRow, Plain
  <2>7. Moved(a)
    BY <1>0, <2>3 DEF Moved
  <2>. QED BY <1>1, <2>3, <2>4, <2>5, <2>6, <2>7 DEF FlightStep, RowInv
<1>2. CASE /\ \E s \in FailedStarts : FailLocally(a, [agent EXCEPT ![plan[a].uav] = s])
           /\ UNCHANGED fleet
  <2>1. PICK s \in FailedStarts : FailLocally(a, [agent EXCEPT ![plan[a].uav] = s])
    BY <1>2
  <2>2. s \in AgentStates \ {"SUCCEEDED"} /\ s # "RUNNING"
    BY DEF FailedStarts, AgentStates, Airborne, AgentTerminal
  <2>3. ~ (a \in landings /\ Tame)
    BY <1>0 DEF RowInv, LandingRow
  <2>. QED BY <1>0, <1>2, <2>1, <2>2, <2>3, FailStep
<1>. QED BY <1>1, <1>2 DEF LaunchAgent

\* The state of an agent is adopted, with a registry R that differs from the
\* live one only if its vehicle has locked its target.
LEMMA AdoptStep ==
  ASSUME FleetInv, NEW a \in Routed, record[a] \notin Terminal \cup {"WAITING_REASSIGNMENT"},
         a \notin landings, NEW s \in TickResults(Pilot(a)),
         NEW R, Sound(R), R.binding = live.binding, \A b \in Assignments : R.claims[b].at = 0,
         \A b \in Assignments \ {a} : R.claims[b] = live.claims[b],
         R.claims[a].state \notin {"UNCLAIMED", "TERMINATED"}, R = live \/ s = "RUNNING",
         UNCHANGED <<plan, retired, former, fixedVars>>,
         Adopt(a, [agent EXCEPT ![plan[a].uav] = s], R)
  PROVE  FlightStep /\ (Plain => \A b \in Assignments \ {a} : record'[b] = record[b])
<1> DEFINE ag == [agent EXCEPT ![plan[a].uav] = s]
<1>0. /\ a \in Assignments /\ plan[a].uav \in Uavs /\ ag[plan[a].uav] = s /\ Pilot(a) \in AgentStates
      /\ record[a] # "none"
  BY RouteFact, LiveFact DEF FleetTypeOK
<1>1. /\ s \in Airborne \cup AgentTerminal /\ Pilot(a) \in Airborne
      /\ s = "RUNNING" \/ s = "SUCCEEDED" => Pilot(a) = "RUNNING"
      /\ s = "LANDING" => Pilot(a) \in {"RUNNING", "LANDING"}
      /\ s = "CANCELED" => Pilot(a) = "SHUTDOWN"
  BY DEF TickResults, Airborne, AgentTerminal
<1>2. s \in AgentStates
  BY <1>1 DEF AgentStates
<1>3. CASE s = "FAILED" \/ (s = "CANCELED" /\ ~cancelRequested)
  <2>1. FailLocally(a, ag)
    BY <1>0, <1>3 DEF Adopt
  <2>2. s # "SUCCEEDED" /\ s # "RUNNING"
    BY <1>3
  <2>. QED BY <1>2, <2>1, <2>2, FailStep
<1>4. CASE ~ (s = "FAILED" \/ (s = "CANCELED" /\ ~cancelRequested))
  <2>0. PICK r : r = IF s \in AgentTerminal THEN s ELSE IF cancelRequested THEN "CANCELING" ELSE "RUNNING"
    OBVIOUS
  <2>1. /\ agent' = ag /\ record' = [record EXCEPT ![a] = r]
        /\ live' = CASE s = "SUCCEEDED" -> Terminated(R, a)
                     [] s = "CANCELED"  -> Released(R, {a})
                     [] OTHER           -> R
        /\ UNCHANGED <<landings, reassign, cancelRequested>>
    BY <1>0, <1>4, <2>0 DEF Adopt
  <2> HIDE DEF ag
  <2>2. /\ r \in {"SUCCEEDED", "CANCELED", "CANCELING", "RUNNING"}
        /\ r = "SUCCEEDED" <=> s = "SUCCEEDED"
        /\ r = "CANCELED" <=> s = "CANCELED"
        /\ r = "CANCELING" => cancelRequested /\ s \in Airborne
        /\ r = "RUNNING" => ~cancelRequested /\ s \in Airborne
        /\ s = "CANCELED" => cancelRequested
    BY <1>1, <1>4, <2>0 DEF AgentTerminal, Airborne
  <2>3. r \in RecordStates \ {"none"}
    BY <2>2 DEF RecordStates, Terminal
  <2>4. /\ Sound(live') /\ live'.binding = live.binding /\ \A b \in Assignments : live'.claims[b].at = 0
        /\ \A b \in Assignments \ {a} : live'.claims[b] = live.claims[b]
        /\ r = "SUCCEEDED" => live'.claims[a].state = "TERMINATED"
        /\ r = "CANCELED" => live'.claims[a].state = "RELEASED"
        /\ r \in {"CANCELING", "RUNNING"} => live'.claims[a].state = R.claims[a].state
    <3>1. CASE s = "SUCCEEDED"
      <4>1. live' = Terminated(R, a)
        BY <2>1, <3>1
      <4>. QED BY <1>0, <2>2, <3>1, <4>1, TerminatedFact
    <3>2. CASE s = "CANCELED"
      <4>1. live' = Released(R, {a}) /\ {a} \in SUBSET Assignments
        BY <1>0, <2>1, <3>2
      <4>. QED BY <1>0, <2>2, <3>2, <4>1, ReleasedFact
    <3>3. CASE s \notin {"SUCCEEDED", "CANCELED"}
      <4>1. live' = R
        BY <2>1, <3>3
      <4>. QED BY <2>2, <3>3, <4>1
    <3>. QED BY <3>1, <3>2, <3>3
  <2>5. /\ MissionTyped' /\ Keeps /\ NoLaunch
        /\ \A b \in Assignments \ {a} : RowInv(b)' /\ Moved(b) /\ record'[b] = record[b]
        /\ record'[a] = r /\ Pilot(a)' = s /\ RowInv(a)
        /\ Routed' = Routed /\ Plain' = Plain /\ Tame' = Tame /\ policy' = policy /\ replies' = replies
    <3>1. Touched(a, r, s)
      BY <1>1, <2>1, <2>4 DEF Touched, fixedVars, ag
    <3>. QED BY <1>2, <2>3, <3>1, OneRow
  <2>6. ClaimRow(a)'
    BY <2>1, <2>2, <2>4, <2>5 DEF ClaimRow, Active, ActiveStates, HolderStates, Claiming
  <2>7. FlightRow(a)'
    BY <1>1, <2>2, <2>5 DEF FlightRow, Startable, Terminal, Airborne
  <2>8. LandingRow(a)'
    <3>1. Plain /\ cancelRequested => record[a] = "CANCELING" /\ Pilot(a) = "SHUTDOWN"
      BY <1>0, <2>5 DEF RowInv, LandingRow
    <3>2. Plain /\ cancelRequested => s \in {"SHUTDOWN", "CANCELED"}
      BY <1>4, <3>1 DEF TickResults
    <3>. QED BY <2>1, <2>2, <2>5, <3>2 DEF LandingRow, Startable, Terminal, Airborne
  <2>9. Moved(a)
    BY <2>2, <2>5 DEF Moved
  <2>. QED BY <2>5, <2>6, <2>7, <2>8, <2>9 DEF FlightStep, RowInv
<1>. QED BY <1>3, <1>4

\* A vehicle that is being brought down is visited.
LEMMA AdoptLandingStep ==
  ASSUME FleetInv, NEW a \in Routed, record[a] \notin Terminal, a \in landings,
         NEW s \in TickResults(Pilot(a)),
         UNCHANGED <<plan, retired, former, fixedVars>>,
         AdoptLanding(a, [agent EXCEPT ![plan[a].uav] = s])
  PROVE  FlightStep /\ \A b \in Assignments \ {a} : record'[b] = record[b]
<1>r. PICK r : r = IF s \in AgentTerminal THEN "FAILED" ELSE "CANCELING"
  OBVIOUS
<1>0. /\ a \in Assignments /\ plan[a].uav \in Uavs /\ Pilot(a) \in AgentStates /\ agent \in [Uavs -> AgentStates]
  BY RouteFact, LiveFact DEF FleetTypeOK
<1>1. /\ agent' = [agent EXCEPT ![plan[a].uav] = s] /\ record' = [record EXCEPT ![a] = r]
      /\ landings' = IF s \in AgentTerminal THEN landings \ {a} ELSE landings
      /\ live' = IF s \in AgentTerminal THEN Released(live, {a}) ELSE live
      /\ UNCHANGED <<reassign, cancelRequested>>
  BY <1>0, <1>r DEF AdoptLanding
<1>2. /\ s \in AgentStates /\ (s \in AgentTerminal \/ s \in Airborne)
      /\ s = "RUNNING" => Pilot(a) = "RUNNING"
      /\ Pilot(a) = "SHUTDOWN" => s \in {"SHUTDOWN", "CANCELED", "FAILED"}
  BY DEF TickResults, Airborne, AgentTerminal, AgentStates
<1>3. /\ Sound(live') /\ live'.binding = live.binding /\ \A b \in Assignments : live'.claims[b].at = 0
      /\ \A b \in Assignments \ {a} : live'.claims[b] = live.claims[b]
      /\ live'.claims[a].state =
           IF s \in AgentTerminal /\ live.claims[a].state \notin {"UNCLAIMED", "TERMINATED"}
           THEN "RELEASED" ELSE live.claims[a].state
  <2>1. CASE s \in AgentTerminal
    <3>1. live' = Released(live, {a}) /\ {a} \in SUBSET Assignments
      BY <1>0, <1>1, <2>1
    <3>. QED BY <2>1, <3>1, ReleasedFact, LiveFact
  <2>2. CASE s \notin AgentTerminal
    BY <1>1, <2>2, LiveFact
  <2>. QED BY <2>1, <2>2
<1>4. r \in RecordStates \ {"none"} /\ (r = "FAILED" <=> s \in AgentTerminal) /\ r \in {"FAILED", "CANCELING"}
  BY <1>r DEF RecordStates, Terminal
<1>5. /\ MissionTyped' /\ Keeps /\ NoLaunch
      /\ \A b \in Assignments \ {a} : RowInv(b)' /\ Moved(b) /\ record'[b] = record[b]
      /\ record'[a] = r /\ Pilot(a)' = s /\ RowInv(a)
      /\ Routed' = Routed /\ Plain' = Plain /\ Tame' = Tame /\ policy' = policy /\ replies' = replies
  <2>1. Touched(a, r, s)
    BY <1>1, <1>2, <1>3 DEF Touched, fixedVars
  <2>. QED BY <1>2, <1>4, <2>1, OneRow
<1>6. ClaimRow(a)'
  BY <1>0, <1>1, <1>3, <1>4, <1>5 DEF RowInv, ClaimRow, Active, ActiveStates, HolderStates, Claiming, Terminal
<1>7. Tame => "same" \notin replies /\ Pilot(a) = "SHUTDOWN"
  BY <1>5 DEF RowInv, LandingRow
<1>8. FlightRow(a)'
  BY <1>2, <1>4, <1>5, <1>7 DEF FlightRow, Startable, Terminal, Airborne, AgentTerminal
<1>9. LandingRow(a)'
  <2>1. Plain => Tame
    BY DEF Plain, Tame
  <2>. QED BY <1>1, <1>2, <1>4, <1>5, <1>7, <2>1 DEF LandingRow, Startable, Terminal, AgentTerminal
<1>10. Moved(a)
  BY <1>4, <1>5 DEF Moved
<1>. QED BY <1>5, <1>6, <1>8, <1>9, <1>10 DEF FlightStep, RowInv

\* A vehicle waits, for the airspace or for its claim.
LEMMA HoldStep ==
  ASSUME FleetInv, NEW a \in Routed, record[a] \notin Terminal \cup {"WAITING_REASSIGNMENT"},
         NEW r \in {"HOLDING", "CLAIM_HOLD"}, record' = [record EXCEPT ![a] = r],
         ~ (Plain /\ record[a] = "CANCELING"),
         UNCHANGED <<agent, live, landings, reassign, cancelRequested, plan, retired, former, fixedVars>>
  PROVE  FlightStep /\ \A b \in Assignments \ {a} : record'[b] = record[b]
<1>0. a \in Assignments /\ plan[a].uav \in Uavs /\ Pilot(a) \in AgentStates /\ agent \in [Uavs -> AgentStates]
  BY RouteFact, LiveFact DEF FleetTypeOK
<1>1. agent' = [agent EXCEPT ![plan[a].uav] = Pilot(a)]
  BY <1>0 DEF Pilot
<1>2. r \in RecordStates \ {"none"}
  BY DEF RecordStates
<1>3. /\ MissionTyped' /\ Keeps /\ NoLaunch
      /\ \A b \in Assignments \ {a} : RowInv(b)' /\ Moved(b) /\ record'[b] = record[b]
      /\ record'[a] = r /\ Pilot(a)' = Pilot(a) /\ RowInv(a) /\ record[a] # "none"
      /\ Routed' = Routed /\ Plain' = Plain /\ Tame' = Tame /\ policy' = policy /\ replies' = replies
  <2>1. PICK s \in AgentStates : s = Pilot(a)
    BY <1>0
  <2>2. Touched(a, r, s)
    BY <1>1, <2>1, LiveFact DEF Touched, fixedVars
  <2>. QED BY <1>2, <2>1, <2>2, OneRow
<1>4. ClaimRow(a)'
  BY <1>3 DEF RowInv, ClaimRow, Active, Claiming, Terminal
<1>5. FlightRow(a)'
  BY <1>3 DEF RowInv, FlightRow, Startable, Terminal
<1>6. LandingRow(a)'
  BY <1>3 DEF RowInv, LandingRow, Startable
<1>7. Moved(a)
  BY <1>3 DEF Moved
<1>. QED BY <1>3, <1>4, <1>5, <1>6, <1>7 DEF FlightStep, RowInv
\* The agent of an open assignment is ticked.
LEMMA TickAgentStep ==
  ASSUME FleetInv, NEW a \in Routed, record[a] \notin Terminal \cup {"WAITING_REASSIGNMENT"},
         UNCHANGED <<plan, retired, former, fixedVars>>, TickAgent(a)
  PROVE  FlightStep /\ (Plain => \A b \in Assignments \ {a} : record'[b] = record[b])
<1>0. /\ a \in Assignments /\ plan[a].uav \in Uavs /\ Pilot(a) \in AgentStates /\ agent \in [Uavs -> AgentStates]
      /\ RowInv(a) /\ record[a] # "none" /\ record[a] \notin Terminal
  BY RouteFact, LiveFact DEF FleetTypeOK, FleetInv
<1>1. CASE FailLocally(a, agent)
  <2>1. PICK s \in AgentStates : s = Pilot(a)
    BY <1>0
  <2>2. agent = [agent EXCEPT ![plan[a].uav] = s]
    BY <1>0, <2>1 DEF Pilot
  <2>3. s # "SUCCEEDED" /\ (a \in landings /\ Tame => s = "SHUTDOWN")
    BY <1>0, <2>1 DEF RowInv, FlightRow, LandingRow, Terminal
  <2>4. FailLocally(a, [agent EXCEPT ![plan[a].uav] = s])
    BY <1>1, <2>2
  <2>. QED BY <1>0, <2>1, <2>3, <2>4, FailStep
<1>2. ASSUME NEW s \in TickResults(Pilot(a)), a \in landings,
             AdoptLanding(a, [agent EXCEPT ![plan[a].uav] = s])
      PROVE  FlightStep /\ \A b \in Assignments \ {a} : record'[b] = record[b]
  BY <1>0, <1>2, AdoptLandingStep
<1>3. /\ live.claims[a].state \notin {"UNCLAIMED", "TERMINATED"} /\ Bound(live, a)
      /\ Sound(live) /\ \A b \in Assignments : live.claims[b].at = 0
  BY <1>0, LiveFact DEF RowInv, ClaimRow, Terminal, Sound, WellFormed
<1>4. ASSUME NEW s \in TickResults(Pilot(a)), a \notin landings,
             Adopt(a, [agent EXCEPT ![plan[a].uav] = s], live)
      PROVE  FlightStep /\ (Plain => \A b \in Assignments \ {a} : record'[b] = record[b])
  BY <1>3, <1>4, AdoptStep
<1>5. ASSUME "RUNNING" \in TickResults(Pilot(a)),
             HoldForClaim(a, [agent EXCEPT ![plan[a].uav] = "RUNNING"])
      PROVE  FlightStep /\ \A b \in Assignments \ {a} : record'[b] = record[b]
  <2>1. Pilot(a) = "RUNNING"
    BY <1>5 DEF TickResults
  <2>2. [agent EXCEPT ![plan[a].uav] = "RUNNING"] = agent
    BY <1>0, <2>1 DEF Pilot
  <2>3. ~ (Plain /\ record[a] = "CANCELING")
    BY <1>0, <2>1 DEF RowInv, LandingRow
  <2>4. /\ record' = [record EXCEPT ![a] = "CLAIM_HOLD"]
        /\ UNCHANGED <<agent, live, landings, reassign, cancelRequested>>
    BY <1>5, <2>2 DEF HoldForClaim
  <2>5. UNCHANGED <<agent, live, landings, reassign, cancelRequested, plan, retired, former, fixedVars>>
    BY <2>4
  <2>. QED BY <2>3, <2>4, <2>5, HoldStep
<1>6. ASSUME "RUNNING" \in TickResults(Pilot(a)), a \notin landings,
             AdoptLocked(a, [agent EXCEPT ![plan[a].uav] = "RUNNING"])
      PROVE  FlightStep /\ (Plain => \A b \in Assignments \ {a} : record'[b] = record[b])
  <2>1. PICK R : R = Claimed(live, a, LockState, 0)
    OBVIOUS
  <2>2. LockState \in ActiveStates /\ LockState \in HolderStates
    BY RegistryAssumption DEF LockState, ActiveStates, HolderStates
  <2>3. ~Exclusive \/ Rivals(live, a) = {}
    BY <1>3, NoRival
  <2>4. /\ Sound(R) /\ R.binding = live.binding /\ \A b \in Assignments : R.claims[b].at = 0
        /\ R.claims[a].state = LockState
        /\ \A b \in Assignments \ {a} : R.claims[b] = live.claims[b]
    BY <1>0, <1>3, <2>1, <2>2, <2>3, GrantedFact
  <2>5. Active(R, a) /\ Holder(R, a) /\ R.claims[a].state \notin {"UNCLAIMED", "TERMINATED"}
    BY <2>2, <2>4 DEF Active, Holder, ActiveStates, HolderStates
  <2>6. \A b \in Assignments : Active(live, b) => Active(R, b)
    BY <2>4, <2>5 DEF Active
  <2>7. Adopt(a, [agent EXCEPT ![plan[a].uav] = "RUNNING"], R)
    <3>1. {b \in Routed : Active(live, b) /\ ~Active(R, b) /\ record[b] \notin Terminal} = {}
      BY <2>6 DEF Routed
    <3>. QED BY <1>6, <2>1, <2>5, <3>1 DEF AdoptLocked
  <2>. QED BY <1>6, <2>4, <2>5, <2>7, AdoptStep
<1>7. ASSUME NEW s \in TickResults(Pilot(a)),
             LET ag == [agent EXCEPT ![plan[a].uav] = s] IN
             IF a \in landings THEN AdoptLanding(a, ag)
             ELSE \/ Adopt(a, ag, live)
                  \/ s = "RUNNING" /\ HoldForClaim(a, ag)
                  \/ s = "RUNNING" /\ AdoptLocked(a, ag)
      PROVE  FlightStep /\ (Plain => \A b \in Assignments \ {a} : record'[b] = record[b])
  BY <1>2, <1>4, <1>5, <1>6, <1>7
<1>. QED BY <1>1, <1>7 DEF TickAgent, Pilot
BindingsKept == \A b \in Assignments : Bound(live, b) => live'.binding[b] = live.binding[b]

\* What a step may never do to the vehicles, the assignments and their bindings.
Lawful == NoLaunch /\ BindingsKept /\ \A b \in Assignments : Moved(b)

LoopTyped ==
  /\ fleet \in FleetTerminal \cup {"IDLE", "PLANNING", "RUNNING"}
  /\ ready \subseteq Assignments /\ held \subseteq Uavs /\ observed \in BOOLEAN
  /\ pc \in {"idle", "starting", "ready", "retired", "agents", "replan"}
  /\ todo \subseteq Uavs \cup Assignments

\* What is left to show of a step that publishes nothing.
LEMMA FlightInv ==
  ASSUME FleetInv, FlightStep, LoopTyped', HeldInv', PlaceInv'
  PROVE  FleetInv' /\ Lawful
<1>1. Keeps /\ MissionTyped' /\ (\A b \in Assignments : RowInv(b)' /\ Moved(b)) /\ NoLaunch
  BY DEF FlightStep
<1>2. RouteInv' /\ GoalInv'
  BY <1>1, KeepsRoutes
<1>3. RegistryTypeOK' /\ ClaimsInv'
  BY <1>1 DEF Keeps, ClaimsInv, Sound, RegistryTypeOK
<1>4. FleetTypeOK
  BY DEF FleetInv
<1>5. /\ policy' \in Policies /\ replies' \in Handlers /\ retired' \subseteq Uavs
      /\ former' \in [Uavs -> AgentStates] /\ plan' \in [Assignments -> Bindings \cup {Unbound}]
  BY <1>1, <1>4 DEF Keeps, FleetTypeOK
<1>6. FleetTypeOK'
  BY <1>1, <1>3, <1>5 DEF FleetTypeOK, MissionTyped, LoopTyped
<1>7. BindingsKept
  BY <1>1 DEF Keeps, BindingsKept
<1>. QED BY <1>1, <1>2, <1>3, <1>6, <1>7 DEF FleetInv, Lawful

\* A step of a loop, that visits the first of what it has to.
LEMMA VisitStep ==
  ASSUME FleetInv, FlightStep, pc # "idle", pc # "retired", UNCHANGED <<pc, held, observed>>,
         fleet' \in {fleet, "RUNNING"}, NEW x \in todo, todo' = todo \ {x}, ready' \subseteq ready \cup Assignments,
         Plain /\ pc = "agents" => \A b \in Routed : plan[b].uav # x => record'[b] = record[b]
  PROVE  FleetInv' /\ Lawful
<1>1. /\ FleetTypeOK /\ PlaceInv /\ HeldInv
      /\ Keeps
  BY DEF FleetInv, FlightStep
<1>2. /\ Routed' = Routed /\ (\A u : RouteOn(u)' = RouteOn(u)) /\ Plain' = Plain /\ plan' = plan
  BY <1>1, KeepsSets DEF Keeps
<1>3. fleet \in {"PLANNING", "RUNNING"} /\ fleet' \in {"PLANNING", "RUNNING"}
  BY <1>1 DEF PlaceInv, FleetTypeOK
<1>4. LoopTyped'
  BY <1>1, <1>3 DEF FleetTypeOK, LoopTyped
<1>5. PlaceInv'
  BY <1>1, <1>2, <1>3 DEF PlaceInv, FleetTerminal
<1>6. HeldInv'
  BY <1>1, <1>2 DEF HeldInv
<1>. QED BY <1>4, <1>5, <1>6, FlightInv

\* A step that changes nothing but where the runtime is.
LEMMA StillStep ==
  ASSUME FleetInv,
         UNCHANGED <<plan, record, agent, retired, former, landings, cancelRequested, live, fixedVars>>,
         reassign' \subseteq reassign
  PROVE  FlightStep
<1>1. /\ FleetTypeOK /\ ClaimsInv
      /\ UNCHANGED <<plan, record, agent, retired, former, landings, cancelRequested, live, policy, replies, staged>>
  BY DEF FleetInv, fixedVars
<1>2. MissionTyped'
  BY <1>1 DEF FleetTypeOK, MissionTyped
<1>3. ClaimsInv'
  BY <1>1 DEF ClaimsInv, Sound, WellFormed, OneHolderIn, OneAssignmentIn
<1>4. Keeps
  BY <1>1, <1>3 DEF Keeps
<1>5. \A b \in Assignments : RowInv(b)' /\ Moved(b)
  BY <1>1, <1>4, RowSame
<1>6. NoLaunch
  BY <1>1 DEF NoLaunch
<1>. QED BY <1>2, <1>4, <1>5, <1>6 DEF FlightStep

LEMMA StartAgentStep == FleetInv /\ StartAgent => FleetInv' /\ Lawful
<1> SUFFICES ASSUME FleetInv, StartAgent PROVE FleetInv' /\ Lawful
  OBVIOUS
<1> DEFINE u == FirstOf(todo)  a == FirstOf(RouteOn(u))
<1>1. /\ pc = "starting" /\ todo # {} /\ todo' = todo \ {u}
      /\ UNCHANGED <<plan, retired, former, ready, fixedVars, pc, held, observed>>
  BY DEF StartAgent
<1>2. todo \subseteq Uavs /\ todo \subseteq Nat /\ FleetTypeOK /\ RouteInv
  BY <1>1, RegistryAssumption DEF FleetInv, PlaceInv
<1>3. u \in todo
  BY <1>1, <1>2, FirstFact
<1>4. RouteOn(u) # {} /\ RouteOn(u) \subseteq Nat
  BY <1>1, <1>3, RegistryAssumption DEF FleetInv, PlaceInv, RouteOn, Routed
<1>5. a \in Routed /\ plan[a].uav = u
  BY <1>4, FirstFact DEF RouteOn
<1>6. CASE MayStart(a)
  <2>1. record[a] \in Startable /\ LaunchAgent(a)
    BY <1>6 DEF StartAgent, MayStart
  <2>2. FlightStep /\ fleet' \in {fleet, "RUNNING"}
    BY <1>1, <1>5, <2>1, LaunchStep
  <2>. QED BY <1>1, <1>3, <2>2, VisitStep
<1>7. CASE ~MayStart(a)
  <2>1. UNCHANGED <<fleet, record, agent, live, landings, reassign, cancelRequested>>
    BY <1>7 DEF StartAgent
  <2>2. FlightStep
    BY <1>1, <2>1, StillStep
  <2>. QED BY <1>1, <1>3, <2>1, <2>2, VisitStep
<1>. QED BY <1>6, <1>7

LEMMA StartReadyStep == FleetInv /\ StartReady => FleetInv' /\ Lawful
<1> SUFFICES ASSUME FleetInv, StartReady PROVE FleetInv' /\ Lawful
  OBVIOUS
<1> DEFINE a == FirstOf(todo)
<1>1. /\ pc = "ready" /\ todo # {} /\ todo' = todo \ {a} /\ ready' = ready \ {a}
      /\ UNCHANGED <<plan, retired, former, fixedVars, pc, held, observed>>
  BY DEF StartReady
<1>2. todo \subseteq Assignments /\ todo \subseteq Nat
  BY <1>1, RegistryAssumption DEF FleetInv, PlaceInv
<1>3. a \in todo
  BY <1>1, <1>2, FirstFact
<1>4. CASE MayLaunch(a)
  <2>1. record[a] = "READY" /\ LaunchAgent(a)
    BY <1>4 DEF StartReady, MayLaunch
  <2>2. a \in Routed /\ record[a] \in Startable
    BY <1>2, <1>3, <2>1 DEF Routed, Startable
  <2>3. FlightStep /\ fleet' \in {fleet, "RUNNING"}
    BY <1>1, <2>1, <2>2, LaunchStep
  <2>. QED BY <1>1, <1>3, <2>3, VisitStep
<1>5. CASE ~MayLaunch(a)
  <2>1. UNCHANGED <<fleet, record, agent, live, landings, reassign, cancelRequested>>
    BY <1>5 DEF StartReady
  <2>2. FlightStep
    BY <1>1, <2>1, StillStep
  <2>. QED BY <1>1, <1>3, <2>1, <2>2, VisitStep
<1>. QED BY <1>4, <1>5

LEMMA VisitAgentStep == FleetInv /\ VisitAgent => FleetInv' /\ Lawful
<1> SUFFICES ASSUME FleetInv, VisitAgent PROVE FleetInv' /\ Lawful
  OBVIOUS
<1> DEFINE u == FirstOf(todo)
           visits == {b \in RouteOn(u) : Visited(b)}
           a == FirstOf(visits)
           calm == UNCHANGED <<agent, live, landings, reassign, cancelRequested>>
<1>1. /\ pc = "agents" /\ todo # {} /\ todo' = todo \ {u}
      /\ UNCHANGED <<fleet, plan, retired, former, ready, fixedVars, pc, held, observed>>
  BY DEF VisitAgent
<1>2. todo \subseteq Uavs /\ todo \subseteq Nat /\ FleetTypeOK /\ RouteInv
  BY <1>1, RegistryAssumption DEF FleetInv, PlaceInv
<1>3. u \in todo
  BY <1>1, <1>2, FirstFact
<1>4. CASE calm /\ UNCHANGED record
  <2>1. FlightStep
    BY <1>1, <1>4, StillStep
  <2>. QED BY <1>1, <1>3, <1>4, <2>1, VisitStep
<1>5. CASE visits # {} /\ ~ (calm /\ UNCHANGED record)
  <2>1. visits \subseteq Nat
    BY RegistryAssumption DEF RouteOn, Routed
  <2>2. a \in visits
    BY <1>5, <2>1, FirstFact
  <2>3. a \in Routed /\ plan[a].uav = u /\ record[a] \notin Terminal \cup {"WAITING_REASSIGNMENT"}
    BY <2>2 DEF RouteOn, Visited
  <2> HIDE DEF a
  <2>4. FlightStep /\ (Plain => \A b \in Assignments \ {a} : record'[b] = record[b])
    <3>1. CASE u \in held
      <4>1. calm /\ record' = [record EXCEPT ![a] = IF @ = "CLAIM_HOLD" THEN @ ELSE "HOLDING"]
        BY <1>5, <3>1 DEF VisitAgent, a
      <4>2. PICK r \in {"HOLDING", "CLAIM_HOLD"} : r = IF record[a] = "CLAIM_HOLD" THEN record[a] ELSE "HOLDING"
        OBVIOUS
      <4>3. record' = [record EXCEPT ![a] = r]
        BY <4>1, <4>2
      <4>4. ~ (Plain /\ record[a] = "CANCELING")
        BY <1>1, <1>3, <2>3, <3>1 DEF FleetInv, HeldInv
      <4>5. UNCHANGED <<agent, live, landings, reassign, cancelRequested, plan, retired, former, fixedVars>>
        BY <1>1, <4>1
      <4>. QED BY <2>3, <4>3, <4>4, <4>5, HoldStep
    <3>2. CASE u \notin held
      <4>1. TickAgent(a)
        BY <1>5, <3>2 DEF VisitAgent, a
      <4>. QED BY <1>1, <2>3, <4>1, TickAgentStep
    <3>. QED BY <3>1, <3>2
  <2>5. Plain => \A b \in Routed : plan[b].uav # u => record'[b] = record[b]
    BY <2>3, <2>4 DEF Routed
  <2>. QED BY <1>1, <1>3, <2>4, <2>5, VisitStep
<1>. QED BY <1>4, <1>5 DEF VisitAgent

\* An assignment that a step leaves alone.
LEMMA RowCopy ==
  ASSUME FleetInv, NEW b \in Assignments, record'[b] = record[b], UNCHANGED <<policy, replies, cancelRequested>>,
         b \in Routed => Pilot(b)' = Pilot(b),
         live'.claims[b].state = live.claims[b].state,
         b \in landings' <=> b \in landings
  PROVE  RowInv(b)' /\ Moved(b)
<1>1. RowInv(b) /\ Plain' = Plain /\ Tame' = Tame /\ (b \in Routed' <=> b \in Routed)
      /\ (b \in Routed <=> record[b] # "none")
  BY DEF FleetInv, Plain, Tame, Routed
<1>2. ClaimRow(b)'
  BY <1>1 DEF RowInv, ClaimRow, Active
<1>3. FlightRow(b)'
  BY <1>1 DEF RowInv, FlightRow
<1>4. LandingRow(b)'
  BY <1>1 DEF RowInv, LandingRow
<1>. QED BY <1>2, <1>3, <1>4 DEF RowInv, Moved

\* What the end of the fleet is decided on.
LEMMA AggregateFact ==
  ASSUME NEW rec \in [Assignments -> RecordStates], NEW pl, NEW out, NEW canceled \in BOOLEAN
  PROVE  /\ Aggregate(rec, pl, out, canceled) \in {"RUNNING", "CANCELED", "SUCCEEDED", "PARTIAL_SUCCESS", "FAILED"}
         /\ Aggregate(rec, pl, out, canceled) = "CANCELED" =>
              out = {} /\ \A a \in Assignments : rec[a] \in {"none", "SUCCEEDED", "CANCELED"}
         /\ Aggregate(rec, pl, out, canceled) = "SUCCEEDED" =>
              out = {} /\ \A a \in Assignments : rec[a] # "none" /\ pl[a].target \in Required => rec[a] = "SUCCEEDED"
BY DEF Aggregate, Open, Reached, Terminal

LEMMA StartFailsStep == FleetInv /\ StartFails => FleetInv' /\ Lawful
<1> SUFFICES ASSUME FleetInv, StartFails PROVE FleetInv' /\ Lawful
  OBVIOUS
<1>1. /\ fleet = "IDLE" /\ fleet' = "FAILED" /\ PlaceInv /\ FleetTypeOK /\ pc = "idle" /\ pc' = "idle"
      /\ UNCHANGED <<plan, record, agent, retired, former, landings, ready, reassign, cancelRequested, live, fixedVars,
                     todo, held, observed>>
  BY DEF FleetInv, StartFails, PlaceInv, loopVars
<1>2. LoopTyped' /\ HeldInv' /\ PlaceInv'
  BY <1>1 DEF FleetTypeOK, LoopTyped, HeldInv, PlaceInv, FleetTerminal
<1>. QED BY <1>1, <1>2, StillStep, FlightInv

LEMMA StartEndsStep == FleetInv /\ StartEnds => FleetInv' /\ Lawful
<1> SUFFICES ASSUME FleetInv, StartEnds PROVE FleetInv' /\ Lawful
  OBVIOUS
<1>1. /\ pc = "starting" /\ fleet' \in {"RUNNING", "FAILED"} /\ pc' = "idle" /\ PlaceInv /\ FleetTypeOK
      /\ UNCHANGED <<plan, record, agent, retired, former, landings, ready, reassign, cancelRequested, live, fixedVars,
                     todo, held, observed>>
  BY DEF FleetInv, StartEnds
<1>2. Routed' = Routed /\ Routed # {}
  BY <1>1 DEF Routed, PlaceInv, FleetTerminal
<1>3. LoopTyped' /\ HeldInv' /\ PlaceInv'
  BY <1>1, <1>2 DEF FleetTypeOK, LoopTyped, HeldInv, PlaceInv, FleetTerminal
<1>. QED BY <1>1, <1>3, StillStep, FlightInv

LEMMA TickBeginStep == FleetInv /\ TickBegin => FleetInv' /\ Lawful
<1> SUFFICES ASSUME FleetInv, TickBegin PROVE FleetInv' /\ Lawful
  OBVIOUS
<1>1. /\ fleet = "RUNNING" /\ fleet' = fleet /\ pc' = "ready" /\ todo' = ready /\ PlaceInv /\ FleetTypeOK
      /\ UNCHANGED <<plan, record, agent, retired, former, landings, ready, reassign, cancelRequested, live, fixedVars,
                     held, observed>>
  BY DEF FleetInv, TickBegin, missionVars
<1>2. Routed' = Routed /\ Routed # {}
  BY <1>1 DEF Routed, PlaceInv
<1>3. LoopTyped' /\ HeldInv' /\ PlaceInv'
  BY <1>1, <1>2 DEF FleetTypeOK, LoopTyped, HeldInv, PlaceInv, FleetTerminal
<1>. QED BY <1>1, <1>3, StillStep, FlightInv

LEMMA AdvanceStep ==
  ASSUME FleetInv, NEW obs \in BOOLEAN, NEW hold \in SUBSET Uavs, Advance(obs, hold)
  PROVE  FleetInv' /\ Lawful
<1>1. /\ pc = "ready" /\ pc' = "retired" /\ held' = hold \ Overrides /\ observed' = obs
      /\ todo' \subseteq retired /\ PlaceInv /\ FleetTypeOK
      /\ UNCHANGED <<fleet, plan, record, agent, retired, former, landings, ready, reassign, cancelRequested, live, fixedVars>>
  BY DEF FleetInv, Advance, missionVars
<1>2. Routed' = Routed /\ Routed # {} /\ fleet \in {"PLANNING", "RUNNING"} /\ retired \subseteq Uavs
  BY <1>1 DEF Routed, PlaceInv, FleetTypeOK
<1>3. LoopTyped' /\ PlaceInv'
  BY <1>1, <1>2 DEF FleetTypeOK, LoopTyped, PlaceInv, FleetTerminal
<1>4. \A a \in Routed : Plain /\ record[a] = "CANCELING" => plan[a].uav \in Overrides
  <2> SUFFICES ASSUME NEW a \in Routed, Plain, record[a] = "CANCELING" PROVE plan[a].uav \in Overrides
    OBVIOUS
  <2>1. cancelRequested \/ a \in landings
    BY DEF FleetInv, RowInv, LandingRow, Routed
  <2>2. plan[a].uav \in Uavs
    BY RouteFact DEF FleetInv
  <2>. QED BY <2>1, <2>2 DEF Overrides, RouteOn
<1>5. HeldInv'
  <2>1. Plain' = Plain /\ plan' = plan /\ record' = record
    BY <1>1 DEF Plain, fixedVars
  <2>. QED BY <1>1, <1>2, <1>4, <2>1 DEF HeldInv
<1>. QED BY <1>1, <1>3, <1>5, StillStep, FlightInv

LEMMA RetiredEndStep == FleetInv /\ RetiredEnd => FleetInv' /\ Lawful
<1> SUFFICES ASSUME FleetInv, RetiredEnd PROVE FleetInv' /\ Lawful
  OBVIOUS
<1>1. /\ pc = "retired" /\ pc' = "agents" /\ todo' \subseteq Uavs /\ PlaceInv /\ HeldInv /\ FleetTypeOK
      /\ UNCHANGED <<fleet, plan, record, agent, retired, former, landings, ready, reassign, cancelRequested, live, fixedVars,
                     held, observed>>
  BY DEF FleetInv, RetiredEnd, missionVars
<1>2. Routed' = Routed /\ Routed # {} /\ fleet \in {"PLANNING", "RUNNING"} /\ Plain' = Plain
  BY <1>1 DEF Routed, PlaceInv, FleetTypeOK, Plain, fixedVars
<1>3. LoopTyped' /\ HeldInv' /\ PlaceInv'
  BY <1>1, <1>2 DEF FleetTypeOK, LoopTyped, HeldInv, PlaceInv, FleetTerminal
<1>. QED BY <1>1, <1>3, StillStep, FlightInv

LEMMA AgentsEndStep == FleetInv /\ AgentsEnd => FleetInv' /\ Lawful
<1> SUFFICES ASSUME FleetInv, AgentsEnd PROVE FleetInv' /\ Lawful
  OBVIOUS
<1>1. /\ pc = "agents" /\ pc' = "replan" /\ todo' \subseteq reassign /\ PlaceInv /\ FleetTypeOK
      /\ UNCHANGED <<fleet, plan, record, agent, retired, former, landings, ready, reassign, cancelRequested, live, fixedVars,
                     held, observed>>
  BY DEF FleetInv, AgentsEnd, missionVars
<1>2. Routed' = Routed /\ Routed # {} /\ fleet \in {"PLANNING", "RUNNING"} /\ reassign \subseteq Assignments
  BY <1>1 DEF Routed, PlaceInv, FleetTypeOK
<1>3. LoopTyped' /\ HeldInv' /\ PlaceInv'
  BY <1>1, <1>2 DEF FleetTypeOK, LoopTyped, HeldInv, PlaceInv, FleetTerminal
<1>. QED BY <1>1, <1>3, StillStep, FlightInv

LEMMA TickEndStep == FleetInv /\ TickEnd => FleetInv' /\ Lawful
<1> SUFFICES ASSUME FleetInv, TickEnd PROVE FleetInv' /\ Lawful
  OBVIOUS
<1>1. /\ pc = "replan" /\ pc' = "idle" /\ held' = {} /\ observed' = FALSE /\ PlaceInv /\ FleetTypeOK
      /\ fleet' = Aggregate(record, plan, retired, cancelRequested)
      /\ UNCHANGED <<plan, record, agent, retired, former, landings, ready, reassign, cancelRequested, live, fixedVars, todo>>
  BY DEF FleetInv, TickEnd
<1>2. Routed' = Routed /\ Routed # {}
  BY <1>1 DEF Routed, PlaceInv, FleetTerminal
<1>3. /\ fleet' \in {"RUNNING", "CANCELED", "SUCCEEDED", "PARTIAL_SUCCESS", "FAILED"}
      /\ fleet' = "CANCELED" => retired = {} /\ \A a \in Assignments : record[a] \in {"none", "SUCCEEDED", "CANCELED"}
      /\ fleet' = "SUCCEEDED" => retired = {} /\ \A a \in Assignments :
           record[a] # "none" /\ plan[a].target \in Required => record[a] = "SUCCEEDED"
  BY <1>1, AggregateFact DEF FleetTypeOK
<1>4. \A a \in Routed : a \in Assignments /\ record[a] # "none"
  BY DEF Routed
<1>5. LoopTyped'
  BY <1>1, <1>3 DEF FleetTypeOK, LoopTyped, FleetTerminal
<1>6. HeldInv'
  BY <1>1 DEF HeldInv
<1>7. PlaceInv'
  BY <1>1, <1>2, <1>3, <1>4 DEF PlaceInv
<1>. QED BY <1>1, <1>5, <1>6, <1>7, StillStep, FlightInv

LEMMA IdleStep == FleetInv /\ UNCHANGED fleetVars => FleetInv' /\ Lawful
<1> SUFFICES ASSUME FleetInv, UNCHANGED fleetVars PROVE FleetInv' /\ Lawful
  OBVIOUS
<1>1. /\ PlaceInv /\ HeldInv /\ FleetTypeOK
      /\ UNCHANGED <<fleet, plan, record, agent, retired, former, landings, ready, reassign, cancelRequested, live, fixedVars,
                     pc, todo, held, observed>>
  BY DEF FleetInv, fleetVars, missionVars, loopVars
<1>2. Routed' = Routed /\ Plain' = Plain /\ \A u : RouteOn(u)' = RouteOn(u)
  BY <1>1 DEF Routed, Plain, RouteOn, fixedVars
<1>3. LoopTyped' /\ HeldInv' /\ PlaceInv'
  BY <1>1, <1>2 DEF FleetTypeOK, LoopTyped, HeldInv, PlaceInv
<1>. QED BY <1>1, <1>3, StillStep, FlightInv

\* A vehicle out of the plan is ticked until it has landed.
LEMMA TickRetiredStep == FleetInv /\ TickRetired => FleetInv' /\ Lawful
<1> SUFFICES ASSUME FleetInv, TickRetired PROVE FleetInv' /\ Lawful
  OBVIOUS
<1> DEFINE u == FirstOf(todo)
<1>1. /\ pc = "retired" /\ todo # {} /\ todo' = todo \ {u} /\ PlaceInv /\ HeldInv /\ FleetTypeOK /\ RouteInv
      /\ UNCHANGED <<fleet, plan, record, landings, ready, reassign, cancelRequested, live, fixedVars,
                     pc, held, observed>>
  BY DEF FleetInv, TickRetired
<1>2. todo \subseteq retired /\ todo \subseteq Uavs /\ todo \subseteq Nat
  BY <1>1, RegistryAssumption DEF PlaceInv
<1>3. /\ u \in retired /\ u \in Uavs /\ agent \in [Uavs -> AgentStates] /\ former \in [Uavs -> AgentStates]
      /\ former[u] = "none" => agent[u] = "SHUTDOWN" /\ RouteOn(u) = {}
      /\ former[u] # "none" => former[u] = "SHUTDOWN"
  BY <1>1, <1>2, FirstFact DEF RouteInv, FleetTypeOK
<1>4. UNCHANGED <<policy, replies, staged>>
  BY <1>1 DEF fixedVars
<1>5. /\ Routed' = Routed /\ Plain' = Plain /\ (\A v : RouteOn(v)' = RouteOn(v))
      /\ \A x : Serving(x)' = Serving(x) /\ Planned(x)' = Planned(x)
  BY <1>1, <1>4 DEF Routed, Plain, RouteOn, Serving, Planned
<1>6. PICK s \in {"SHUTDOWN", "CANCELED", "FAILED"} :
        /\ s = "SHUTDOWN" => UNCHANGED <<agent, former, retired>>
        /\ s # "SHUTDOWN" => retired' = retired \ {u}
        /\ s # "SHUTDOWN" /\ former[u] = "none" =>
             agent' = [agent EXCEPT ![u] = s] /\ former' = former
        /\ s # "SHUTDOWN" /\ former[u] # "none" =>
             former' = [former EXCEPT ![u] = "none"] /\ agent' = agent
  <2>1. CASE UNCHANGED <<agent, former, retired>>
    BY <2>1
  <2>2. CASE /\ former[u] = "none"
             /\ \E s \in TickResults(agent[u]) :
                  /\ agent' = [agent EXCEPT ![u] = s] /\ former' = former
                  /\ retired' = IF s \in AgentTerminal THEN retired \ {u} ELSE retired
    <3>1. PICK s \in TickResults(agent[u]) :
            /\ agent' = [agent EXCEPT ![u] = s] /\ former' = former
            /\ retired' = IF s \in AgentTerminal THEN retired \ {u} ELSE retired
      BY <2>2
    <3>2. s \in {"SHUTDOWN", "CANCELED", "FAILED"}
      BY <1>3, <2>2 DEF TickResults
    <3>. QED BY <1>3, <2>2, <3>1, <3>2 DEF AgentTerminal
  <2>3. CASE /\ former[u] # "none"
             /\ \E s \in TickResults(former[u]) :
                  /\ former' = [former EXCEPT ![u] = IF s \in AgentTerminal THEN "none" ELSE s]
                  /\ agent' = agent
                  /\ retired' = IF s \in AgentTerminal THEN retired \ {u} ELSE retired
    <3>1. PICK s \in TickResults(former[u]) :
            /\ former' = [former EXCEPT ![u] = IF s \in AgentTerminal THEN "none" ELSE s]
            /\ agent' = agent
            /\ retired' = IF s \in AgentTerminal THEN retired \ {u} ELSE retired
      BY <2>3
    <3>2. s \in {"SHUTDOWN", "CANCELED", "FAILED"}
      BY <1>3, <2>3 DEF TickResults
    <3>3. s = "SHUTDOWN" => UNCHANGED <<agent, former, retired>>
      BY <1>3, <2>3, <3>1 DEF AgentTerminal
    <3>4. s # "SHUTDOWN" => /\ former' = [former EXCEPT ![u] = "none"] /\ agent' = agent
                            /\ retired' = retired \ {u}
      BY <3>1, <3>2 DEF AgentTerminal
    <3>. QED BY <2>3, <3>2, <3>3, <3>4
  <2>. QED BY <2>1, <2>2, <2>3 DEF TickRetired
<1>7. s \in AgentStates /\ (s \in Airborne => s = "SHUTDOWN") /\ s # "RUNNING" /\ "none" \in AgentStates
  BY DEF AgentStates, Airborne, AgentTerminal
<1>8. /\ agent' \in [Uavs -> AgentStates] /\ former' \in [Uavs -> AgentStates]
      /\ \A v \in Uavs : v # u => agent'[v] = agent[v] /\ former'[v] = former[v]
      /\ retired' \subseteq retired /\ (\A v \in retired : v # u => v \in retired')
      /\ s = "SHUTDOWN" <=> u \in retired'
      /\ s # "SHUTDOWN" => former'[u] = "none"
      /\ agent'[u] = agent[u] \/ (former[u] = "none" /\ agent'[u] = s /\ s # "SHUTDOWN")
      /\ s = "SHUTDOWN" => former'[u] = former[u] /\ agent'[u] = agent[u]
  BY <1>3, <1>6, <1>7
<1>9. \A b \in Routed : plan[b].uav \in Uavs /\ Pilot(b)' = Pilot(b)
  <2> SUFFICES ASSUME NEW b \in Routed
               PROVE  plan[b].uav \in Uavs /\ Pilot(b)' = Pilot(b)
    OBVIOUS
  <2>1. plan[b].uav \in Uavs /\ b \in RouteOn(plan[b].uav)
    BY <1>1, RouteFact DEF RouteOn
  <2>2. plan[b].uav = u => former[u] # "none"
    BY <1>3, <2>1
  <2>3. agent'[plan[b].uav] = agent[plan[b].uav]
    BY <1>8, <2>1, <2>2
  <2>. QED BY <1>1, <2>1, <2>3 DEF Pilot
<1>10. \A b \in Assignments : RowInv(b)' /\ Moved(b)
  BY <1>1, <1>4, <1>9, RowCopy
<1>11. NoLaunch
  BY <1>7, <1>8 DEF NoLaunch
<1>12. RouteInv'
  <2>1. \A b : Bound(live, b)' = Bound(live, b)
    BY <1>1 DEF Bound
  <2>2. \A v \in retired' : former'[v] = "none" => RouteOn(v)' = {} /\ agent'[v] = "SHUTDOWN"
    BY <1>1, <1>2, <1>3, <1>5, <1>8 DEF RouteInv, FleetTypeOK
  <2>3. \A v \in Uavs : former'[v] # "none" => v \in retired' /\ former'[v] = "SHUTDOWN"
    BY <1>1, <1>3, <1>8 DEF RouteInv
  <2>4. \A v \in Uavs : agent'[v] \in Airborne => RouteOn(v) # {} \/ (v \in retired' /\ former'[v] = "none")
    <3> SUFFICES ASSUME NEW v \in Uavs, agent'[v] \in Airborne
                 PROVE  RouteOn(v) # {} \/ (v \in retired' /\ former'[v] = "none")
      OBVIOUS
    <3>1. agent[v] \in Airborne /\ agent'[v] = agent[v]
      BY <1>3, <1>7, <1>8
    <3>2. RouteOn(v) # {} \/ (v \in retired /\ former[v] = "none")
      BY <1>1, <3>1 DEF RouteInv
    <3>3. CASE v # u
      BY <1>8, <3>2, <3>3
    <3>4. CASE v = u /\ s = "SHUTDOWN"
      BY <1>8, <3>2, <3>4
    <3>5. CASE v = u /\ s # "SHUTDOWN"
      <4>1. former[u] # "none"
        BY <1>3, <1>6, <1>7, <3>1, <3>5
      <4>. QED BY <3>2, <3>5, <4>1
    <3>. QED BY <3>3, <3>4, <3>5
  <2>. QED BY <1>1, <1>5, <2>1, <2>2, <2>3, <2>4 DEF RouteInv
<1>13. GoalInv'
  BY <1>1, <1>5 DEF FleetInv, GoalInv
<1>14. FleetTypeOK'
  BY <1>1, <1>4, <1>8 DEF FleetTypeOK, RegistryTypeOK, WellFormed, Bound
<1>15. ClaimsInv'
  BY <1>1, <1>4 DEF FleetInv, ClaimsInv, Sound, WellFormed, OneHolderIn, OneAssignmentIn
<1>16. HeldInv'
  BY <1>1, <1>5 DEF HeldInv
<1>17. PlaceInv'
  <2>1. fleet \in {"PLANNING", "RUNNING"} /\ todo' \subseteq retired'
    BY <1>1, <1>2, <1>8 DEF PlaceInv, FleetTypeOK
  <2>. QED BY <1>1, <1>2, <1>5, <2>1 DEF PlaceInv, FleetTerminal
<1>18. BindingsKept
  BY <1>1 DEF BindingsKept
<1>. QED BY <1>10, <1>11, <1>12, <1>13, <1>14, <1>15, <1>16, <1>17, <1>18 DEF FleetInv, Lawful

\* The operator cancels every assignment that is open.
LEMMA UserCancelStep == FleetInv /\ UserCancel => FleetInv' /\ Lawful
<1> SUFFICES ASSUME FleetInv, UserCancel PROVE FleetInv' /\ Lawful
  OBVIOUS
<1> DEFINE S == {a \in Routed : record[a] \notin Terminal}
<1>0. /\ record \in [Assignments -> RecordStates] /\ agent \in [Uavs -> AgentStates]
      /\ landings \subseteq Assignments /\ reassign \subseteq Assignments /\ pc = "idle" /\ fleet = "RUNNING"
      /\ RouteInv /\ FleetTypeOK /\ PlaceInv
      /\ Sound(live) /\ staged = NoStage /\ \A b \in Assignments : live.claims[b].at = 0
  BY DEF FleetInv, FleetTypeOK, ClaimsInv, UserCancel
<1>1. PICK f \in CancelOutcomes(S, agent) :
        /\ agent' = AgentsAfter(f, agent)
        /\ record' = [a \in Assignments |-> IF a \in DOMAIN f THEN RecordAfter(f[a]) ELSE record[a]]
        /\ live' = Released(live, Ended(f))
  BY DEF UserCancel
<1>2. /\ cancelRequested' = TRUE /\ fleet' = Aggregate(record', plan, retired, TRUE)
      /\ UNCHANGED <<plan, retired, former, policy, replies, staged, landings, ready, reassign, pc, todo, held, observed>>
  BY DEF UserCancel, fixedVars, loopVars
<1>3. S \in SUBSET Routed /\ S \subseteq Assignments /\ (\A b \in Assignments \ S : record[b] \in Terminal \cup {"none"})
      /\ \A b \in S : b \in Routed /\ record[b] \notin Terminal /\ record[b] # "none"
  BY DEF Routed
<1> HIDE DEF S
<1>4. /\ DOMAIN f = S /\ \A b \in S : f[b] \in CancelResults(Pilot(b))
      /\ agent' \in [Uavs -> AgentStates]
      /\ \A b \in Routed : agent'[plan[b].uav] =
           IF b \in S THEN AfterCancel(Pilot(b), f[b]) ELSE agent[plan[b].uav]
      /\ \A u \in Uavs : RouteOn(u) = {} => agent'[u] = agent[u]
      /\ \A u \in Uavs : agent'[u] # agent[u] => agent'[u] \in {"SHUTDOWN", "FAILED"}
  <2>1. /\ DOMAIN f = S /\ \A b \in S : f[b] \in CancelResults(agent[plan[b].uav])
        /\ AgentsAfter(f, agent) \in [Uavs -> AgentStates]
        /\ \A b \in Routed : AgentsAfter(f, agent)[plan[b].uav] =
             IF b \in S THEN AfterCancel(agent[plan[b].uav], f[b]) ELSE agent[plan[b].uav]
        /\ \A u \in Uavs : RouteOn(u) = {} => AgentsAfter(f, agent)[u] = agent[u]
        /\ \A u \in Uavs : AgentsAfter(f, agent)[u] # agent[u] => AgentsAfter(f, agent)[u] \in {"SHUTDOWN", "FAILED"}
    BY <1>0, <1>1, <1>3, CancelFact, Zenon
  <2>. QED BY <1>1, <2>1 DEF Pilot
<1>5. \A x : RecordAfter(x) \in {"CANCELING", "FAILED"} /\ RecordAfter(x) # "none" /\ RecordAfter(x) \in RecordStates
  BY DEF RecordAfter, RecordStates, Terminal
<1>6. /\ \A b \in S : record'[b] = RecordAfter(f[b])
      /\ \A b \in Assignments \ S : record'[b] = record[b]
      /\ record' \in [Assignments -> RecordStates]
  BY <1>0, <1>1, <1>3, <1>4, <1>5
<1>7. MissionTyped'
  BY <1>0, <1>2, <1>4, <1>6 DEF MissionTyped
<1>8. /\ ClaimsInv' /\ live'.binding = live.binding
      /\ \A b \in Assignments : live'.claims[b].state =
            IF b \in S /\ f[b] # "SHUTDOWN" /\ live.claims[b].state \notin {"UNCLAIMED", "TERMINATED"}
            THEN "RELEASED" ELSE live.claims[b].state
  <2> DEFINE T == Ended(f)
  <2>1. T \in SUBSET Assignments /\ \A b : b \in T <=> b \in S /\ f[b] # "SHUTDOWN"
    BY <1>3, <1>4 DEF Ended
  <2>2. live' = Released(live, T)
    BY <1>1
  <2> HIDE DEF T
  <2>3. /\ Sound(live') /\ live'.binding = live.binding /\ \A b \in Assignments : live'.claims[b].at = 0
        /\ \A b \in Assignments \ T : live'.claims[b] = live.claims[b]
        /\ \A b \in T : live'.claims[b].state =
             IF live.claims[b].state \in {"UNCLAIMED", "TERMINATED"} THEN live.claims[b].state ELSE "RELEASED"
    BY <1>0, <2>1, <2>2, ReleasedFact
  <2>4. ClaimsInv'
    BY <1>0, <1>2, <2>3 DEF ClaimsInv, Sound, WellFormed, OneHolderIn, OneAssignmentIn
  <2>. QED BY <2>1, <2>3, <2>4
<1>9. Keeps
  <2>1. \A b \in Assignments : record'[b] = "none" <=> record[b] = "none"
    BY <1>3, <1>5, <1>6
  <2>. QED BY <1>2, <1>4, <1>8, <2>1 DEF Keeps
<1>10. ASSUME NEW b \in Assignments, b \notin S PROVE RowInv(b)' /\ Moved(b)
  BY <1>2, <1>3, <1>4, <1>6, <1>8, <1>9, <1>10, RowSame
<1>11. ASSUME NEW b \in S PROVE RowInv(b)' /\ Moved(b)
  <2>1. b \in Routed /\ record[b] \notin Terminal /\ b \in Assignments /\ RowInv(b)
    BY <1>3 DEF FleetInv
  <2>2. PICK s \in AgentStates : s = Pilot(b)
    BY <1>0, <2>1, RouteFact
  <2>3. s # "SUCCEEDED" /\ (b \in landings /\ Tame => s = "SHUTDOWN")
    BY <2>1, <2>2 DEF RowInv, FlightRow, LandingRow, Terminal
  <2>4. /\ live'.claims[b].state \in {live.claims[b].state, "RELEASED"}
        /\ live'.claims[b].state = "RELEASED" => live.claims[b].state # "UNCLAIMED"
        /\ f[b] # "SHUTDOWN" => ~Active(live', b)
    BY <1>8, <2>1 DEF Active, ActiveStates, HolderStates
  <2>5. f[b] \in CancelResults(s) /\ record'[b] = RecordAfter(f[b]) /\ agent'[plan[b].uav] = AfterCancel(s, f[b])
    BY <1>4, <1>6, <2>1, <2>2
  <2>. QED BY <1>2, <1>9, <2>1, <2>3, <2>4, <2>5, RowCanceled
<1>12. NoLaunch
  BY <1>4 DEF NoLaunch
<1>13. FlightStep
  BY <1>7, <1>9, <1>10, <1>11, <1>12 DEF FlightStep
<1>14. /\ fleet' \in {"RUNNING", "CANCELED", "SUCCEEDED", "PARTIAL_SUCCESS", "FAILED"}
       /\ fleet' = "CANCELED" => retired = {} /\ \A a \in Assignments : record'[a] \in {"none", "SUCCEEDED", "CANCELED"}
       /\ fleet' = "SUCCEEDED" => retired = {} /\ \A a \in Assignments :
            record'[a] # "none" /\ plan[a].target \in Required => record'[a] = "SUCCEEDED"
  <2>1. PICK r \in [Assignments -> RecordStates] : r = record'
    BY <1>6
  <2>2. fleet' = Aggregate(r, plan, retired, TRUE)
    BY <1>2, <2>1
  <2>. QED BY <2>1, <2>2, AggregateFact
<1>15. LoopTyped'
  BY <1>0, <1>2, <1>14 DEF FleetTypeOK, LoopTyped, FleetTerminal
<1>16. Routed' = Routed /\ Routed # {} /\ \A a \in Routed : a \in Assignments /\ record'[a] # "none"
  BY <1>0, <1>9, KeepsSets DEF PlaceInv, Routed
<1>17. PlaceInv'
  BY <1>0, <1>2, <1>14, <1>16 DEF PlaceInv
<1>18. HeldInv'
  BY <1>0, <1>2 DEF HeldInv
<1>. QED BY <1>13, <1>15, <1>17, <1>18, FlightInv

-----------------------------------------------------------------------------
(* The initial state and the start.                                         *)

LEMMA FleetInitInv == FleetInit => FleetInv
<1> SUFFICES ASSUME FleetInit PROVE FleetInv
  OBVIOUS
<1>1. /\ live = EmptyRegistry /\ staged = NoStage /\ policy \in Policies /\ replies \in Handlers
      /\ fleet = "IDLE" /\ plan = [a \in Assignments |-> Unbound] /\ record = [a \in Assignments |-> "none"]
      /\ agent = [u \in Uavs |-> "none"] /\ former = [u \in Uavs |-> "none"] /\ retired = {} /\ landings = {} /\ ready = {} /\ reassign = {}
      /\ cancelRequested = FALSE /\ pc = "idle" /\ todo = {} /\ held = {} /\ observed = FALSE
  BY DEF FleetInit, RegistryInit
<1>2. Sound(live) /\ \A a \in Assignments : live.claims[a] = [state |-> "UNCLAIMED", at |-> 0] /\ ~Bound(live, a)
  BY <1>1, EmptySound DEF EmptyRegistry, Bound
<1>3. Routed = {} /\ \A a \in Assignments : record[a] = "none" /\ plan[a] = Unbound
  BY <1>1 DEF Routed
<1>4. "none" \in RecordStates /\ "none" \in AgentStates /\ "none" \notin Airborne \cup Terminal \cup Startable
  BY DEF RecordStates, AgentStates, Airborne, Terminal, Startable
<1>5. FleetTypeOK
  BY <1>1, <1>2, <1>4 DEF FleetTypeOK, RegistryTypeOK, Sound
<1>6. ClaimsInv
  BY <1>1, <1>2 DEF ClaimsInv
<1>7. RouteInv
  BY <1>1, <1>3, <1>4 DEF RouteInv
<1>8. GoalInv /\ HeldInv
  BY <1>3 DEF GoalInv, HeldInv
<1>9. \A a \in Assignments : RowInv(a)
  BY <1>1, <1>2, <1>3, <1>4 DEF RowInv, ClaimRow, FlightRow, LandingRow, Active, ActiveStates, HolderStates
<1>10. PlaceInv
  BY <1>1, <1>2, <1>3 DEF PlaceInv
<1>. QED BY <1>5, <1>6, <1>7, <1>8, <1>9, <1>10 DEF FleetInv

LEMMA StartStep == FleetInv /\ Start => FleetInv' /\ Lawful
<1> SUFFICES ASSUME FleetInv, Start PROVE FleetInv' /\ Lawful
  OBVIOUS
<1> DEFINE planned == {a \in Assignments : InitialPlan[a] # Unbound}
<1>1. PICK declared \in [planned -> {"PENDING", "READY", "REASSIGNMENT_REQUIRED"}] :
       LET startable == {a \in planned : declared[a] \in Startable}
       IN  /\ record' = [a \in Assignments |-> IF a \in planned THEN declared[a] ELSE "none"]
           /\ agent' = [u \in Uavs |->
                IF \E a \in startable : InitialPlan[a].uav = u THEN "IDLE" ELSE "none"]
           /\ live' = [binding |-> [a \in Assignments |->
                                      IF a \in startable THEN InitialPlan[a] ELSE Unbound],
                       claims |-> [a \in Assignments |->
                          [state |-> IF a \in startable THEN "PROVISIONAL" ELSE "UNCLAIMED", at |-> 0]]]
           /\ todo' = {InitialPlan[a].uav : a \in startable}
           /\ fleet' = IF startable = {} THEN "FAILED_NO_EXECUTABLE_PLAN" ELSE "PLANNING"
           /\ pc' = IF startable = {} THEN "idle" ELSE "starting"
  BY Zenon DEF Start
<1>p. planned = {a \in Assignments : InitialPlan[a] # Unbound}
  OBVIOUS
<1> HIDE DEF planned
<1>s. PICK startable : startable = {a \in planned : declared[a] \in Startable}
  OBVIOUS
<1>2. /\ record' = [a \in Assignments |-> IF a \in planned THEN declared[a] ELSE "none"]
      /\ agent' = [u \in Uavs |-> IF \E a \in startable : InitialPlan[a].uav = u THEN "IDLE" ELSE "none"]
      /\ live'.binding = [a \in Assignments |-> IF a \in startable THEN InitialPlan[a] ELSE Unbound]
      /\ live'.claims = [a \in Assignments |->
                          [state |-> IF a \in startable THEN "PROVISIONAL" ELSE "UNCLAIMED", at |-> 0]]
      /\ live' = [binding |-> live'.binding, claims |-> live'.claims]
      /\ todo' = {InitialPlan[a].uav : a \in startable}
      /\ fleet' = IF startable = {} THEN "FAILED_NO_EXECUTABLE_PLAN" ELSE "PLANNING"
      /\ pc' = IF startable = {} THEN "idle" ELSE "starting"
      /\ plan' = InitialPlan
  BY <1>1, <1>s DEF Start
<1>3. /\ fleet = "IDLE" /\ UNCHANGED <<policy, replies, staged, retired, former, landings, ready, reassign, cancelRequested,
                                       held, observed>>
      /\ FleetTypeOK /\ staged = NoStage /\ Routed = {} /\ cancelRequested = FALSE /\ landings = {} /\ retired = {}
      /\ ready \subseteq Assignments /\ reassign \subseteq Assignments /\ held \subseteq Uavs /\ observed \in BOOLEAN
      /\ policy \in Policies /\ replies \in Handlers
  BY DEF Start, fixedVars, FleetInv, FleetTypeOK, PlaceInv, ClaimsInv
<1>4. /\ planned \subseteq Assignments /\ startable \subseteq planned /\ IsFiniteSet(planned)
      /\ \A a \in planned : /\ InitialPlan[a] \in Bindings /\ InitialPlan[a] # Unbound
                            /\ InitialPlan[a].uav \in Uavs /\ InitialPlan[a].target \in Targets
      /\ \A a \in Assignments \ planned : InitialPlan[a] = Unbound
      /\ \A a, b \in planned : InitialPlan[a].uav = InitialPlan[b].uav => a = b
      /\ Exclusive => \A a, b \in planned : InitialPlan[a].target = InitialPlan[b].target => a = b
      /\ InitialPlan \in [Assignments -> Bindings \cup {Unbound}]
  BY <1>p, <1>s, FleetAssumption DEF Bindings
<1>5. /\ \A a \in startable : declared[a] \in {"PENDING", "READY"}
      /\ \A a \in planned \ startable : declared[a] = "REASSIGNMENT_REQUIRED"
  BY <1>s DEF Startable
<1>6. /\ \A a \in startable : record'[a] \in {"PENDING", "READY"}
      /\ \A a \in planned \ startable : record'[a] = "REASSIGNMENT_REQUIRED"
      /\ \A a \in Assignments \ planned : record'[a] = "none"
      /\ record' \in [Assignments -> {"PENDING", "READY", "REASSIGNMENT_REQUIRED", "none"}]
  BY <1>2, <1>4, <1>5
<1>7. {"PENDING", "READY", "REASSIGNMENT_REQUIRED", "none"} \subseteq RecordStates /\ "none" \in AgentStates
      /\ "IDLE" \in AgentStates /\ {"IDLE", "none"} \cap Airborne = {}
  BY DEF RecordStates, AgentStates, Airborne, Terminal, Startable
<1>8. /\ agent' \in [Uavs -> {"IDLE", "none"}]
      /\ \A a \in startable : agent'[InitialPlan[a].uav] = "IDLE"
  BY <1>2, <1>4
<1>9. Routed' = planned
  BY <1>4, <1>6 DEF Routed
<1>10. /\ \A a \in startable : live'.binding[a] = InitialPlan[a] /\ live'.claims[a].state = "PROVISIONAL"
       /\ \A a \in Assignments \ startable : live'.binding[a] = Unbound /\ live'.claims[a].state = "UNCLAIMED"
       /\ \A a \in Assignments : live'.claims[a].at = 0
  BY <1>2, <1>4
<1>11. ClaimsInv'
  <2>1. 0 \in Times /\ "PROVISIONAL" \in ClaimStates /\ "UNCLAIMED" \in ClaimStates
        /\ {"PROVISIONAL", "UNCLAIMED"} \cap HolderStates = {}
    BY RegistryAssumption DEF Times, ClaimStates, ActiveStates, HolderStates
  <2>2. live'.binding \in [Assignments -> Bindings \cup {Unbound}]
    BY <1>2, <1>4
  <2>3. live'.claims \in [Assignments -> [state : ClaimStates, at : Times]]
    BY <1>2, <2>1
  <2>4. live' \in Registries
    BY <1>2, <2>2, <2>3 DEF Registries
  <2>5. \A a \in Assignments : (Bound(live', a) <=> a \in startable) /\ ~Holder(live', a)
    BY <1>4, <1>10, <2>1 DEF Bound, Holder
  <2>6. WellFormed(live')
    BY <1>10, <2>4, <2>5 DEF WellFormed
  <2>7. OneHolderIn(live')
    BY <2>5 DEF OneHolderIn
  <2>8. OneAssignmentIn(live')
    BY <1>4, <1>10, <2>5 DEF OneAssignmentIn
  <2>. QED BY <1>3, <1>10, <2>6, <2>7, <2>8 DEF ClaimsInv, Sound, WellFormed, OneHolderIn, OneAssignmentIn
<1>12. FleetTypeOK'
  <2>1. RegistryTypeOK'
    BY <1>11 DEF ClaimsInv, Sound, RegistryTypeOK
  <2>2. record' \in [Assignments -> RecordStates] /\ agent' \in [Uavs -> AgentStates]
    BY <1>6, <1>7, <1>8
  <2>3. todo' \subseteq Uavs \cup Assignments
    BY <1>2, <1>4
  <2>. QED BY <1>2, <1>3, <1>4, <2>1, <2>2, <2>3 DEF FleetTypeOK, FleetTerminal
<1>13. RouteInv'
  <2>1. \A a \in Assignments : plan'[a] = Unbound <=> record'[a] = "none"
    BY <1>2, <1>4, <1>6
  <2>2. \A a \in Routed' : Bound(live', a) => live'.binding[a] = plan'[a]
    BY <1>2, <1>4, <1>9, <1>10 DEF Bound
  <2>3. \A u \in Uavs : agent'[u] \notin Airborne
    BY <1>7, <1>8
  <2>4. retired' = {} /\ \A u \in Uavs : former'[u] = "none"
    BY <1>3 DEF FleetInv, RouteInv
  <2>. QED BY <1>2, <1>3, <1>4, <1>9, <2>1, <2>2, <2>3, <2>4 DEF RouteInv, Bound
<1>14. GoalInv'
  <2>1. \A x : Serving(x)' = Planned(x) /\ Planned(x)' = Planned(x)
    BY <1>2, <1>9, <1>p DEF Serving, Planned
  <2>2. \A x : Planned(x) \subseteq planned
    BY <1>p DEF Planned
  <2>3. \A x : IsFiniteSet(Planned(x))
    BY <1>4, <2>2, FS_Subset
  <2>. QED BY <2>1, <2>3 DEF GoalInv
<1>15. ASSUME NEW a \in Assignments PROVE RowInv(a)' /\ Moved(a)
  <2>1. record[a] = "none" /\ record[a] \notin Terminal
    BY <1>3 DEF Routed, Terminal
  <2>2. a \in Routed' => Pilot(a)' = agent'[InitialPlan[a].uav]
    BY <1>2 DEF Pilot
  <2>3. record'[a] # "CANCELING" /\ record'[a] \notin {"SUCCEEDED", "CANCELED"}
    BY <1>6
  <2>4. ClaimRow(a)'
    BY <1>3, <1>4, <1>6, <1>10 DEF ClaimRow, Active, ActiveStates, HolderStates, Claiming, Startable
  <2>5. FlightRow(a)'
    <3>1. a \in Routed' => Pilot(a)' \in {"IDLE", "none"}
      BY <1>4, <1>8, <1>9, <2>2
    <3>2. a \in Routed' /\ record'[a] \in Startable => Pilot(a)' = "IDLE"
      BY <1>5, <1>6, <1>8, <1>9, <2>2 DEF Startable
    <3>. QED BY <2>3, <3>1, <3>2 DEF FlightRow
  <2>6. LandingRow(a)'
    BY <1>3, <2>3 DEF LandingRow
  <2>. QED BY <2>1, <2>4, <2>5, <2>6 DEF RowInv, Moved
<1>16. HeldInv'
  BY <1>2 DEF HeldInv
<1>17. PlaceInv'
  <2>1. startable # {} => Routed' # {}
    BY <1>4, <1>9
  <2>2. todo' \subseteq Uavs /\ \A u \in todo' : RouteOn(u)' # {}
    BY <1>2, <1>4, <1>9 DEF RouteOn
  <2>3. fleet' \in {"FAILED_NO_EXECUTABLE_PLAN", "PLANNING"} /\ pc' \in {"idle", "starting"}
        /\ (fleet' = "PLANNING" <=> startable # {}) /\ (pc' = "starting" <=> startable # {})
    BY <1>2
  <2>. QED BY <2>1, <2>2, <2>3 DEF PlaceInv, FleetTerminal
<1>18. NoLaunch
  BY <1>8 DEF NoLaunch
<1>19. BindingsKept
  BY <1>3 DEF FleetInv, PlaceInv, BindingsKept
<1>. QED BY <1>11, <1>12, <1>13, <1>14, <1>15, <1>16, <1>17, <1>18, <1>19 DEF FleetInv, Lawful

-----------------------------------------------------------------------------
(* Replans.                                                                 *)

\* An assignment that waits to be replanned has a claim, but not an active one.
LEMMA WaitingFact ==
  ASSUME FleetInv, NEW a \in Assignments, record[a] = "WAITING_REASSIGNMENT"
  PROVE  /\ a \in Routed /\ record[a] \notin Terminal /\ ~Active(live, a) /\ Bound(live, a)
         /\ live.claims[a].state \notin {"UNCLAIMED", "TERMINATED"} /\ live.binding[a] = plan[a]
         /\ RowInv(a) /\ Pilot(a) \in AgentStates \ {"SUCCEEDED"} /\ (a \in landings /\ Tame => Pilot(a) = "SHUTDOWN")
         /\ Sound(live) /\ RouteInv /\ FleetTypeOK /\ \A b \in Assignments : live.claims[b].at = 0
<1>1. a \in Routed /\ record[a] \notin Terminal /\ RowInv(a) /\ Sound(live) /\ RouteInv /\ FleetTypeOK
      /\ \A b \in Assignments : live.claims[b].at = 0
  BY LiveFact DEF Routed, Terminal, FleetInv
<1>2. ~Active(live, a) /\ live.claims[a].state \notin {"UNCLAIMED", "TERMINATED"}
  BY <1>1 DEF RowInv, ClaimRow, Claiming, Startable
<1>3. Bound(live, a) /\ live.binding[a] = plan[a]
  BY <1>1, <1>2 DEF Sound, WellFormed, RouteInv
<1>4. Pilot(a) \in AgentStates
  BY <1>1, RouteFact
<1>5. Pilot(a) # "SUCCEEDED" /\ (a \in landings /\ Tame => Pilot(a) = "SHUTDOWN")
  BY <1>1 DEF RowInv, FlightRow, LandingRow
<1>. QED BY <1>1, <1>2, <1>3, <1>4, <1>5

\* The same vehicle tries again.
LEMMA ReregisterStep ==
  ASSUME FleetInv, NEW a \in Assignments, record[a] = "WAITING_REASSIGNMENT", "same" \in replies,
         UNCHANGED fixedVars, Reregister(a)
  PROVE  FlightStep /\ ready' \subseteq ready \cup Assignments
<1>0. /\ a \in Routed /\ record[a] \notin Terminal /\ Bound(live, a) /\ live.binding[a] = plan[a]
      /\ live.claims[a].state \notin {"UNCLAIMED", "TERMINATED"} /\ RowInv(a)
      /\ Sound(live) /\ RouteInv /\ FleetTypeOK /\ \A b \in Assignments : live.claims[b].at = 0
      /\ plan[a] \in Bindings
  BY WaitingFact, RouteFact
<1>1. /\ agent' = [agent EXCEPT ![plan[a].uav] = "IDLE"]
      /\ live' = AfterBind(live, a, plan[a], "PROVISIONAL", 0)
      /\ record' = [record EXCEPT ![a] = "READY"]
      /\ ready' = ready \cup {a} /\ reassign' = reassign \ {a}
      /\ UNCHANGED <<plan, retired, former, landings, cancelRequested, policy, replies, staged>>
  BY DEF Reregister, fixedVars
<1>2. Bindable(live, a, plan[a])
  BY <1>0 DEF Bindable, Sound, OneAssignmentIn
<1>3. /\ Sound(live') /\ live'.binding = [live.binding EXCEPT ![a] = plan[a]]
      /\ \A b \in Assignments : live'.claims[b].at = 0
      /\ live'.claims[a].state = "PROVISIONAL"
      /\ \A b \in Assignments \ {a} : live'.claims[b] = live.claims[b]
  <2>1. PICK bind \in Bindings : bind = plan[a]
    BY <1>0
  <2>2. PICK Q : Q = AfterBind(live, a, bind, "PROVISIONAL", 0)
    OBVIOUS
  <2>3. live' = Q /\ Bindable(live, a, bind)
    BY <1>1, <1>2, <2>1, <2>2
  <2>. QED BY <1>0, <2>1, <2>2, <2>3, BoundFact
<1>4. live'.binding = live.binding
  <2>1. live.binding \in [Assignments -> Bindings \cup {Unbound}]
    BY <1>0 DEF Sound, WellFormed, Registries
  <2>. QED BY <1>0, <1>3, <2>1
<1>5. "READY" \in RecordStates \ {"none"} /\ "IDLE" \in AgentStates /\ "READY" \in Claiming
      /\ "READY" \notin Terminal
  BY DEF RecordStates, AgentStates, Claiming, Startable, Terminal
<1>6. Touched(a, "READY", "IDLE")
  BY <1>1, <1>3, <1>4 DEF Touched
<1>7. /\ MissionTyped' /\ Keeps /\ NoLaunch
      /\ \A b \in Assignments \ {a} : RowInv(b)' /\ Moved(b) /\ record'[b] = record[b]
      /\ record'[a] = "READY" /\ Pilot(a)' = "IDLE"
      /\ Routed' = Routed /\ Plain' = Plain /\ Tame' = Tame /\ policy' = policy /\ replies' = replies
  BY <1>0, <1>5, <1>6, OneRow
<1>8. ClaimRow(a)'
  BY <1>3, <1>5, <1>7 DEF ClaimRow
<1>9. FlightRow(a)'
  BY <1>5, <1>7 DEF FlightRow
<1>10. LandingRow(a)'
  BY <1>0, <1>1, <1>7 DEF RowInv, LandingRow, Plain
<1>11. Moved(a)
  BY <1>0 DEF Moved
<1>. QED BY <1>1, <1>7, <1>8, <1>9, <1>10, <1>11 DEF FlightStep, RowInv

\* The replan fails, the vehicle is taken down.
LEMMA ReplanFailsStep ==
  ASSUME FleetInv, NEW a \in Assignments, record[a] = "WAITING_REASSIGNMENT",
         UNCHANGED fixedVars, ReplanFails(a)
  PROVE  FlightStep /\ ready' = ready
<1>0. /\ a \in Routed /\ record[a] \notin Terminal /\ ~Active(live, a)
      /\ Pilot(a) \in AgentStates \ {"SUCCEEDED"} /\ (a \in landings /\ Tame => Pilot(a) = "SHUTDOWN")
      /\ plan[a].uav \in Uavs /\ agent \in [Uavs -> AgentStates]
  BY WaitingFact, RouteFact DEF FleetTypeOK
<1>1. /\ "fails" \in replies \/ "handoff" \in replies
      /\ BeginLanding(a, agent) /\ UNCHANGED <<plan, live, retired, former, ready>>
  BY DEF ReplanFails
<1>2. PICK s \in AgentStates \ {"SUCCEEDED"} : s = Pilot(a)
  BY <1>0
<1>3. agent = [agent EXCEPT ![plan[a].uav] = s]
  BY <1>0, <1>2 DEF Pilot
<1>4. BeginLanding(a, [agent EXCEPT ![plan[a].uav] = s])
  BY <1>1, <1>3
<1>. QED BY <1>0, <1>1, <1>2, <1>4, LandingStep

\* Another vehicle takes over.
LEMMA HandOverStep ==
  ASSUME FleetInv, NEW a \in Assignments, record[a] = "WAITING_REASSIGNMENT",
         NEW b \in Assignments, NEW v \in Uavs, Admissible(a, b, v), pc = "replan", todo' \subseteq todo,
         UNCHANGED <<fleet, fixedVars, pc, held, observed>>, HandOver(a, b, v)
  PROVE  FleetInv' /\ Lawful
<1> DEFINE u == plan[a].uav
           bind == [plan[a] EXCEPT !.uav = v]
<1>0. /\ a \in Routed /\ record[a] \notin Terminal /\ Bound(live, a) /\ live.binding[a] = plan[a]
      /\ ~Active(live, a) /\ live.claims[a].state \notin {"UNCLAIMED", "TERMINATED"} /\ RowInv(a)
      /\ Sound(live) /\ RouteInv /\ FleetTypeOK /\ \A x \in Assignments : live.claims[x].at = 0
      /\ plan[a] \in Bindings /\ u \in Uavs /\ RouteOn(u) = {a} /\ plan[a].target \in Targets
  BY WaitingFact, RouteFact
<1>1. /\ ~cancelRequested /\ "raised" \notin SourceAfter(agent[u])
      /\ plan' = [plan EXCEPT ![a] = Unbound, ![b] = bind]
      /\ record' = [record EXCEPT ![a] = "none", ![b] = "READY"]
      /\ live' = AfterBind(live, b, bind, "PROVISIONAL", 0)
      /\ ready' = ready \cup {b} /\ reassign' = reassign \ {a}
      /\ UNCHANGED <<landings, cancelRequested, policy, replies, staged, fleet, pc, held, observed>>
  BY DEF HandOver, Rerouted, fixedVars
<1>2. PICK s \in SourceAfter(agent[u]) :
         /\ agent' = [agent EXCEPT ![u] = s, ![v] = "IDLE"]
         /\ retired' = IF s \in AgentTerminal THEN retired ELSE retired \cup {u}
         /\ former' = LET kept == IF v \in retired /\ former[v] = "none"
                                  THEN [former EXCEPT ![v] = agent[v]] ELSE former
                      IN  IF s \in AgentTerminal THEN kept ELSE [kept EXCEPT ![u] = "none"]
  BY DEF HandOver
<1>3. s \in AgentStates /\ (s \in AgentTerminal \/ s = "SHUTDOWN") /\ (s \in Airborne => s = "SHUTDOWN")
      /\ "SHUTDOWN" \notin AgentTerminal
  BY <1>1, <1>2 DEF SourceAfter, CancelResults, AgentTerminal, AgentStates, Airborne
<1>4. /\ record[b] = "none" /\ RouteOn(v) = {}
      /\ Bound(live, b) => live.binding[b] = bind
      /\ \A x \in Assignments : (Bound(live, x) /\ live.binding[x].uav = v) => x = b
      /\ b # a /\ v # u /\ b \notin Routed /\ live.claims[b].state # "TERMINATED" /\ ~Active(live, b)
  <2>1. ClaimRow(b)
    BY DEF FleetInv, RowInv
  <2>2. "none" \notin Claiming /\ "none" # "SUCCEEDED" /\ "none" # "WAITING_REASSIGNMENT"
    BY DEF Claiming, Startable
  <2>. QED BY <1>0, <2>1, <2>2 DEF Admissible, Routed, ClaimRow
<1>5. /\ bind \in Bindings /\ bind.uav = v /\ bind.target = plan[a].target /\ bind # Unbound
  BY <1>0, RegistryAssumption DEF Bindings
<1>6. /\ Sound(live') /\ live'.binding = [live.binding EXCEPT ![b] = bind]
      /\ \A x \in Assignments : live'.claims[x].at = 0
      /\ live'.claims[b].state = "PROVISIONAL"
      /\ \A x \in Assignments \ {b} : live'.claims[x] = live.claims[x]
  <2>1. PICK d \in Bindings : d = bind
    BY <1>5
  <2>2. PICK Q : Q = AfterBind(live, b, d, "PROVISIONAL", 0)
    OBVIOUS
  <2>3. live' = Q /\ Bindable(live, b, d) /\ live.claims[b].state # "TERMINATED"
    BY <1>1, <1>4, <1>5, <2>1, <2>2 DEF Bindable, Bound
  <2>. QED BY <1>0, <1>4, <2>1, <2>2, <2>3, BoundFact
<1> HIDE DEF u, bind
<1>7. /\ \A x \in Assignments : live'.binding[x] = IF x = b THEN bind ELSE live.binding[x]
      /\ \A x \in Assignments : plan'[x] = IF x = a THEN Unbound ELSE IF x = b THEN bind ELSE plan[x]
      /\ \A x \in Assignments : record'[x] = IF x = a THEN "none" ELSE IF x = b THEN "READY" ELSE record[x]
      /\ \A w \in Uavs : agent'[w] = IF w = u THEN s ELSE IF w = v THEN "IDLE" ELSE agent[w]
  <2>1. live.binding \in [Assignments -> Bindings \cup {Unbound}]
    BY <1>0 DEF Sound, WellFormed, Registries
  <2>2. plan \in [Assignments -> Bindings \cup {Unbound}] /\ record \in [Assignments -> RecordStates]
        /\ agent \in [Uavs -> AgentStates]
    BY <1>0 DEF FleetTypeOK
  <2>. QED BY <1>0, <1>1, <1>2, <1>4, <1>6, <2>1, <2>2
<1>8. Routed' = (Routed \ {a}) \cup {b} /\ \A x \in Routed : x \in Assignments
  BY <1>4, <1>7 DEF Routed
<1>9. \A x \in Routed \ {a} : x # b /\ plan'[x] = plan[x] /\ plan[x].uav \in Uavs /\ plan[x].uav # u /\ plan[x].uav # v
  <2> SUFFICES ASSUME NEW x \in Routed, x # a
               PROVE  x # b /\ plan'[x] = plan[x] /\ plan[x].uav \in Uavs /\ plan[x].uav # u /\ plan[x].uav # v
    OBVIOUS
  <2>1. plan[x].uav \in Uavs /\ x \in RouteOn(plan[x].uav)
    BY <1>0, RouteFact DEF RouteOn
  <2>. QED BY <1>0, <1>4, <1>7, <1>8, <2>1
<1>10. RouteInv'
  <2>1. \A x \in Assignments : plan'[x] = Unbound <=> record'[x] = "none"
    BY <1>0, <1>4, <1>5, <1>7 DEF RouteInv
  <2>2. \A x, y \in Routed' : plan'[x].uav = plan'[y].uav => x = y
    BY <1>0, <1>4, <1>5, <1>7, <1>8, <1>9 DEF RouteInv
  <2>3. Exclusive => \A x, y \in Routed' : plan'[x].target = plan'[y].target => x = y
    BY <1>0, <1>4, <1>5, <1>7, <1>8, <1>9 DEF RouteInv
  <2>4. \A x \in Routed' : Bound(live', x) => live'.binding[x] = plan'[x]
    BY <1>0, <1>4, <1>7, <1>8, <1>9 DEF RouteInv, Bound
  <2>5. \A w : RouteOn(w)' = {x \in Routed' : plan'[x].uav = w}
    BY DEF RouteOn
  <2>6. \A w \in Uavs : w # u /\ w # v => RouteOn(w)' = RouteOn(w)
    <3> SUFFICES ASSUME NEW w \in Uavs, w # u, w # v PROVE RouteOn(w)' = RouteOn(w)
      OBVIOUS
    <3>1. RouteOn(w) = {x \in Routed \ {a} : plan[x].uav = w}
      BY <1>0 DEF RouteOn, u
    <3>2. RouteOn(w)' = {x \in Routed \ {a} : plan'[x].uav = w}
      BY <1>4, <1>5, <1>7, <1>8, <2>5
    <3>. QED BY <1>9, <3>1, <3>2
  <2>7. \A w : w = u => RouteOn(w)' = {}
    BY <1>4, <1>5, <1>7, <1>8, <1>9, <2>5
  <2>8. RouteOn(v)' # {}
    BY <1>4, <1>5, <1>7, <1>8, <2>5
  <2>9. u \notin retired \/ former[u] # "none"
    BY <1>0 DEF RouteInv
  <2>10. \A w \in Uavs :
           former'[w] = IF w = u THEN (IF s \in AgentTerminal THEN former[u] ELSE "none")
                        ELSE IF w = v /\ v \in retired /\ former[v] = "none" THEN "SHUTDOWN" ELSE former[w]
    <3>1. v \in retired /\ former[v] = "none" => agent[v] = "SHUTDOWN"
      BY <1>0 DEF RouteInv
    <3>2. former \in [Uavs -> AgentStates]
      BY <1>0 DEF FleetTypeOK
    <3>. QED BY <1>0, <1>2, <1>4, <3>1, <3>2
  <2>11. /\ \A w \in retired' : w = u \/ w \in retired
         /\ \A w \in retired : w \in retired' /\ w \in Uavs
         /\ s \notin AgentTerminal => u \in retired'
    BY <1>0, <1>2 DEF FleetTypeOK
  <2>12. \A w \in retired' : former'[w] = "none" => RouteOn(w)' = {} /\ agent'[w] = "SHUTDOWN"
    <3> SUFFICES ASSUME NEW w \in retired', former'[w] = "none" PROVE RouteOn(w)' = {} /\ agent'[w] = "SHUTDOWN"
      OBVIOUS
    <3>1. CASE w = u
      <4>1. s = "SHUTDOWN"
        BY <1>0, <1>2, <1>3, <2>9, <2>10, <3>1
      <4>. QED BY <1>0, <1>7, <2>7, <3>1, <4>1
    <3>2. CASE w # u
      <4>1. w \in retired /\ w \in Uavs
        BY <2>11, <3>2
      <4>2. w # v /\ former[w] = "none"
        BY <2>10, <3>2, <4>1
      <4>3. RouteOn(w) = {} /\ agent[w] = "SHUTDOWN"
        BY <1>0, <4>1, <4>2 DEF RouteInv
      <4>. QED BY <1>7, <2>6, <3>2, <4>1, <4>2, <4>3
    <3>. QED BY <3>1, <3>2
  <2>13. \A w \in Uavs : former'[w] # "none" => w \in retired' /\ former'[w] = "SHUTDOWN"
    BY <1>0, <2>10, <2>11 DEF RouteInv
  <2>14. \A w \in Uavs : agent'[w] \in Airborne => RouteOn(w)' # {} \/ (w \in retired' /\ former'[w] = "none")
    <3> SUFFICES ASSUME NEW w \in Uavs, agent'[w] \in Airborne
                 PROVE  RouteOn(w)' # {} \/ (w \in retired' /\ former'[w] = "none")
      OBVIOUS
    <3>1. CASE w = u
      BY <1>3, <1>7, <2>10, <2>11, <3>1
    <3>2. CASE w = v
      BY <2>8, <3>2
    <3>3. CASE w # u /\ w # v
      BY <1>0, <1>7, <2>6, <2>10, <2>11, <3>3 DEF RouteInv
    <3>. QED BY <3>1, <3>2, <3>3
  <2>. QED BY <2>1, <2>2, <2>3, <2>4, <2>12, <2>13, <2>14 DEF RouteInv
<1>11. GoalInv'
  <2>1. \A x \in Targets : IsFiniteSet(Serving(x)) /\ Cardinality(Serving(x)) = Cardinality(Planned(x))
    BY <1>0 DEF FleetInv, GoalInv
  <2>2. \A x : Planned(x)' = Planned(x)
    BY DEF Planned
  <2>3. ASSUME NEW x \in Targets
        PROVE  IsFiniteSet(Serving(x)') /\ Cardinality(Serving(x)') = Cardinality(Planned(x))
    <3>0. Serving(x)' = {y \in Routed' : plan'[y].target = x}
      BY DEF Serving
    <3>1. CASE x = plan[a].target
      <4>1. Serving(x)' = (Serving(x) \ {a}) \cup {b}
        BY <1>4, <1>5, <1>7, <1>8, <1>9, <3>0, <3>1 DEF Serving
      <4>2. a \in Serving(x) /\ b \notin Serving(x) \ {a}
        BY <1>0, <1>4, <3>1 DEF Serving
      <4>3. IsFiniteSet(Serving(x) \ {a}) /\ Cardinality(Serving(x) \ {a}) = Cardinality(Serving(x)) - 1
        BY <2>1, <4>2, FS_RemoveElement
      <4>4. /\ IsFiniteSet((Serving(x) \ {a}) \cup {b})
            /\ Cardinality((Serving(x) \ {a}) \cup {b}) = Cardinality(Serving(x) \ {a}) + 1
        BY <4>2, <4>3, FS_AddElement
      <4>5. Cardinality(Serving(x)) \in Nat
        BY <2>1, FS_CardinalityType
      <4>. QED BY <2>1, <4>1, <4>3, <4>4, <4>5
    <3>2. CASE x # plan[a].target
      <4>1. Serving(x)' = Serving(x)
        BY <1>4, <1>5, <1>7, <1>8, <1>9, <3>0, <3>2 DEF Serving
      <4>. QED BY <2>1, <4>1
    <3>. QED BY <3>1, <3>2
  <2>. QED BY <2>2, <2>3 DEF GoalInv
<1>12. ClaimsInv'
  BY <1>1, <1>6 DEF FleetInv, ClaimsInv, Sound, WellFormed, OneHolderIn, OneAssignmentIn
<1>13. FleetTypeOK'
  <2>1. RegistryTypeOK'
    BY <1>12 DEF ClaimsInv, Sound, RegistryTypeOK
  <2>2. plan' \in [Assignments -> Bindings \cup {Unbound}]
    BY <1>0, <1>1, <1>5 DEF FleetTypeOK
  <2>3. record' \in [Assignments -> RecordStates]
    BY <1>0, <1>1 DEF FleetTypeOK, RecordStates, Startable
  <2>4. agent' \in [Uavs -> AgentStates]
    BY <1>0, <1>2, <1>3 DEF FleetTypeOK, AgentStates
  <2>6. former' \in [Uavs -> AgentStates]
    BY <1>0, <1>2 DEF FleetTypeOK, AgentStates
  <2>5. retired' \subseteq Uavs /\ ready' \subseteq Assignments /\ reassign' \subseteq Assignments
        /\ todo' \subseteq Uavs \cup Assignments
    BY <1>0, <1>1, <1>2, <1>4 DEF FleetTypeOK
  <2>. QED BY <1>0, <1>1, <2>1, <2>2, <2>3, <2>4, <2>5, <2>6 DEF FleetTypeOK
<1>14. ASSUME NEW x \in Assignments PROVE RowInv(x)' /\ Moved(x)
  <2>1. CASE x = a
    <3>1. record'[x] = "none" /\ x \notin Routed' /\ live'.claims[x] = live.claims[x]
      BY <1>0, <1>4, <1>6, <1>7, <1>8, <2>1
    <3>2. Tame' = Tame /\ Plain' = Plain
      BY <1>1 DEF Tame, Plain
    <3>3. ClaimRow(x)'
      BY <1>0, <2>1, <3>1 DEF ClaimRow, Active
    <3>4. FlightRow(x)'
      BY <3>1 DEF FlightRow
    <3>7. ~(a \in landings /\ Tame)
      BY <1>0, <1>1 DEF RowInv, LandingRow, SourceAfter, CancelResults, AgentTerminal, Pilot, u
    <3>5. LandingRow(x)'
      BY <1>0, <1>1, <2>1, <3>1, <3>2, <3>7 DEF RowInv, LandingRow, Startable
    <3>6. Moved(x)
      BY <1>0, <2>1 DEF Moved
    <3>. QED BY <3>3, <3>4, <3>5, <3>6 DEF RowInv
  <2>2. CASE x = b
    <3>1. record'[x] = "READY" /\ Pilot(x)' = "IDLE"
      BY <1>4, <1>5, <1>7, <2>2 DEF Pilot
    <3>2. ~(x \in landings /\ Tame) /\ Tame' = Tame
      BY <1>1, <1>4, <2>2 DEF FleetInv, RowInv, LandingRow, Tame
    <3>3. ClaimRow(x)'
      BY <1>1, <1>6, <2>2, <3>1 DEF ClaimRow, Claiming, Startable
    <3>4. FlightRow(x)'
      BY <3>1 DEF FlightRow, Startable
    <3>5. LandingRow(x)'
      BY <1>1, <3>1, <3>2 DEF LandingRow
    <3>6. Moved(x)
      BY <1>4, <2>2 DEF Moved, Terminal
    <3>. QED BY <3>3, <3>4, <3>5, <3>6 DEF RowInv
  <2>3. CASE x # a /\ x # b
    <3>1. record'[x] = record[x] /\ live'.claims[x].state = live.claims[x].state
      BY <1>6, <1>7, <2>3
    <3>2. x \in Routed => Pilot(x)' = Pilot(x)
      BY <1>7, <1>9, <2>3 DEF Pilot
    <3>. QED BY <1>1, <3>1, <3>2, RowCopy
  <2>. QED BY <2>1, <2>2, <2>3
<1>15. HeldInv'
  BY <1>1 DEF HeldInv
<1>16. PlaceInv'
  <2>1. fleet \in {"PLANNING", "RUNNING"} /\ todo \subseteq Assignments
    BY <1>0 DEF FleetInv, PlaceInv, FleetTypeOK
  <2>. QED BY <1>1, <1>8, <2>1 DEF PlaceInv, FleetTerminal
<1>17. NoLaunch
  BY <1>1 DEF NoLaunch
<1>18. BindingsKept
  BY <1>4, <1>7 DEF BindingsKept, Bound
<1>. QED BY <1>10, <1>11, <1>12, <1>13, <1>14, <1>15, <1>16, <1>17, <1>18 DEF FleetInv, Lawful

LEMMA ReplanStep == FleetInv /\ Replan => FleetInv' /\ Lawful
<1> SUFFICES ASSUME FleetInv, Replan PROVE FleetInv' /\ Lawful
  OBVIOUS
<1>a. PICK a : a = FirstOf(todo)
  OBVIOUS
<1>1. /\ pc = "replan" /\ todo # {} /\ todo' = todo \ {a}
      /\ UNCHANGED <<fleet, fixedVars, pc, held, observed>>
      /\ IF record[a] = "WAITING_REASSIGNMENT" THEN ReplanLater(a) \/ Replanned(a)
         ELSE /\ reassign' = reassign \ {a}
              /\ UNCHANGED <<plan, record, agent, live, retired, former, landings, ready, cancelRequested>>
  BY <1>a DEF Replan
<1>2. todo \subseteq Assignments /\ todo \subseteq Nat
  BY <1>1, RegistryAssumption DEF FleetInv, PlaceInv
<1>3. a \in todo /\ a \in Assignments
  BY <1>a, <1>1, <1>2, FirstFact
<1>4. ASSUME FlightStep, ready' \subseteq ready \cup Assignments PROVE FleetInv' /\ Lawful
  BY <1>1, <1>3, <1>4, VisitStep
<1>5. CASE record[a] # "WAITING_REASSIGNMENT" \/ ReplanLater(a)
  <2>1. /\ UNCHANGED <<plan, record, agent, retired, former, landings, cancelRequested, live, fixedVars, ready>>
        /\ reassign' \subseteq reassign
    BY <1>1, <1>5 DEF ReplanLater
  <2>. QED BY <1>4, <2>1, StillStep
<1>6. CASE record[a] = "WAITING_REASSIGNMENT" /\ "same" \in replies /\ Reregister(a)
  BY <1>1, <1>3, <1>4, <1>6, ReregisterStep
<1>7. CASE /\ record[a] = "WAITING_REASSIGNMENT"
           /\ \E b \in Assignments, v \in Uavs : Admissible(a, b, v) /\ HandOver(a, b, v)
  <2>1. PICK b \in Assignments, v \in Uavs : Admissible(a, b, v) /\ HandOver(a, b, v)
    BY <1>7
  <2>. QED BY <1>1, <1>3, <1>7, <2>1, HandOverStep
<1>8. CASE record[a] = "WAITING_REASSIGNMENT" /\ ReplanFails(a)
  BY <1>1, <1>3, <1>4, <1>8, ReplanFailsStep
<1>. QED BY <1>1, <1>5, <1>6, <1>7, <1>8 DEF Replanned

LEMMA FleetStep == FleetInv /\ [FleetNext]_fleetVars => FleetInv' /\ Lawful
<1> SUFFICES ASSUME FleetInv, [FleetNext]_fleetVars PROVE FleetInv' /\ Lawful
  OBVIOUS
<1>1. CASE \E obs \in BOOLEAN, hold \in SUBSET Ticked : Advance(obs, hold)
  <2>1. PICK obs \in BOOLEAN, hold \in SUBSET Uavs : Advance(obs, hold)
    BY <1>1 DEF Ticked, FleetInv, FleetTypeOK
  <2>. QED BY <2>1, AdvanceStep
<1>2. CASE Stopped \/ UNCHANGED fleetVars
  BY <1>2, IdleStep DEF Stopped
<1>3. CASE TickStep
  BY <1>1, <1>3, TickBeginStep, StartReadyStep, TickRetiredStep, RetiredEndStep, VisitAgentStep,
     AgentsEndStep, ReplanStep, TickEndStep DEF TickStep
<1>. QED BY <1>2, <1>3, StartFailsStep, StartStep, StartAgentStep, StartEndsStep, UserCancelStep DEF FleetNext

\* The inductive invariant of the fleet.
THEOREM FleetInvariant == FleetSpec => []FleetInv
<1>1. FleetInit => FleetInv
  BY FleetInitInv
<1>2. FleetInv /\ [FleetNext]_fleetVars => FleetInv'
  BY FleetStep
<1>. QED BY <1>1, <1>2, PTL DEF FleetSpec

-----------------------------------------------------------------------------
(* The properties of the fleet.                                             *)

\* State of the runtime: every record, agent, claim and list has its type after
\* every step of start(), cancel() and tick().
THEOREM FleetTypeCorrect == FleetSpec => []FleetTypeOK
<1>1. FleetInv => FleetTypeOK
  BY DEF FleetInv
<1>. QED BY <1>1, FleetInvariant, PTL

\* Claims under failures, cancellations and handovers: who has an active claim is
\* routed to its target on its vehicle, with an assignment that is open.
THEOREM FleetClaimsRouted == FleetSpec => []ClaimsRouted
<1>1. ASSUME FleetInv PROVE ClaimsRouted
  <2> SUFFICES ASSUME NEW a \in Assignments, Active(live, a)
               PROVE  /\ plan[a] = live.binding[a]
                      /\ record[a] \in Startable \cup {"RUNNING", "HOLDING", "CLAIM_HOLD", "CANCELING"}
    BY DEF ClaimsRouted
  <2>1. record[a] \in Claiming /\ WellFormed(live) /\ RouteInv
    BY <1>1 DEF FleetInv, RowInv, ClaimRow, ClaimsInv, Sound
  <2>2. a \in Routed /\ Bound(live, a)
    BY <2>1 DEF Routed, Claiming, Startable, WellFormed, Active, ActiveStates, HolderStates
  <2>. QED BY <2>1, <2>2 DEF RouteInv, Claiming
<1>. QED BY <1>1, FleetInvariant, PTL

\* The registry as the fleet uses it: the fleet calls several of its methods in one
\* step, and its own rules about who may be routed where do the rest.  No target
\* has two holders under the EXCLUSIVE policy, and no vehicle two assignments.
THEOREM FleetKeepsRegistrySafe == FleetSpec => []NothingShared
<1>1. FleetInv => NothingShared
  BY DEF FleetInv, ClaimsInv, Sound, NothingShared, NothingSharedIn
<1>. QED BY <1>1, FleetInvariant, PTL

\* The registry's history under start(), failures, cancellations and publications:
\* a terminated claim and a binding stay what they were.  A terminated claim belongs
\* to an assignment that has succeeded, and that is never reopened.  (The fleet's
\* module has no clock: of claim times HistoryKept says nothing here.)
THEOREM FleetHistoryKept == FleetSpec => HistoryKept
<1>1. ASSUME FleetInv, FleetInv', Lawful, NEW a \in Assignments
      PROVE  /\ live.claims[a].state = "TERMINATED" => live'.claims[a] = live.claims[a]
             /\ Bound(live, a) => live'.binding[a] = live.binding[a]
             /\ live'.claims[a].at >= live.claims[a].at
  <2>1. live.claims[a].at = 0 /\ live'.claims[a].at = 0
    BY <1>1 DEF FleetInv, ClaimsInv
  <2>2. /\ live.claims[a] \in [state : ClaimStates, at : Times]
        /\ live'.claims[a] \in [state : ClaimStates, at : Times]
    BY <1>1 DEF FleetInv, ClaimsInv, Sound, WellFormed, Registries
  <2>3. live.claims[a].state = "TERMINATED" => live'.claims[a].state = "TERMINATED"
    <3>1. /\ record[a] = "SUCCEEDED" <=> live.claims[a].state = "TERMINATED"
          /\ record'[a] = "SUCCEEDED" <=> live'.claims[a].state = "TERMINATED"
      BY <1>1 DEF FleetInv, RowInv, ClaimRow
    <3>2. record[a] = "SUCCEEDED" => record'[a] = record[a]
      BY <1>1 DEF Lawful, Moved, Terminal
    <3>. QED BY <3>1, <3>2
  <2>4. Bound(live, a) => live'.binding[a] = live.binding[a]
    BY <1>1 DEF Lawful, BindingsKept
  <2>. QED BY <2>1, <2>2, <2>3, <2>4
<1>2. FleetInv /\ [FleetNext]_fleetVars =>
        [\A a \in Assignments :
           /\ live.claims[a].state = "TERMINATED" => live'.claims[a] = live.claims[a]
           /\ Bound(live, a) => live'.binding[a] = live.binding[a]
           /\ live'.claims[a].at >= live.claims[a].at]_registryVars
  BY <1>1, FleetStep
<1>. QED BY <1>2, FleetInvariant, PTL DEF FleetSpec, HistoryKept

\* _publish_fleet_replan(), any number of times: each target of the plan is served
\* by as many assignments as in the beginning, on different vehicles, and a vehicle
\* that was taken out of the plan in the air keeps an agent that lands it, which is
\* not the one it flies with if it was handed its assignment back.
THEOREM FleetGoalsKept == FleetSpec => []GoalsKept
<1>1. ASSUME FleetInv PROVE GoalsKept
  BY <1>1 DEF FleetInv, FleetTypeOK, GoalInv, RouteInv, GoalsKept, Serving, Planned
<1>. QED BY <1>1, FleetInvariant, PTL

\* The end of the fleet and the failure policies: no vehicle is in the air when
\* the fleet is done, and none flies on with no assignment to show for it.
THEOREM FleetNoStrayFlight == FleetSpec => []NoStrayFlight
<1>1. ASSUME FleetInv PROVE CanceledMeansDown
  <2> SUFFICES ASSUME fleet = "CANCELED" \/ (fleet = "SUCCEEDED" /\ \A a \in Routed : record[a] = "SUCCEEDED"),
                      NEW u \in Uavs, agent[u] \in Airborne \/ former[u] \in Airborne
               PROVE  FALSE
    BY DEF CanceledMeansDown
  <2>1. retired = {} /\ \A a \in Routed : record[a] \in {"SUCCEEDED", "CANCELED"}
    BY <1>1 DEF FleetInv, PlaceInv
  <2>5. former[u] = "none" /\ agent[u] \in Airborne
    BY <1>1, <2>1 DEF FleetInv, RouteInv, Airborne
  <2>2. PICK a \in Routed : plan[a].uav = u
    BY <1>1, <2>1, <2>5 DEF FleetInv, RouteInv, RouteOn
  <2>3. a \in Assignments /\ RowInv(a)
    BY <1>1, <2>2 DEF FleetInv, Routed
  <2>4. "SUCCEEDED" \notin Airborne /\ Pilot(a) = agent[u]
    BY <2>2 DEF Airborne, Pilot
  <2>. QED BY <2>1, <2>2, <2>3, <2>4, <2>5 DEF RowInv, FlightRow
<1>2. ASSUME FleetInv PROVE MissionServed
  <2> SUFFICES ASSUME policy = "REPORT_AND_REPLAN", NEW u \in Uavs, agent[u] = "RUNNING"
               PROVE  \E a \in RouteOn(u) : record[a] \notin Terminal
    BY DEF MissionServed
  <2>1. u \notin retired \/ former[u] # "none"
    BY <1>2 DEF FleetInv, RouteInv
  <2>2. PICK a \in Routed : plan[a].uav = u
    BY <1>2, <2>1 DEF FleetInv, RouteInv, RouteOn, Airborne
  <2>3. RowInv(a) /\ Pilot(a) = "RUNNING"
    BY <1>2, <2>2 DEF FleetInv, Routed, Pilot
  <2>4. record[a] \notin Terminal
    BY <2>2, <2>3 DEF RowInv, FlightRow
  <2>. QED BY <2>2, <2>4 DEF RouteOn
<1>3. FleetInv => NoStrayFlight
  BY <1>1, <1>2 DEF NoStrayFlight
<1>. QED BY <1>3, FleetInvariant, PTL

\* What is over stays over: the records and the agents under every failure,
\* cancellation and replan.
THEOREM FleetTerminalKept == FleetSpec => TerminalKept
<1>1. FleetInv /\ [FleetNext]_fleetVars =>
        [/\ \A a \in Assignments : record[a] \in Terminal => record'[a] = record[a]
         /\ cancelRequested /\ "same" \notin replies =>
              \A u \in Uavs : agent'[u] = "RUNNING" => agent[u] = "RUNNING"]_fleetVars
  BY FleetStep DEF Lawful, Moved, NoLaunch
<1>. QED BY <1>1, FleetInvariant, PTL DEF FleetSpec, TerminalKept

\* The exemption of landings from holds, through both ways a vehicle is held: by
\* the airspace and for its claim.
THEOREM FleetOwnLandingNotHeld == FleetSpec => OwnLandingNotHeld
<1>1. FleetInv /\ [FleetNext]_fleetVars =>
        [(policy # "CANCEL_FLEET" /\ "same" \notin replies) =>
           \A a \in Assignments :
             record[a] = "CANCELING" => record'[a] \notin {"HOLDING", "CLAIM_HOLD"}]_fleetVars
  BY FleetStep DEF Lawful, Moved, Plain
<1>. QED BY <1>1, FleetInvariant, PTL DEF FleetSpec, OwnLandingNotHeld

\* Success is counted, for the assignment, its claim and the fleet, unless a handler
\* may answer the failure of a landing vehicle by a second try.
THEOREM FleetGoalsReached ==
  ASSUME \A h \in Handlers : "same" \in h => h \cap {"fails", "handoff"} = {}
  PROVE  FleetSpec => []GoalsReached
<1>1. ASSUME FleetInv PROVE GoalsReached
  <2>1. \A a \in Assignments : record[a] = "SUCCEEDED" <=> live.claims[a].state = "TERMINATED"
    BY <1>1 DEF FleetInv, RowInv, ClaimRow
  <2>2. Tame
    BY <1>1 DEF FleetInv, FleetTypeOK, Tame
  <2>3. \A a \in Routed : agent[plan[a].uav] = "SUCCEEDED" => record[a] = "SUCCEEDED"
    BY <1>1, <2>2 DEF FleetInv, RowInv, FlightRow, Pilot, Routed
  <2>4. ASSUME fleet = "SUCCEEDED", NEW x \in Required, NEW b \in Assignments,
               InitialPlan[b] # Unbound, InitialPlan[b].target = x
        PROVE  \E a \in Routed : plan[a].target = x /\ live.claims[a].state = "TERMINATED"
    <3>1. x \in Targets
      BY FleetAssumption
    <3>2. Routed # {} /\ \A a \in Routed : plan[a].target \in Required => record[a] = "SUCCEEDED"
      BY <1>1, <2>4 DEF FleetInv, PlaceInv
    <3>3. IsFiniteSet(Serving(x)) /\ Cardinality(Serving(x)) = Cardinality(Planned(x))
      BY <1>1, <3>1, <3>2 DEF FleetInv, GoalInv
    <3>4. IsFiniteSet(Planned(x)) /\ Planned(x) # {}
      <4>1. Planned(x) \subseteq {a \in Assignments : InitialPlan[a] # Unbound} /\ b \in Planned(x)
        BY <2>4 DEF Planned
      <4>. QED BY <4>1, FleetAssumption, FS_Subset
    <3>5. Serving(x) # {}
      BY <3>3, <3>4, FS_EmptySet
    <3>6. PICK a \in Routed : plan[a].target = x
      BY <3>5 DEF Serving
    <3>7. record[a] = "SUCCEEDED" /\ a \in Assignments
      BY <3>2, <3>6 DEF Routed
    <3>. QED BY <2>1, <3>6, <3>7
  <2>. QED BY <2>1, <2>3, <2>4 DEF GoalsReached
<1>. QED BY <1>1, FleetInvariant, PTL

-----------------------------------------------------------------------------
(* Nothing that waits is forgotten.                                         *)

\* A step that puts no assignment among those that may start, and whoever waits
\* for its replan on the list.
Tidy ==
  \A b \in Assignments :
    /\ record'[b] \in Startable => record'[b] = record[b]
    /\ record'[b] = "WAITING_REASSIGNMENT" => b \in reassign'

\* A tidy step keeps what waits, unless it shortens the lists of the starts.
LEMMA TidyStep ==
  ASSUME NoneForgotten, Tidy, plan' = plan,
         pc' = "starting" <=> pc = "starting",
         pc = "starting" => \A b \in Assignments :
           record[b] = record'[b] /\ record[b] \in Startable /\ plan[b].uav \in todo => plan[b].uav \in todo',
         \A b \in Assignments : record'[b] \in Startable /\ b \in ready => b \in ready'
  PROVE  NoneForgotten'
BY DEF NoneForgotten, Tidy

\* A step that leaves the records alone and drops no request of theirs.
LEMMA SameTidy ==
  ASSUME NoneForgotten, record' = record,
         \A b \in reassign \ reassign' : record[b] # "WAITING_REASSIGNMENT"
  PROVE  Tidy
BY DEF NoneForgotten, Tidy

\* BeginLanding: the assignment is closed, or open for its landing.
LEMMA LandingTidy ==
  ASSUME FleetInv, NoneForgotten, NEW a \in Assignments, NEW ag, BeginLanding(a, ag)
  PROVE  Tidy /\ record'[a] \notin Startable
<1>1. PICK f \in CancelOutcomes({a}, ag) :
        record' = [record EXCEPT ![a] = RecordAfter(f[a])] /\ reassign' = reassign \ {a}
  BY DEF BeginLanding
<1>2. RecordAfter(f[a]) \notin Startable \cup {"WAITING_REASSIGNMENT"}
  BY DEF RecordAfter, Startable
<1>3. record \in [Assignments -> RecordStates]
  BY DEF FleetInv, FleetTypeOK
<1>. QED BY <1>1, <1>2, <1>3 DEF Tidy, NoneForgotten

\* A failure: it waits on the list, lands, or is closed with others.
LEMMA FailTidy ==
  ASSUME FleetInv, NoneForgotten, NEW a \in Assignments, NEW ag, FailLocally(a, ag)
  PROVE  Tidy /\ record'[a] \notin Startable
<1>0. record \in [Assignments -> RecordStates]
  BY DEF FleetInv, FleetTypeOK
<1>1. CASE AwaitReplan(a, ag)
  <2>1. record' = [record EXCEPT ![a] = "WAITING_REASSIGNMENT"] /\ reassign' = reassign \cup {a}
    BY <1>1 DEF AwaitReplan
  <2>. QED BY <1>0, <2>1 DEF Tidy, NoneForgotten, Startable
<1>2. CASE LandUnreplaced(a, ag)
  BY <1>2, LandingTidy DEF LandUnreplaced
<1>3. CASE GiveUp(a, ag)
  <2>1. reassign' = reassign
    BY <1>3 DEF GiveUp
  <2>2. PICK unstarted, f :
          record' = [b \in Assignments |->
                       CASE b = a            -> "FAILED"
                         [] b \in unstarted  -> "CANCELED"
                         [] b \in DOMAIN f   -> RecordAfter(f[b])
                         [] OTHER            -> record[b]]
    BY <1>3 DEF GiveUp
  <2>3. /\ \A b \in Assignments : record'[b] \in {record[b], "CANCELED", "CANCELING", "FAILED"}
        /\ record'[a] \in {"CANCELED", "CANCELING", "FAILED"}
    <3>1. \A x : RecordAfter(x) \in {"CANCELING", "FAILED"}
      BY DEF RecordAfter
    <3>2. record'[a] \in {"CANCELED", "CANCELING", "FAILED"}
      BY <2>2, <3>1
    <3>3. ASSUME NEW b \in Assignments PROVE record'[b] \in {record[b], "CANCELED", "CANCELING", "FAILED"}
      BY <2>2, <3>1
    <3>. QED BY <3>2, <3>3
  <2>. QED BY <2>1, <2>3 DEF Tidy, NoneForgotten, Startable
<1>. QED BY <1>1, <1>2, <1>3 DEF FailLocally

\* LaunchAgent: the assignment has started, or has failed.
LEMMA LaunchTidy ==
  ASSUME FleetInv, NoneForgotten, NEW a \in Assignments, LaunchAgent(a)
  PROVE  Tidy /\ record'[a] \notin Startable
<1>0. record \in [Assignments -> RecordStates]
  BY DEF FleetInv, FleetTypeOK
<1>1. CASE record' = [record EXCEPT ![a] = "RUNNING"] /\ reassign' = reassign
  BY <1>0, <1>1 DEF Tidy, NoneForgotten, Startable
<1>2. CASE \E s \in FailedStarts : FailLocally(a, [agent EXCEPT ![plan[a].uav] = s])
  BY <1>2, FailTidy
<1>. QED BY <1>1, <1>2 DEF LaunchAgent

\* The visit of an agent: no state of an agent puts its assignment among those
\* that may start.
LEMMA TickAgentTidy ==
  ASSUME FleetInv, NoneForgotten, NEW a \in Assignments, TickAgent(a)
  PROVE  Tidy
<1>0. record \in [Assignments -> RecordStates]
  BY DEF FleetInv, FleetTypeOK
<1>1. CASE FailLocally(a, agent)
  BY <1>1, FailTidy
<1>2. ASSUME NEW ag, AdoptLanding(a, ag) PROVE Tidy
  BY <1>0, <1>2 DEF AdoptLanding, Tidy, NoneForgotten, Startable
<1>3. ASSUME NEW ag, NEW R, Adopt(a, ag, R) PROVE Tidy
  <2>1. CASE FailLocally(a, ag)
    BY <2>1, FailTidy
  <2>2. CASE ~FailLocally(a, ag)
    BY <1>0, <1>3, <2>2 DEF Adopt, AgentTerminal, Tidy, NoneForgotten, Startable
  <2>. QED BY <2>1, <2>2
<1>4. ASSUME NEW ag, HoldForClaim(a, ag) PROVE Tidy
  BY <1>0, <1>4 DEF HoldForClaim, Tidy, NoneForgotten, Startable
<1>5. ASSUME NEW ag, AdoptLocked(a, ag) PROVE Tidy
  <2>1. CASE Adopt(a, ag, Claimed(live, a, LockState, 0))
    BY <1>3, <2>1
  <2>2. CASE ~Adopt(a, ag, Claimed(live, a, LockState, 0))
    <3>1. /\ reassign' = reassign
          /\ \A b \in Assignments : record'[b] \in {record[b], "CLAIM_HOLD", "CANCELING", "RUNNING"}
      BY <1>5, <2>2 DEF AdoptLocked
    <3>. QED BY <3>1 DEF Tidy, NoneForgotten, Startable
  <2>. QED BY <2>1, <2>2
<1>. QED BY <1>1, <1>2, <1>3, <1>4, <1>5 DEF TickAgent

\* The lists under start(), where the vehicles still to be visited are the list.
LEMMA StartKeepsWaiting == FleetInv /\ NoneForgotten /\ StartAgent => NoneForgotten'
<1> SUFFICES ASSUME FleetInv, NoneForgotten, StartAgent PROVE NoneForgotten'
  OBVIOUS
<1>a. PICK u, a : u = FirstOf(todo) /\ a = FirstOf(RouteOn(u))
  OBVIOUS
<1>1. /\ pc = "starting" /\ todo # {} /\ todo' = todo \ {u}
      /\ IF MayStart(a) THEN LaunchAgent(a)
         ELSE UNCHANGED <<fleet, record, agent, live, landings, reassign, cancelRequested>>
      /\ plan' = plan /\ ready' = ready /\ pc' = pc
  BY <1>a DEF StartAgent
<1>2. /\ todo \subseteq Uavs /\ RouteInv
      /\ \A v \in todo : RouteOn(v) # {}
  BY <1>1 DEF FleetInv, PlaceInv
<1>3. u \in todo
  BY <1>a, <1>1, <1>2, FirstFact, RegistryAssumption
<1>4. RouteOn(u) \in SUBSET Nat /\ RouteOn(u) # {}
  BY <1>2, <1>3, RegistryAssumption DEF RouteOn, Routed
<1>5. a \in Routed /\ a \in Assignments /\ plan[a].uav = u
  BY <1>a, <1>4, FirstFact DEF RouteOn, Routed
<1>6. Tidy /\ record'[a] \notin Startable
  BY <1>1, <1>5, LaunchTidy, SameTidy DEF MayStart
<1>7. ASSUME NEW b \in Assignments, record[b] = record'[b], record[b] \in Startable, plan[b].uav \in todo
      PROVE  plan[b].uav \in todo'
  <2>1. b \in Routed /\ b # a
    BY <1>6, <1>7 DEF Routed, Startable
  <2>. QED BY <1>1, <1>2, <1>5, <1>7, <2>1 DEF RouteInv
<1>. QED BY <1>1, <1>6, <1>7, TidyStep

\* The lists under the steps of tick().
LEMMA TickKeepsWaiting == FleetInv /\ NoneForgotten /\ TickStep => NoneForgotten'
<1> SUFFICES ASSUME FleetInv, NoneForgotten, TickStep PROVE NoneForgotten'
  OBVIOUS
<1>0. record \in [Assignments -> RecordStates] /\ plan \in [Assignments -> Bindings \cup {Unbound}]
  BY DEF FleetInv, FleetTypeOK
<1>1. CASE UNCHANGED <<record, plan, ready, reassign>> /\ pc # "starting" /\ pc' # "starting"
  BY <1>1 DEF NoneForgotten
<1>2. CASE StartReady
  <2>a. PICK a : a = FirstOf(todo)
    OBVIOUS
  <2>1. /\ pc = "ready" /\ todo # {} /\ ready' = ready \ {a}
        /\ IF MayLaunch(a) THEN LaunchAgent(a)
           ELSE UNCHANGED <<fleet, record, agent, live, landings, reassign, cancelRequested>>
        /\ plan' = plan /\ pc' = pc
    BY <1>2, <2>a DEF StartReady
  <2>2. a \in Assignments
    BY <2>a, <2>1, FirstFact, RegistryAssumption DEF FleetInv, PlaceInv
  <2>3. Tidy /\ record'[a] \notin Startable
    <3>1. CASE MayLaunch(a)
      BY <2>1, <2>2, <3>1, LaunchTidy
    <3>2. CASE ~MayLaunch(a)
      <4>1. record[a] \notin Startable
        BY <2>1, <2>2, <3>2 DEF MayLaunch, NoneForgotten
      <4>. QED BY <2>1, <3>2, <4>1, SameTidy
    <3>. QED BY <3>1, <3>2
  <2>. QED BY <2>1, <2>3, TidyStep
<1>3. CASE VisitAgent
  <2>a. PICK u, visits : u = FirstOf(todo) /\ visits = {a \in RouteOn(u) : Visited(a)}
    OBVIOUS
  <2>1. pc = "agents" /\ UNCHANGED <<plan, ready, pc>>
    BY <1>3 DEF VisitAgent
  <2>2. \/ UNCHANGED <<record, reassign>>
        \/ \E a : /\ visits # {} /\ a = FirstOf(visits)
                  /\ \/ /\ record' = [record EXCEPT ![a] = IF @ = "CLAIM_HOLD" THEN @ ELSE "HOLDING"]
                        /\ reassign' = reassign
                     \/ TickAgent(a)
    BY <1>3, <2>a DEF VisitAgent
  <2>3. CASE UNCHANGED <<record, reassign>>
    BY <1>1, <2>1, <2>3
  <2>4. ASSUME NEW a, visits # {}, a = FirstOf(visits),
               \/ /\ record' = [record EXCEPT ![a] = IF @ = "CLAIM_HOLD" THEN @ ELSE "HOLDING"]
                  /\ reassign' = reassign
               \/ TickAgent(a)
        PROVE  Tidy
    <3>1. visits \in SUBSET Assignments /\ visits \in SUBSET Nat
      BY <2>a, RegistryAssumption DEF RouteOn, Routed
    <3>2. a \in Assignments
      BY <2>4, <3>1, FirstFact
    <3>3. CASE /\ record' = [record EXCEPT ![a] = IF @ = "CLAIM_HOLD" THEN @ ELSE "HOLDING"]
               /\ reassign' = reassign
      BY <1>0, <3>2, <3>3 DEF Tidy, NoneForgotten, Startable
    <3>4. CASE TickAgent(a)
      BY <3>2, <3>4, TickAgentTidy
    <3>. QED BY <2>4, <3>3, <3>4
  <2>. QED BY <2>1, <2>2, <2>3, <2>4, TidyStep
<1>4. CASE Replan
  <2>a. PICK a : a = FirstOf(todo)
    OBVIOUS
  <2>1. /\ pc = "replan" /\ pc' = pc /\ todo # {}
        /\ IF record[a] = "WAITING_REASSIGNMENT" THEN ReplanLater(a) \/ Replanned(a)
           ELSE /\ reassign' = reassign \ {a}
                /\ UNCHANGED <<plan, record, agent, live, retired, former, landings, ready, cancelRequested>>
    BY <1>4, <2>a DEF Replan
  <2>2. a \in Assignments
    BY <2>a, <2>1, FirstFact, RegistryAssumption DEF FleetInv, PlaceInv
  <2>3. CASE record[a] # "WAITING_REASSIGNMENT" \/ ReplanLater(a)
    BY <2>1, <2>3 DEF ReplanLater, NoneForgotten
  <2>4. CASE Reregister(a)
    BY <1>0, <2>1, <2>2, <2>4 DEF Reregister, NoneForgotten
  <2>5. CASE \E b \in Assignments, v \in Uavs : Admissible(a, b, v) /\ HandOver(a, b, v)
    <3>1. PICK b \in Assignments, v \in Uavs : Admissible(a, b, v) /\ HandOver(a, b, v)
      BY <2>5
    <3>2. /\ record' = [record EXCEPT ![a] = "none", ![b] = "READY"] /\ b \in Assignments
          /\ ready' = ready \cup {b} /\ reassign' = reassign \ {a}
      BY <3>1 DEF HandOver, Rerouted
    <3>. QED BY <1>0, <2>1, <2>2, <3>2 DEF NoneForgotten, Startable
  <2>6. CASE ReplanFails(a)
    BY <2>1, <2>2, <2>6, LandingTidy, TidyStep DEF ReplanFails
  <2>. QED BY <2>1, <2>3, <2>4, <2>5, <2>6 DEF Replanned
<1>5. CASE TickBegin \/ TickRetired \/ RetiredEnd \/ AgentsEnd \/ TickEnd
  BY <1>1, <1>5 DEF TickBegin, TickRetired, RetiredEnd, AgentsEnd, TickEnd, missionVars
<1>6. CASE \E obs \in BOOLEAN, hold \in SUBSET Ticked : Advance(obs, hold)
  BY <1>1, <1>6 DEF Advance, missionVars
<1>. QED BY <1>2, <1>3, <1>4, <1>5, <1>6 DEF TickStep

\* The lists of the runtime, through every start, failure, cancellation and replan:
\* whoever waits for a replan or for its start is on the list it waits on.
THEOREM FleetNoneForgotten == FleetSpec => []NoneForgotten
<1>1. FleetInit => NoneForgotten
  BY DEF FleetInit, NoneForgotten, Startable
<1>2. ASSUME FleetInv, NoneForgotten, [FleetNext]_fleetVars PROVE NoneForgotten'
  <2>1. CASE UNCHANGED <<record, plan, ready, reassign, pc, todo>>
    BY <1>2, <2>1 DEF NoneForgotten
  <2>2. CASE StartFails \/ Stopped \/ UNCHANGED fleetVars
    BY <2>1, <2>2 DEF StartFails, Stopped, fleetVars, missionVars, loopVars
  <2>3. CASE Start
    <3>1. PICK declared \in [{a \in Assignments : InitialPlan[a] # Unbound} ->
                               {"PENDING", "READY", "REASSIGNMENT_REQUIRED"}] :
            LET planned == {a \in Assignments : InitialPlan[a] # Unbound}
                startable == {a \in planned : declared[a] \in Startable}
            IN  /\ record' = [a \in Assignments |-> IF a \in planned THEN declared[a] ELSE "none"]
                /\ todo' = {InitialPlan[a].uav : a \in startable}
                /\ pc' = IF startable = {} THEN "idle" ELSE "starting"
      BY <2>3 DEF Start
    <3>2. plan' = InitialPlan
      BY <2>3 DEF Start
    <3>. QED BY <3>1, <3>2 DEF NoneForgotten, Startable
  <2>4. CASE StartEnds
    BY <1>2, <2>4 DEF StartEnds, NoneForgotten
  <2>5. CASE UserCancel
    <3>1. /\ \A a \in Assignments : record'[a] \in {record[a], "CANCELING", "FAILED"}
          /\ UNCHANGED <<plan, ready, reassign, pc, todo>>
      BY <2>5 DEF UserCancel, RecordAfter, loopVars
    <3>. QED BY <1>2, <3>1 DEF NoneForgotten, Startable
  <2>. QED BY <1>2, <2>2, <2>3, <2>4, <2>5, StartKeepsWaiting, TickKeepsWaiting DEF FleetNext
<1>. QED BY <1>1, <1>2, FleetInvariant, PTL DEF FleetSpec

=============================================================================
