----------------------- MODULE RecoveryControllerProofs -----------------------
(***************************************************************************)
(* What holds of repairs, landings and handovers for any fleet, any        *)
(* dependencies and any limits.                                            *)
(***************************************************************************)
EXTENDS RecoveryController, TLAPS

(***************************************************************************)
(* The invariant of plans and vehicles                                     *)
(***************************************************************************)

\* No two vehicles are planned for one corridor, flown or not.
RoutesApart ==
  \A u, v \in Uavs : route[u] = route[v] /\ route[u] # NoRoute => u = v

\* What a manager flies is what the route table says.
PlansRouted ==
  \A u \in Uavs : plan[u] # NoPlan => plan[u].route = route[u] /\ route[u] # NoRoute

HoldersRouted == \A a \in Assignments : route[holder[a]] \in Corridors

\* A vehicle that has not been started has no plan in its manager.
Unflown == \A u \in Uavs : agent[u] \in {"none", "IDLE"} => plan[u] = NoPlan

ReadyIdle == \A a \in Assignments : status[a] = "READY" => agent[holder[a]] = "IDLE"

\* The agent of a retired vehicle lands, unless it is a newer one.
RetiredLand == \A u \in retired \ former : agent[u] \in {"SHUTDOWN", "DOWN"}

\* An agent that lands a vehicle no assignment is on is ticked as a retired one.
UnroutedLand ==
  \A u \in Uavs :
    \/ Carried(u) \/ agent[u] \in {"none", "DOWN"}
    \/ agent[u] = "SHUTDOWN" /\ u \in retired \ former

FlightInv ==
  /\ RecoveryTypeOK
  /\ CarriedOnce /\ RoutesApart /\ PlansRouted /\ HoldersRouted
  /\ Unflown /\ ReadyIdle /\ RetiredLand /\ UnroutedLand /\ VersionsAgree

(***************************************************************************)
(* The invariant of episodes                                               *)
(***************************************************************************)

\* An assignment and its episode: an event its vehicle still hovers for is not
\* older than the version the episode owns (1), nor than the vehicle's last (2), and
\* it is not finished (9); a vehicle that hovers for a reassignment waits for it, and
\* is pending (3, 5); a replacement has no episode yet (4), a vehicle on its plan
\* neither (6); none flies once its assignment (7) or the mission (8) has ended.
Sound(a) ==
  LET u == holder[a]
      e == episode[a]
  IN  /\ agent[u] = "HOVERING" /\ e # NoEpisode /\ e.event = faults[u] /\ faults[u] # 0 =>
           version[a] = e.base
      /\ e.event <= faults[u]
      /\ agent[u] = "HOVERING" /\ e # NoEpisode /\ e.phase = "REASSIGN" => a \in pending
      /\ status[a] = "READY" => e = NoEpisode /\ a \notin pending
      /\ agent[u] = "HOVERING" /\ a \in pending => status[a] = "WAITING_REASSIGNMENT"
      /\ agent[u] = "FLYING" => e = NoEpisode
      /\ status[a] = "ENDED" => agent[u] \notin Cancelable
      /\ cancelRequested => agent[u] \notin Cancelable /\ status[a] # "READY"
      /\ agent[u] = "HOVERING" => <<u, faults[u]>> \notin finished

EventsPast == \A u \in Uavs, n \in Nat : <<u, n>> \in finished => n <= faults[u]

EpisodeInv == (\A a \in Assignments : Sound(a)) /\ EventsPast

(***************************************************************************)
(* Agents                                                                  *)
(***************************************************************************)

\* What a vehicle may have become in a step that gives it no plan.
Onward(s, t) == t = s \/ t \in TickResults(s)

\* The life of an agent goes one way: ticks and cancellations never start it,
\* never stop a landing, and cancel() leaves it landing or ended.
LEMMA OneWay ==
  ASSUME NEW s \in AgentStates, NEW t, Onward(s, t)
  PROVE  /\ t \in AgentStates
         /\ t \in Airborne => s \in Airborne
         /\ s \in {"none", "IDLE"} \/ t \in {"none", "IDLE"} => t = s
         /\ t = "FLYING" => s = "FLYING"
         /\ t = "HOVERING" => s \in {"FLYING", "HOVERING"}
         /\ t \in Cancelable => s \in Cancelable
         /\ s = "LANDING" => t \in {"LANDING", "SHUTDOWN", "DOWN"}
         /\ s = "SHUTDOWN" => t \in {"SHUTDOWN", "DOWN"}
         /\ s = "DOWN" => t = "DOWN"
BY DEF Onward, TickResults, AgentStates, Airborne, Cancelable

LEMMA CancelEndsFlight ==
  ASSUME NEW s \in AgentStates
  PROVE  /\ CancelResults(s) = {} <=> s \notin Cancelable
         /\ \A t \in CancelResults(s) : Onward(s, t) /\ t \in {"SHUTDOWN", "DOWN"}
BY DEF Onward, CancelResults, TickResults, AgentStates, Airborne, Cancelable

LEMMA OnwardTwice ==
  ASSUME NEW s \in AgentStates, NEW t, NEW w, Onward(s, t), Onward(t, w)
  PROVE  Onward(s, w)
BY DEF Onward, TickResults, AgentStates, Airborne, Cancelable

\* _begin_local_failsafe_landing() brings the vehicle of a down, and touches no other.
LEMMA LandingFacts ==
  ASSUME RecoveryTypeOK, NEW a \in Assignments, NEW ag \in [Uavs -> AgentStates],
         BeginLanding(a, ag)
  PROVE  /\ agent' \in [Uavs -> AgentStates] /\ status' \in [Assignments -> Statuses]
         /\ pending' = pending \ {a} /\ landings' \subseteq Assignments
         /\ \A u \in Uavs : u # holder[a] => agent'[u] = ag[u]
         /\ \A u \in Uavs : Onward(ag[u], agent'[u])
         /\ agent'[holder[a]] \notin Cancelable
         /\ \A b \in Assignments : b # a => status'[b] = status[b]
         /\ status'[a] \in {"CANCELING", "ENDED"}
<1>1. holder[a] \in Uavs
  BY DEF RecoveryTypeOK
<1>2. /\ CancelResults(ag[holder[a]]) = {} <=> ag[holder[a]] \notin Cancelable
      /\ \A t \in CancelResults(ag[holder[a]]) :
            Onward(ag[holder[a]], t) /\ t \in {"SHUTDOWN", "DOWN"}
  BY <1>1, CancelEndsFlight
<1>3. {"SHUTDOWN", "DOWN"} \cap Cancelable = {} /\ {"SHUTDOWN", "DOWN"} \subseteq AgentStates
  BY DEF AgentStates, Airborne, Cancelable
<1>4. \/ /\ "SHUTDOWN" \in CancelResults(ag[holder[a]])
         /\ agent' = [ag EXCEPT ![holder[a]] = "SHUTDOWN"]
         /\ landings' = landings \cup {a}
         /\ status' = [status EXCEPT ![a] = "CANCELING"]
      \/ /\ "DOWN" \in CancelResults(ag[holder[a]])
         /\ agent' = [ag EXCEPT ![holder[a]] = "DOWN"]
         /\ landings' = landings \ {a}
         /\ status' = [status EXCEPT ![a] = "ENDED"]
      \/ /\ CancelResults(ag[holder[a]]) = {} /\ agent' = ag
         /\ landings' = landings \ {a}
         /\ status' = [status EXCEPT ![a] = "ENDED"]
  BY DEF BeginLanding
<1>5. pending' = pending \ {a}
  BY DEF BeginLanding
<1>6. \A u \in Uavs : Onward(ag[u], ag[u])
  BY DEF Onward
<1>7. status \in [Assignments -> Statuses] /\ landings \subseteq Assignments
  BY DEF RecoveryTypeOK
<1>8. {"CANCELING", "ENDED"} \subseteq Statuses
  BY DEF Statuses
<1>9. CASE /\ "SHUTDOWN" \in CancelResults(ag[holder[a]])
           /\ agent' = [ag EXCEPT ![holder[a]] = "SHUTDOWN"]
           /\ landings' = landings \cup {a}
           /\ status' = [status EXCEPT ![a] = "CANCELING"]
  BY <1>1, <1>2, <1>3, <1>5, <1>6, <1>7, <1>8, <1>9
<1>10. CASE /\ "DOWN" \in CancelResults(ag[holder[a]])
            /\ agent' = [ag EXCEPT ![holder[a]] = "DOWN"]
            /\ landings' = landings \ {a}
            /\ status' = [status EXCEPT ![a] = "ENDED"]
  BY <1>1, <1>2, <1>3, <1>5, <1>6, <1>7, <1>8, <1>10
<1>11. CASE /\ CancelResults(ag[holder[a]]) = {} /\ agent' = ag
            /\ landings' = landings \ {a}
            /\ status' = [status EXCEPT ![a] = "ENDED"]
  BY <1>1, <1>2, <1>5, <1>6, <1>7, <1>8, <1>11
<1>12. QED
  BY <1>4, <1>9, <1>10, <1>11

\* _mark_local_failure() begins a landing, or leaves the vehicle to a reassignment.
LEMMA FailureFacts ==
  ASSUME RecoveryTypeOK, NEW a \in Assignments, NEW ag \in [Uavs -> AgentStates],
         MarkFailure(a, ag)
  PROVE  /\ agent' \in [Uavs -> AgentStates] /\ status' \in [Assignments -> Statuses]
         /\ pending' \subseteq Assignments /\ landings' \subseteq Assignments
         /\ \A u \in Uavs : u # holder[a] => agent'[u] = ag[u]
         /\ \A u \in Uavs : Onward(ag[u], agent'[u])
         /\ \A b \in Assignments : b # a => status'[b] = status[b]
         /\ \/ /\ agent'[holder[a]] \notin Cancelable
               /\ status'[a] \in {"CANCELING", "ENDED"} /\ pending' = pending \ {a}
            \/ /\ agent' = ag
               /\ status'[a] = "WAITING_REASSIGNMENT" /\ pending' = pending \cup {a}
<1>1. CASE mode = "LOCAL_ONLY"
  BY <1>1, LandingFacts DEF MarkFailure, RecoveryTypeOK
<1>2. CASE mode # "LOCAL_ONLY"
  <2>1. /\ status' = [status EXCEPT ![a] = "WAITING_REASSIGNMENT"]
        /\ pending' = pending \cup {a} /\ agent' = ag /\ landings' = landings
    BY <1>2 DEF MarkFailure
  <2>2. \A u \in Uavs : Onward(ag[u], ag[u])
    BY DEF Onward
  <2>3. QED
    BY <2>1, <2>2 DEF RecoveryTypeOK, Statuses
<1>3. QED
  BY <1>1, <1>2

(***************************************************************************)
(* Episodes                                                                *)
(***************************************************************************)

LEMMA EpisodeTypes ==
  ASSUME RecoveryTypeOK
  PROVE  /\ NoDigest \in Digests /\ NoContexts \in [Assignments -> Digests]
         /\ NoEpisode \in Episodes
         /\ \A a \in Assignments : Digest(a) \in Digests
         /\ \A a \in Assignments, ph \in Phases : NewEpisode(a, ph) \in Episodes
<1>1. NoDigest \in Digests /\ NoContexts \in [Assignments -> Digests]
  BY DEF NoDigest, NoContexts, Digests
<1>2. NoEpisode \in Episodes
  BY <1>1 DEF NoEpisode, Episodes
<1>3. \A a \in Assignments : Digest(a) \in Digests
  BY DEF RecoveryTypeOK, Digest, Digests
<1>4. ASSUME NEW a \in Assignments, NEW ph \in Phases
      PROVE  NewEpisode(a, ph) \in Episodes
  <2>1. LiveEvent(holder[a]) \in Nat /\ version[a] \in Nat
    BY DEF RecoveryTypeOK, LiveEvent
  <2>2. QED
    BY <1>1, <2>1 DEF NewEpisode, NoEpisode, Episodes
<1>5. QED
  BY <1>1, <1>2, <1>3, <1>4

LEMMA FinishTypes ==
  ASSUME RecoveryTypeOK, NEW S \in SUBSET Assignments, Finish(S)
  PROVE  episode' \in [Assignments -> Episodes] /\ finished' \subseteq Uavs \X Nat
<1>1. \A a \in Assignments : holder[a] \in Uavs /\ episode[a] \in Episodes
  BY DEF RecoveryTypeOK
<1>2. \A a \in Assignments : episode[a].event \in Nat
  BY <1>1 DEF Episodes
<1>3. Events(S) \subseteq Uavs \X Nat
  BY <1>1, <1>2 DEF Events
<1>4. QED
  BY <1>1, <1>3, EpisodeTypes DEF Finish, RecoveryTypeOK

LEMMA BecomesTypes ==
  ASSUME RecoveryTypeOK, NEW a \in Assignments, NEW e \in Episodes, Becomes(a, e)
  PROVE  episode' \in [Assignments -> Episodes] /\ finished' \subseteq Uavs \X Nat
BY DEF Becomes, RecoveryTypeOK

(***************************************************************************)
(* Steps that publish nothing                                              *)
(***************************************************************************)

\* What becomes of the retired agents: the one a vehicle has stays until it has
\* landed, an older one until it has or a newer one lands in its place.
ApartStep ==
  /\ \A u \in retired' \ former' : agent'[u] \in {"SHUTDOWN", "DOWN"}
  /\ \A u \in retired \ former : u \in retired' \ former' \/ agent'[u] = "DOWN"
  /\ \A u \in former : u \in retired' => u \in former' \/ agent'[u] = "SHUTDOWN"

LEMMA ApartKept ==
  ASSUME RecoveryTypeOK, RetiredLand, UNCHANGED apart,
         \A u \in Uavs : Onward(agent[u], agent'[u])
  PROVE  ApartStep
<1>1. retired' = retired /\ former' = former /\ retired \subseteq Uavs
  BY DEF apart, RecoveryTypeOK
<1>2. \A u \in retired \ former : agent'[u] \in {"SHUTDOWN", "DOWN"}
  BY <1>1, OneWay DEF RecoveryTypeOK, RetiredLand
<1>3. QED
  BY <1>1, <1>2 DEF ApartStep

Quiet ==
  /\ UNCHANGED <<holder, version, plan, route>>
  /\ \A u \in Uavs : Onward(agent[u], agent'[u])
  /\ \A a \in Assignments : status'[a] = "READY" => status[a] = "READY"
  /\ ApartStep

LEMMA QuietKeeps ==
  ASSUME FlightInv, RecoveryTypeOK', Quiet
  PROVE  FlightInv'
<1>1. \A u \in Uavs :
        /\ agent'[u] \in Airborne => agent[u] \in Airborne
        /\ agent[u] \in {"none", "IDLE"} \/ agent'[u] \in {"none", "IDLE"} => agent'[u] = agent[u]
  BY OneWay DEF FlightInv, RecoveryTypeOK, Quiet
<1>2. \A a \in Assignments : holder[a] \in Uavs
  BY DEF FlightInv, RecoveryTypeOK
<1>3. (CarriedOnce /\ RoutesApart /\ PlansRouted /\ HoldersRouted)'
  BY DEF FlightInv, Quiet, CarriedOnce, RoutesApart, PlansRouted, HoldersRouted
<1>4. (Unflown /\ ReadyIdle /\ RetiredLand)'
  BY <1>1, <1>2 DEF FlightInv, Quiet, Unflown, ReadyIdle, RetiredLand, ApartStep
<1>5. VersionsAgree'
  BY <1>1, <1>2 DEF FlightInv, Quiet, VersionsAgree
<1>6. UnroutedLand'
  <2>1. \A u \in Uavs : Carried(u)' = Carried(u)
    BY DEF Quiet, Carried
  <2>2. \A u \in Uavs :
          /\ agent[u] \in {"none", "DOWN"} => agent'[u] = agent[u]
          /\ agent[u] = "SHUTDOWN" => agent'[u] \in {"SHUTDOWN", "DOWN"}
    BY OneWay DEF FlightInv, RecoveryTypeOK, Quiet
  <2>3. QED
    BY <2>1, <2>2 DEF FlightInv, Quiet, UnroutedLand, ApartStep
<1>7. QED
  BY <1>3, <1>4, <1>5, <1>6 DEF FlightInv

\* A step of the controller alone.
LEMMA EpisodeOnly ==
  ASSUME FlightInv, episode' \in [Assignments -> Episodes], finished' \subseteq Uavs \X Nat,
         UNCHANGED <<mode, records, flight, fleetVars, raised>>
  PROVE  RecoveryTypeOK' /\ Quiet
<1>1. \A u \in Uavs : Onward(agent[u], agent'[u])
  BY DEF Onward, flight
<1>2. UNCHANGED apart
  BY DEF fleetVars
<1>3. ApartStep
  BY <1>1, <1>2, ApartKept DEF FlightInv
<1>4. RecoveryTypeOK'
  BY DEF FlightInv, RecoveryTypeOK, records, flight, fleetVars, apart
<1>5. QED
  BY <1>1, <1>3, <1>4 DEF Quiet, records, flight

\* An agent is ticked, and what has become of it is adopted.
LEMMA AdoptFacts ==
  ASSUME RecoveryTypeOK, NEW a \in Assignments, NEW s \in TickResults(agent[holder[a]]),
         Adopt(a, agent[holder[a]], s, [agent EXCEPT ![holder[a]] = s])
  PROVE  /\ agent' \in [Uavs -> AgentStates] /\ status' \in [Assignments -> Statuses]
         /\ pending' \subseteq Assignments /\ landings' \subseteq Assignments
         /\ \A v \in Uavs : v # holder[a] => agent'[v] = agent[v]
         /\ \A v \in Uavs : Onward(agent[v], agent'[v])
         /\ agent'[holder[a]] = s
         /\ \A b \in Assignments : b # a => status'[b] = status[b]
         /\ \/ UNCHANGED <<status, pending>>
            \/ s = "DOWN" /\ status'[a] # "READY" /\ pending' \in {pending, pending \ {a}, pending \cup {a}}
<1> DEFINE ag == [agent EXCEPT ![holder[a]] = s]
<1>1. /\ holder[a] \in Uavs /\ agent \in [Uavs -> AgentStates]
      /\ status \in [Assignments -> Statuses] /\ pending \subseteq Assignments
      /\ landings \subseteq Assignments
  BY DEF RecoveryTypeOK
<1>2. Onward(agent[holder[a]], s) /\ s \in AgentStates
  BY <1>1, OneWay DEF Onward
<1>3. /\ ag \in [Uavs -> AgentStates] /\ ag[holder[a]] = s
      /\ \A v \in Uavs : v # holder[a] => ag[v] = agent[v]
      /\ \A v \in Uavs : Onward(agent[v], ag[v])
  BY <1>1, <1>2 DEF Onward
<1>4. CASE agent' = ag /\ UNCHANGED <<status, pending, landings>>
  BY <1>1, <1>3, <1>4
<1>5. CASE /\ s = "DOWN" /\ status' = [status EXCEPT ![a] = "ENDED"]
           /\ landings' = landings \ {a} /\ agent' = ag /\ UNCHANGED pending
  BY <1>1, <1>3, <1>5 DEF Statuses
<1>6. CASE s = "DOWN" /\ MarkFailure(a, ag)
  <2>1. /\ agent' \in [Uavs -> AgentStates] /\ status' \in [Assignments -> Statuses]
        /\ pending' \subseteq Assignments /\ landings' \subseteq Assignments
        /\ \A v \in Uavs : v # holder[a] => agent'[v] = ag[v]
        /\ Onward(ag[holder[a]], agent'[holder[a]])
        /\ \A b \in Assignments : b # a => status'[b] = status[b]
        /\ status'[a] \in {"CANCELING", "ENDED", "WAITING_REASSIGNMENT"}
        /\ pending' \in {pending \ {a}, pending \cup {a}}
    BY <1>1, <1>3, <1>6, FailureFacts
  <2>2. agent'[holder[a]] = s
    BY <1>2, <1>3, <1>6, <2>1, OneWay
  <2>3. QED
    BY <1>2, <1>3, <1>6, <2>1, <2>2
<1>7. QED
  BY <1>4, <1>5, <1>6 DEF Adopt

LEMMA TickedTypes ==
  ASSUME RecoveryTypeOK, NEW u \in Uavs, NEW s, Ticked(u, s)
  PROVE  faults' \in [Uavs -> Nat]
BY DEF RecoveryTypeOK, Ticked

LEMMA VisitQuiet ==
  ASSUME FlightInv, NEW a \in Assignments, mode' = mode, VisitWaiting(a) \/ Visit(a)
  PROVE  RecoveryTypeOK' /\ Quiet
<1> DEFINE u == holder[a]
           Known == /\ agent' \in [Uavs -> AgentStates] /\ status' \in [Assignments -> Statuses]
                    /\ pending' \subseteq Assignments /\ landings' \subseteq Assignments
                    /\ \A v \in Uavs : Onward(agent[v], agent'[v])
                    /\ \A b \in Assignments : status'[b] = "READY" => status[b] = "READY"
                    /\ faults' \in [Uavs -> Nat]
<1>1. u \in Uavs /\ agent \in [Uavs -> AgentStates] /\ RecoveryTypeOK
  BY DEF FlightInv, RecoveryTypeOK
<1>2. UNCHANGED <<holder, version, plan, route, fleetVersion, cancelRequested, recovery,
                  raised, apart>>
  BY DEF VisitWaiting, Visit, VisitTurn, VehicleTurn
<1>3. ASSUME BeginLanding(a, agent), UNCHANGED faults
      PROVE  Known
  BY <1>1, <1>3, LandingFacts DEF RecoveryTypeOK
<1>4. ASSUME MarkFailure(a, agent), UNCHANGED faults
      PROVE  Known
  BY <1>1, <1>4, FailureFacts DEF RecoveryTypeOK
<1>5. ASSUME NEW s \in TickResults(agent[u]), Ticked(u, s),
             agent' = [agent EXCEPT ![u] = s], UNCHANGED <<status, pending, landings>>
      PROVE  Known
  <2>1. s \in AgentStates
    BY <1>1, OneWay DEF Onward
  <2>2. faults' \in [Uavs -> Nat]
    BY <1>1, <1>5, TickedTypes
  <2>3. QED
    BY <1>1, <1>5, <2>1, <2>2 DEF RecoveryTypeOK, Onward
<1>6. ASSUME NEW s \in TickResults(agent[u]), Ticked(u, s),
             Adopt(a, agent[u], s, [agent EXCEPT ![u] = s])
      PROVE  Known
  <2>1. faults' \in [Uavs -> Nat]
    BY <1>1, <1>6, TickedTypes
  <2>2. QED
    BY <1>1, <1>6, <2>1, AdoptFacts DEF RecoveryTypeOK
<1>7. Known
  <2>1. CASE VisitWaiting(a)
    BY <2>1, <1>3, <1>5 DEF VisitWaiting
  <2>2. CASE Visit(a)
    BY <2>2, <1>4, <1>6, <1>1 DEF Visit, Ticked
  <2>3. QED
    BY <2>1, <2>2
<1>8. RecoveryTypeOK'
  BY <1>1, <1>2, <1>7 DEF RecoveryTypeOK, recovery, apart
<1>9. ApartStep
  BY <1>1, <1>2, <1>7, ApartKept DEF FlightInv
<1>10. QED
  BY <1>2, <1>7, <1>8, <1>9 DEF Quiet

LEMMA VisitRetiredQuiet ==
  ASSUME FlightInv, NEW u \in Uavs, mode' = mode, VisitRetired(u)
  PROVE  RecoveryTypeOK' /\ Quiet
<1>1. /\ UNCHANGED <<holder, version, plan, route, fleetVersion, cancelRequested, recovery, raised>>
      /\ UNCHANGED <<status, pending, landings, faults>>
      /\ agent' = IF u \in former THEN agent ELSE [agent EXCEPT ![u] = "DOWN"]
      /\ retired' = retired \ {u} /\ former' = former \ {u} /\ u \in retired
  BY DEF VisitRetired, VehicleTurn
<1>2. u \notin former => Onward(agent[u], "DOWN")
  BY <1>1 DEF FlightInv, RetiredLand, Onward, TickResults
<1>3. \A v \in Uavs : Onward(agent[v], agent[v])
  BY DEF Onward
<1>4. agent \in [Uavs -> AgentStates] /\ "DOWN" \in AgentStates /\ retired \subseteq Uavs
  BY DEF FlightInv, RecoveryTypeOK, AgentStates
<1>5. /\ agent' \in [Uavs -> AgentStates]
      /\ \A v \in Uavs : Onward(agent[v], agent'[v])
      /\ \A v \in Uavs : v # u => agent'[v] = agent[v]
      /\ u \notin former => agent'[u] = "DOWN"
  BY <1>1, <1>2, <1>3, <1>4
<1>6. RecoveryTypeOK'
  BY <1>1, <1>5 DEF FlightInv, RecoveryTypeOK, recovery
<1>7. ApartStep
  BY <1>1, <1>4, <1>5 DEF ApartStep, FlightInv, RetiredLand
<1>8. QED
  BY <1>1, <1>5, <1>6, <1>7 DEF Quiet

LEMMA UserCancelQuiet ==
  ASSUME FlightInv, mode' = mode, UserCancel
  PROVE  RecoveryTypeOK' /\ Quiet
<1> DEFINE called == {a \in Assignments : status[a] # "ENDED"}
           accepts == {a \in called : agent[holder[a]] \in Cancelable}
<1>1. PICK down \in SUBSET {a \in accepts : "DOWN" \in CancelResults(agent[holder[a]])} :
        /\ agent' = [u \in Uavs |-> IF \E a \in down : holder[a] = u THEN "DOWN"
                                    ELSE IF \E a \in accepts : holder[a] = u THEN "SHUTDOWN"
                                    ELSE agent[u]]
        /\ status' = [a \in Assignments |-> IF a \in accepts \ down THEN "CANCELING"
                                            ELSE IF a \in called THEN "ENDED" ELSE status[a]]
  BY DEF UserCancel
<1>2. /\ UNCHANGED <<holder, version, pending, landings, faults, plan, route, fleetVersion,
                     apart, raised>>
      /\ cancelRequested' = TRUE /\ Finish(Assignments)
  BY DEF UserCancel
<1>3. RecoveryTypeOK /\ agent \in [Uavs -> AgentStates] /\ status \in [Assignments -> Statuses]
  BY DEF FlightInv, RecoveryTypeOK
<1>4. \A s \in Cancelable : Onward(s, "SHUTDOWN") /\ Onward(s, "DOWN")
  BY DEF Onward, TickResults, Cancelable
<1>5. \A u \in Uavs : Onward(agent[u], agent'[u]) /\ agent'[u] \in AgentStates
  <2>1. {"SHUTDOWN", "DOWN"} \subseteq AgentStates
    BY DEF AgentStates, Airborne
  <2>2. \A u \in Uavs : Onward(agent[u], agent[u])
    BY DEF Onward
  <2>3. QED
    BY <1>1, <1>3, <1>4, <2>1, <2>2
<1>6. status' \in [Assignments -> Statuses]
  BY <1>1, <1>3 DEF Statuses
<1>7. episode' \in [Assignments -> Episodes] /\ finished' \subseteq Uavs \X Nat
  BY <1>2, <1>3, FinishTypes
<1>8. RecoveryTypeOK'
  BY <1>1, <1>2, <1>3, <1>5, <1>6, <1>7 DEF RecoveryTypeOK, apart
<1>9. \A a \in Assignments : status'[a] = "READY" => status[a] = "READY"
  BY <1>1
<1>10. ApartStep
  BY <1>2, <1>3, <1>5, ApartKept DEF FlightInv
<1>11. QED
  BY <1>2, <1>5, <1>8, <1>9, <1>10 DEF Quiet

LEMMA ServiceQuiet ==
  ASSUME FlightInv, NEW a \in Assignments, mode' = mode, Service(a)
  PROVE  RecoveryTypeOK' /\ Quiet
<1>1. /\ UNCHANGED <<records, faults, plan, route, fleetVars, finished>>
      /\ episode' = [episode EXCEPT ![a] = NewEpisode(a, "REASSIGN")]
      /\ raised' \in {TRUE, raised}
      /\ \/ agent' = agent
         \/ \E s \in CancelResults(agent[holder[a]]) : agent' = [agent EXCEPT ![holder[a]] = s]
  BY DEF Service
<1>2. RecoveryTypeOK /\ agent \in [Uavs -> AgentStates] /\ holder[a] \in Uavs
  BY DEF FlightInv, RecoveryTypeOK
<1>3. \A u \in Uavs : Onward(agent[u], agent'[u])
  <2>1. \A u \in Uavs : Onward(agent[u], agent[u])
    BY DEF Onward
  <2>2. \A s \in CancelResults(agent[holder[a]]) : Onward(agent[holder[a]], s)
    BY <1>2, CancelEndsFlight
  <2>3. QED
    BY <1>1, <1>2, <2>1, <2>2
<1>4. agent' \in [Uavs -> AgentStates]
  BY <1>1, <1>2, <1>3, OneWay, CancelEndsFlight
<1>5. NewEpisode(a, "REASSIGN") \in Episodes
  BY <1>2, EpisodeTypes DEF Phases
<1>6. RecoveryTypeOK'
  BY <1>1, <1>2, <1>4, <1>5 DEF RecoveryTypeOK, records, fleetVars, apart
<1>7. ApartStep
  BY <1>1, <1>2, <1>3, ApartKept DEF FlightInv, fleetVars
<1>8. QED
  BY <1>1, <1>3, <1>6, <1>7 DEF Quiet, records

\* _exit(): also where the source of a handover has begun to land before.
LEMMA LandingQuiet ==
  ASSUME FlightInv, NEW a \in Assignments, mode' = mode, NEW ag \in [Uavs -> AgentStates],
         \A u \in Uavs : Onward(agent[u], ag[u]),
         BeginLanding(a, ag), Finish({a}), NothingPublished,
         UNCHANGED <<cancelRequested, raised>>,
         retired' \subseteq Uavs, former' \subseteq retired',
         UNCHANGED apart \/ ApartStep
  PROVE  RecoveryTypeOK' /\ Quiet
<1>1. RecoveryTypeOK /\ agent \in [Uavs -> AgentStates]
  BY DEF FlightInv, RecoveryTypeOK
<1>2. /\ agent' \in [Uavs -> AgentStates] /\ status' \in [Assignments -> Statuses]
      /\ pending' \subseteq Assignments /\ landings' \subseteq Assignments
      /\ \A u \in Uavs : Onward(ag[u], agent'[u])
      /\ \A b \in Assignments : status'[b] = "READY" => status[b] = "READY"
  BY <1>1, LandingFacts DEF RecoveryTypeOK
<1>3. \A u \in Uavs : Onward(agent[u], agent'[u])
  BY <1>1, <1>2, OnwardTwice
<1>4. episode' \in [Assignments -> Episodes] /\ finished' \subseteq Uavs \X Nat
  BY <1>1, FinishTypes
<1>5. RecoveryTypeOK'
  BY <1>1, <1>2, <1>4 DEF RecoveryTypeOK, NothingPublished
<1>6. ApartStep
  BY <1>1, <1>3, ApartKept DEF FlightInv
<1>7. QED
  BY <1>2, <1>3, <1>5, <1>6 DEF Quiet, NothingPublished

LEMMA ExitQuiet ==
  ASSUME FlightInv, NEW a \in Assignments, mode' = mode, Exit(a),
         UNCHANGED <<cancelRequested, raised>>
  PROVE  RecoveryTypeOK' /\ Quiet
<1>1. agent \in [Uavs -> AgentStates] /\ retired \subseteq Uavs /\ former \subseteq retired
  BY DEF FlightInv, RecoveryTypeOK
<1>2. \A u \in Uavs : Onward(agent[u], agent[u])
  BY DEF Onward
<1>3. BeginLanding(a, agent) /\ Finish({a}) /\ UNCHANGED apart /\ NothingPublished
  BY DEF Exit
<1>4. retired' = retired /\ former' = former
  BY <1>3 DEF apart
<1>5. QED
  BY <1>1, <1>2, <1>3, <1>4, LandingQuiet

LEMMA HandOverExpiresQuiet ==
  ASSUME FlightInv, NEW a \in Assignments, mode' = mode, HandOverExpires(a)
  PROVE  RecoveryTypeOK' /\ Quiet
<1> DEFINE u == holder[a]
<1>1. /\ agent \in [Uavs -> AgentStates] /\ retired \subseteq Uavs /\ former \subseteq retired
      /\ u \in Uavs /\ RecoveryTypeOK
  BY DEF FlightInv, RecoveryTypeOK
<1>2. PICK s \in EndStates(agent[u]) :
        Retire(u, s, {}) /\ BeginLanding(a, [agent EXCEPT ![u] = s])
  BY DEF HandOverExpires
<1>3. Onward(agent[u], s) /\ s \in {"SHUTDOWN", "DOWN"} /\ s \in AgentStates
  <2>1. CASE s \in CancelResults(agent[u])
    BY <1>1, <2>1, CancelEndsFlight, OneWay
  <2>2. CASE s = "DOWN" /\ agent[u] = "DOWN"
    BY <2>2 DEF Onward, AgentStates
  <2>3. QED
    BY <1>2, <2>1, <2>2 DEF EndStates
<1>4. /\ [agent EXCEPT ![u] = s] \in [Uavs -> AgentStates]
      /\ \A v \in Uavs : Onward(agent[v], [agent EXCEPT ![u] = s][v])
  BY <1>1, <1>3 DEF Onward
<1>5. /\ retired' \subseteq Uavs /\ former' \subseteq retired'
      /\ s = "SHUTDOWN" => retired' = retired \cup {u} /\ former' = former \ {u}
      /\ s # "SHUTDOWN" => retired' = retired /\ former' = former
  BY <1>1, <1>2, <1>3 DEF Retire
<1>6. Finish({a}) /\ NothingPublished /\ UNCHANGED <<cancelRequested, raised>>
  BY DEF HandOverExpires, ReassignmentLive, InPhase, EpisodeTurn
<1>7. CASE s # "SHUTDOWN"
  BY <1>2, <1>4, <1>5, <1>6, <1>7, LandingQuiet DEF apart
<1>8. CASE s = "SHUTDOWN"
  <2>1. CancelResults([agent EXCEPT ![u] = s][u]) = {}
    BY <1>1, <1>8 DEF CancelResults
  <2>2. agent' = [agent EXCEPT ![u] = s]
    BY <1>2, <2>1 DEF BeginLanding
  <2>3. agent'[u] = "SHUTDOWN" /\ \A v \in Uavs : v # u => agent'[v] = agent[v]
    BY <1>1, <1>8, <2>2
  <2>4. ApartStep
    BY <1>1, <1>5, <1>8, <2>3 DEF ApartStep, FlightInv, RetiredLand
  <2>5. QED
    BY <1>2, <1>4, <1>5, <1>6, <2>4, LandingQuiet
<1>9. QED
  BY <1>7, <1>8

\* The steps of an episode that publish nothing.
QuietTick(a) ==
  \/ OpenEpisode(a) \/ DropEpisode(a) \/ Expire(a)
  \/ SubmitLocal(a) \/ SubmitJoint(a) \/ SubmitReassign(a) \/ Prepare(a)
  \/ RetryLocal(a) \/ Coordinate(a) \/ RetryReassign(a) \/ GiveUp(a) \/ HandOverExpires(a)

\* An episode goes on: only its own record changes.
LEMMA GoesOnQuiet ==
  ASSUME FlightInv, NEW a \in Assignments, NEW e \in Episodes, mode' = mode,
         Becomes(a, e), Untouched, UNCHANGED <<cancelRequested, raised>>
  PROVE  RecoveryTypeOK' /\ Quiet
<1>1. RecoveryTypeOK
  BY DEF FlightInv
<1>2. episode' \in [Assignments -> Episodes] /\ finished' \subseteq Uavs \X Nat
  BY <1>1, BecomesTypes
<1>3. UNCHANGED <<mode, records, flight, fleetVars, raised>>
  BY DEF Untouched, NothingPublished, records, flight, fleetVars
<1>4. QED
  BY <1>2, <1>3, EpisodeOnly

LEMMA EscalateQuiet ==
  ASSUME FlightInv, NEW a \in Assignments, mode' = mode, Escalate(a),
         UNCHANGED <<cancelRequested, raised>>
  PROVE  RecoveryTypeOK' /\ Quiet
<1>1. CASE mode = "LOCAL_ONLY"
  BY <1>1, ExitQuiet DEF Escalate
<1>2. CASE mode # "LOCAL_ONLY"
  <2> DEFINE e == [episode[a] EXCEPT !.phase = "REASSIGN", !.request = "none", !.queuedAt = 0,
                                    !.context = NoDigest]
  <2>1. MarkFailure(a, agent) /\ Becomes(a, e) /\ UNCHANGED apart /\ NothingPublished
    BY <1>2 DEF Escalate
  <2>2. RecoveryTypeOK /\ agent \in [Uavs -> AgentStates] /\ episode[a] \in Episodes
    BY DEF FlightInv, RecoveryTypeOK
  <2>3. e \in Episodes
    BY <2>2, EpisodeTypes DEF Episodes, Phases
  <2>4. episode' \in [Assignments -> Episodes] /\ finished' \subseteq Uavs \X Nat
    BY <2>1, <2>2, <2>3, BecomesTypes
  <2>5. /\ agent' \in [Uavs -> AgentStates] /\ status' \in [Assignments -> Statuses]
        /\ pending' \subseteq Assignments /\ landings' \subseteq Assignments
        /\ \A v \in Uavs : Onward(agent[v], agent'[v])
        /\ \A b \in Assignments : status'[b] = "READY" => status[b] = "READY"
    BY <2>1, <2>2, FailureFacts DEF RecoveryTypeOK
  <2>6. RecoveryTypeOK'
    BY <2>1, <2>2, <2>4, <2>5 DEF RecoveryTypeOK, NothingPublished, apart
  <2>7. ApartStep
    BY <2>1, <2>2, <2>5, ApartKept DEF FlightInv
  <2>8. QED
    BY <2>1, <2>5, <2>6, <2>7 DEF Quiet, NothingPublished
<1>3. QED
  BY <1>1, <1>2

LEMMA QuietTickQuiet ==
  ASSUME FlightInv, NEW a \in Assignments, mode' = mode, QuietTick(a)
  PROVE  RecoveryTypeOK' /\ Quiet
<1>1. RecoveryTypeOK /\ episode[a] \in Episodes
  BY DEF FlightInv, RecoveryTypeOK
<1>2. fleetVersion \in Nat /\ Digest(a) \in Digests
      /\ (\A b \in Assignments : Digest(b) \in Digests) /\ NoDigest \in Digests
  BY <1>1, EpisodeTypes DEF RecoveryTypeOK
<1>3. CASE OpenEpisode(a)
  <2>1. NewEpisode(a, "LOCAL") \in Episodes
    BY <1>1, EpisodeTypes DEF Phases
  <2>2. Becomes(a, NewEpisode(a, "LOCAL")) /\ UNCHANGED <<records, flight, fleetVars, raised>>
    BY <1>3 DEF OpenEpisode, Becomes
  <2>3. QED
    BY <1>1, <2>1, <2>2, BecomesTypes, EpisodeOnly
<1>4. CASE DropEpisode(a)
  BY <1>1, <1>4, FinishTypes, EpisodeOnly DEF DropEpisode
<1>5. CASE Expire(a) \/ GiveUp(a)
  BY <1>5, ExitQuiet DEF Expire, GiveUp, EpisodeTurn
<1>6. CASE SubmitLocal(a)
  <2>1. [episode[a] EXCEPT !.request = "queued", !.queuedAt = fleetVersion, !.attempts = @ + 1]
          \in Episodes
    <3>1. episode[a].attempts + 1 \in Nat
      BY <1>1 DEF Episodes
    <3>2. QED
      BY <1>1, <1>2, <3>1 DEF Episodes
  <2>2. QED
    BY <1>6, <2>1, GoesOnQuiet DEF SubmitLocal, InPhase, EpisodeTurn
<1>7. CASE SubmitJoint(a)
  BY <1>1, <1>7, GoesOnQuiet DEF SubmitJoint, InPhase, EpisodeTurn, Episodes
<1>8. CASE SubmitReassign(a)
  <2>1. [episode[a] EXCEPT !.request = "queued", !.queuedAt = fleetVersion, !.reassigns = @ + 1]
          \in Episodes
    <3>1. episode[a].reassigns + 1 \in Nat
      BY <1>1 DEF Episodes
    <3>2. QED
      BY <1>1, <1>2, <3>1 DEF Episodes
  <2>2. QED
    BY <1>8, <2>1, GoesOnQuiet DEF SubmitReassign, InPhase, EpisodeTurn
<1>9. CASE Prepare(a)
  <2> DEFINE cs == [b \in Assignments |-> IF b \in episode[a].peers THEN Digest(b) ELSE NoDigest]
  <2>1. cs \in [Assignments -> Digests]
    BY <1>2
  <2> HIDE DEF cs
  <2>2. [episode[a] EXCEPT !.request = "running", !.queuedAt = 0, !.context = Digest(a),
                           !.contexts = cs] \in Episodes
    BY <1>1, <1>2, <2>1 DEF Episodes
  <2>3. QED
    BY <1>9, <2>2, GoesOnQuiet DEF Prepare, EpisodeTurn, cs
<1>10. CASE RetryLocal(a)
  <2>1. [episode[a] EXCEPT !.request = "none", !.queuedAt = 0] \in Episodes
    BY <1>1 DEF Episodes
  <2>2. UNCHANGED <<cancelRequested, raised>>
    BY <1>10 DEF RetryLocal, InPhase, EpisodeTurn
  <2>3. QED
    BY <1>10, <2>1, <2>2, GoesOnQuiet, EscalateQuiet DEF RetryLocal
<1>11. CASE Coordinate(a)
  <2>1. ASSUME NEW S, EnterJoint(a, S)
        PROVE  \E e \in Episodes : Becomes(a, e) /\ Untouched
    <3> DEFINE peers == {b \in Assignments \ {a} : holder[b] \in S}
               e == [episode[a] EXCEPT !.phase = "JOINT", !.request = "none", !.queuedAt = 0,
                                       !.peers = peers]
    <3>1. peers \in SUBSET Assignments
      OBVIOUS
    <3> HIDE DEF peers
    <3>2. e \in Episodes
      BY <1>1, <3>1 DEF Episodes, Phases
    <3>3. QED
      BY <2>1, <3>2 DEF EnterJoint, peers
  <2>2. UNCHANGED <<cancelRequested, raised>>
    BY <1>11 DEF Coordinate, InPhase, EpisodeTurn
  <2>3. QED
    BY <1>11, <2>1, <2>2, GoesOnQuiet DEF Coordinate
<1>12. CASE RetryReassign(a)
  BY <1>1, <1>2, <1>12, GoesOnQuiet DEF RetryReassign, InPhase, EpisodeTurn, Episodes
<1>13. CASE HandOverExpires(a)
  BY <1>13, HandOverExpiresQuiet
<1>14. QED
  BY <1>3, <1>4, <1>5, <1>6, <1>7, <1>8, <1>9, <1>10, <1>11, <1>12, <1>13 DEF QuietTick

LEMMA EndEpisodesQuiet ==
  ASSUME FlightInv, mode' = mode, EndEpisodes
  PROVE  RecoveryTypeOK' /\ Quiet
<1>1. RecoveryTypeOK
  BY DEF FlightInv
<1>2. QED
  BY <1>1, FinishTypes, EpisodeOnly DEF EndEpisodes

(***************************************************************************)
(* Steps that put vehicles on plans                                        *)
(***************************************************************************)

LEMMA RoutedPlan ==
  ASSUME NEW n, NEW c \in Corridors
  PROVE  [version |-> n, route |-> c] # NoPlan /\ c # NoRoute
<1>1. c # NoRoute
  BY RecoveryAssumption
<1>2. [version |-> n, route |-> c].route = c /\ NoPlan.route = NoRoute
  BY DEF NoPlan
<1>3. QED
  BY <1>1, <1>2

\* _start_pending_ready_assignments(): the replacement is started on its plan.
LEMMA StartKeeps ==
  ASSUME FlightInv, NEW a \in Assignments, mode' = mode, StartReady(a)
  PROVE  /\ FlightInv'
         /\ \A v \in Uavs : v # holder[a] => agent'[v] = agent[v]
         /\ \A b \in Assignments : b # a => status'[b] = status[b]
         /\ agent[holder[a]] = "IDLE" /\ agent'[holder[a]] \in {"IDLE", "FLYING", "SHUTDOWN", "DOWN"}
         /\ status'[a] # "READY" /\ UNCHANGED apart
         /\ agent'[holder[a]] \in Cancelable => status'[a] = "RUNNING"
<1> DEFINE u == holder[a]
           p == [version |-> version[a], route |-> route[u]]
<1>1. /\ RecoveryTypeOK /\ u \in Uavs /\ agent \in [Uavs -> AgentStates]
      /\ version[a] \in Nat /\ route[u] \in Corridors
  BY DEF FlightInv, RecoveryTypeOK, HoldersRouted
<1>2. p # NoPlan /\ route[u] # NoRoute
  BY <1>1, RoutedPlan
<1>3. status[a] = "READY" /\ agent[u] = "IDLE"
  BY DEF StartReady, FlightInv, ReadyIdle
<1>4. UNCHANGED <<mode, holder, version, faults, route, fleetVersion, retired, former, apart,
                  cancelRequested, episode, finished, raised>>
  BY DEF StartReady, fleetVars, recovery, apart
<1>5. CASE MarkFailure(a, agent) /\ UNCHANGED plan
  <2>1. /\ agent' \in [Uavs -> AgentStates] /\ status' \in [Assignments -> Statuses]
        /\ pending' \subseteq Assignments /\ landings' \subseteq Assignments
        /\ \A v \in Uavs : Onward(agent[v], agent'[v])
        /\ \A v \in Uavs : v # u => agent'[v] = agent[v]
        /\ \A b \in Assignments : b # a => status'[b] = status[b]
        /\ status'[a] # "READY"
    BY <1>1, <1>5, FailureFacts
  <2>2. RecoveryTypeOK'
    BY <1>1, <1>4, <1>5, <2>1 DEF RecoveryTypeOK
  <2>3. ApartStep
    BY <1>1, <1>4, <2>1, ApartKept DEF FlightInv
  <2>4. Quiet
    BY <1>4, <1>5, <2>1, <2>3 DEF Quiet
  <2>5. agent'[u] = "IDLE"
    BY <1>1, <1>3, <2>1, OneWay
  <2>6. "IDLE" \notin Cancelable
    BY DEF Cancelable
  <2>7. QED
    BY <1>3, <1>4, <2>1, <2>2, <2>4, <2>5, <2>6, QuietKeeps
<1>6. ASSUME /\ agent' \in [Uavs -> AgentStates] /\ status' \in [Assignments -> Statuses]
             /\ pending' \subseteq Assignments /\ landings' \subseteq Assignments
             /\ \A v \in Uavs : v # u => agent'[v] = agent[v]
             /\ agent'[u] \in {"FLYING", "SHUTDOWN", "DOWN"}
             /\ \A b \in Assignments : b # a => status'[b] = status[b]
             /\ status'[a] # "READY"
             /\ plan' = [plan EXCEPT ![u] = p]
      PROVE  FlightInv'
  <2>1. /\ plan' \in [Uavs -> [version : Nat, route : Corridors \cup {NoRoute}]]
        /\ plan'[u] = p /\ \A v \in Uavs : v # u => plan'[v] = plan[v]
    BY <1>1, <1>6 DEF RecoveryTypeOK
  <2>2. RecoveryTypeOK'
    BY <1>1, <1>4, <1>6, <2>1 DEF RecoveryTypeOK
  <2>3. \A b \in Assignments : holder[b] \in Uavs /\ (b # a => holder[b] # u)
    BY <1>1 DEF FlightInv, CarriedOnce, RecoveryTypeOK
  <2>4. (CarriedOnce /\ RoutesApart /\ HoldersRouted)'
    BY <1>4 DEF FlightInv, CarriedOnce, RoutesApart, HoldersRouted
  <2>5. (PlansRouted /\ Unflown)'
    BY <1>2, <1>4, <1>6, <2>1 DEF FlightInv, PlansRouted, Unflown
  <2>6. (ReadyIdle /\ VersionsAgree)'
    BY <1>4, <1>6, <2>1, <2>3 DEF FlightInv, ReadyIdle, VersionsAgree
  <2>7. RetiredLand'
    <3>1. u \notin retired \ former
      BY <1>3 DEF FlightInv, RetiredLand
    <3>2. QED
      BY <1>1, <1>4, <1>6, <3>1 DEF FlightInv, RetiredLand, RecoveryTypeOK
  <2>8. UnroutedLand'
    BY <1>4, <1>6 DEF FlightInv, UnroutedLand, Carried
  <2>9. QED
    BY <2>2, <2>4, <2>5, <2>6, <2>7, <2>8 DEF FlightInv
<1>7. CASE /\ agent' = [agent EXCEPT ![u] = "FLYING"]
           /\ plan' = [plan EXCEPT ![u] = p]
           /\ status' = [status EXCEPT ![a] = "RUNNING"]
           /\ UNCHANGED <<pending, landings>>
  <2>1. "FLYING" \in AgentStates /\ "RUNNING" \in Statuses
    BY DEF AgentStates, Airborne, Cancelable, Statuses
  <2>2. QED
    BY <1>1, <1>3, <1>4, <1>6, <1>7, <2>1 DEF RecoveryTypeOK
<1>8. ASSUME NEW s \in {"SHUTDOWN", "DOWN"}, MarkFailure(a, [agent EXCEPT ![u] = s]),
             plan' = [plan EXCEPT ![u] = p]
      PROVE  /\ FlightInv'
             /\ \A v \in Uavs : v # u => agent'[v] = agent[v]
             /\ \A b \in Assignments : b # a => status'[b] = status[b]
             /\ agent'[u] \in {"SHUTDOWN", "DOWN"} /\ status'[a] # "READY"
  <2> DEFINE ag == [agent EXCEPT ![u] = s]
  <2>1. ag \in [Uavs -> AgentStates] /\ ag[u] = s /\ \A v \in Uavs : v # u => ag[v] = agent[v]
    BY <1>1 DEF AgentStates, Airborne
  <2>2. /\ agent' \in [Uavs -> AgentStates] /\ status' \in [Assignments -> Statuses]
        /\ pending' \subseteq Assignments /\ landings' \subseteq Assignments
        /\ \A v \in Uavs : v # u => agent'[v] = ag[v]
        /\ Onward(ag[u], agent'[u])
        /\ \A b \in Assignments : b # a => status'[b] = status[b]
        /\ status'[a] # "READY"
    BY <1>1, <1>8, <2>1, FailureFacts
  <2>3. agent'[u] \in {"SHUTDOWN", "DOWN"}
    BY <1>1, <1>8, <2>1, <2>2, OneWay
  <2>4. QED
    BY <1>6, <1>8, <2>1, <2>2, <2>3
<1>9. {"SHUTDOWN", "DOWN"} \cap Cancelable = {}
  BY DEF Cancelable
<1>10. QED
  BY <1>3, <1>4, <1>5, <1>7, <1>8, <1>9 DEF StartReady

\* What commit_local_repair() and _publish_joint() do to the vehicles of S.
LEMMA PublishKeeps ==
  ASSUME FlightInv, NEW S \in SUBSET Assignments, NEW f, mode' = mode,
         \A b \in S : f[b] \in Corridors,
         \A b \in S : Occupants(f[b], {holder[d] : d \in S}) = {},
         \A b, d \in S : f[b] = f[d] => b = d,
         \A b \in S : agent[holder[b]] \in {"FLYING", "HOVERING"},
         Publish(S, f), Finish(S) \/ \E a \in Assignments : Finish({a}),
         UNCHANGED <<cancelRequested, raised>>
  PROVE  /\ FlightInv'
         /\ \A u \in Uavs : (\A b \in S : holder[b] # u) => agent'[u] = agent[u]
         /\ \A b \in S : agent'[holder[b]] \in {"FLYING", "LANDING"} /\ status'[b] = "RUNNING"
         /\ \A b \in Assignments \ S : status'[b] = status[b] /\ version'[b] = version[b]
         /\ UNCHANGED <<holder, faults, pending, apart>>
<1> DEFINE moved == {holder[b] : b \in S}
           on(u) == CHOOSE b \in S : holder[b] = u
           p(b) == [version |-> version[b] + 1, route |-> f[b]]
<1>1. /\ RecoveryTypeOK /\ agent \in [Uavs -> AgentStates] /\ version \in [Assignments -> Nat]
      /\ status \in [Assignments -> Statuses]
      /\ \A b \in Assignments : holder[b] \in Uavs
      /\ \A b, d \in Assignments : holder[b] = holder[d] => b = d
      /\ moved \subseteq Uavs
  BY DEF FlightInv, RecoveryTypeOK, CarriedOnce
<1>2. \A b \in S : on(holder[b]) = b
  BY <1>1
<1>3. /\ version' = [b \in Assignments |-> IF b \in S THEN version[b] + 1 ELSE version[b]]
      /\ status' = [b \in Assignments |-> IF b \in S THEN "RUNNING" ELSE status[b]]
      /\ plan' = [u \in Uavs |-> IF u \in moved
                                 THEN [version |-> version[on(u)] + 1, route |-> f[on(u)]] ELSE plan[u]]
      /\ route' = [u \in Uavs |-> IF u \in moved THEN f[on(u)] ELSE route[u]]
      /\ UNCHANGED <<holder, pending, landings, faults, fleetVersion, retired, former, apart>>
  BY DEF Publish, apart
<1>4. /\ \A b \in S : plan'[holder[b]] = p(b) /\ route'[holder[b]] = f[b]
      /\ \A u \in Uavs \ moved : plan'[u] = plan[u] /\ route'[u] = route[u]
  <2>1. \A u \in Uavs : plan'[u] = IF u \in moved
                                 THEN [version |-> version[on(u)] + 1, route |-> f[on(u)]] ELSE plan[u]
    BY <1>3
  <2>2. \A u \in Uavs : route'[u] = IF u \in moved THEN f[on(u)] ELSE route[u]
    BY <1>3
  <2> HIDE DEF on
  <2>3. QED
    BY <1>1, <1>2, <2>1, <2>2
<1>5. /\ \A u \in Uavs \ moved : agent'[u] = agent[u]
      /\ \A b \in S : agent'[holder[b]] \in {"FLYING", "LANDING"}
      /\ agent' \in [Uavs -> AgentStates]
  <2>1. PICK failed \in SUBSET moved :
          agent' = [u \in Uavs |-> IF u \in failed THEN "LANDING"
                                  ELSE IF u \in moved THEN "FLYING" ELSE agent[u]]
    BY DEF Publish
  <2>2. {"FLYING", "LANDING"} \subseteq AgentStates
    BY DEF AgentStates, Airborne, Cancelable
  <2>3. QED
    BY <1>1, <2>1, <2>2
<1>6. \A b \in S : p(b) # NoPlan /\ f[b] # NoRoute
  BY RoutedPlan
<1>7. episode' \in [Assignments -> Episodes] /\ finished' \subseteq Uavs \X Nat
  BY <1>1, FinishTypes
<1>8. /\ plan' \in [Uavs -> [version : Nat, route : Corridors \cup {NoRoute}]]
      /\ route' \in [Uavs -> Corridors \cup {NoRoute}]
  <2>1. \A b \in S : p(b) \in [version : Nat, route : Corridors \cup {NoRoute}]
    BY <1>1
  <2>2. ASSUME NEW u \in Uavs
        PROVE  /\ plan'[u] \in [version : Nat, route : Corridors \cup {NoRoute}]
               /\ route'[u] \in Corridors \cup {NoRoute}
    <3>1. CASE u \in Uavs \ moved
      BY <1>1, <1>4, <3>1 DEF RecoveryTypeOK
    <3>2. CASE u \in moved
      <4>1. PICK b \in S : holder[b] = u
        BY <3>2
      <4>2. plan'[u] = p(b) /\ route'[u] = f[b]
        BY <1>4, <4>1
      <4>3. QED
        BY <2>1, <4>2
    <3>3. QED
      BY <3>1, <3>2
  <2>3. plan' = [u \in Uavs |-> plan'[u]] /\ route' = [u \in Uavs |-> route'[u]]
    BY <1>3
  <2>4. QED
    BY <2>2, <2>3
<1>9. RecoveryTypeOK'
  <2>1. version' \in [Assignments -> Nat] /\ status' \in [Assignments -> Statuses]
    BY <1>1, <1>3 DEF Statuses
  <2>2. QED
    BY <1>1, <1>3, <1>5, <1>7, <1>8, <2>1 DEF RecoveryTypeOK
<1>10. CarriedOnce'
  BY <1>1, <1>3 DEF CarriedOnce
<1>11. RoutesApart'
  <2> SUFFICES ASSUME NEW u \in Uavs, NEW v \in Uavs, route'[u] = route'[v], route'[u] # NoRoute
               PROVE  u = v
    BY DEF RoutesApart
  <2>1. \A b \in S, x \in Uavs \ moved : route[x] # f[b]
    BY DEF Occupants
  <2>2. CASE u \in moved /\ v \in moved
    <3>1. PICK b \in S, d \in S : u = holder[b] /\ v = holder[d]
      BY <2>2
    <3>2. route'[u] = f[b] /\ route'[v] = f[d]
      BY <1>4, <3>1
    <3>3. QED
      BY <3>1, <3>2
  <2>3. CASE u \in moved /\ v \notin moved
    <3>1. PICK b \in S : u = holder[b]
      BY <2>3
    <3>2. route'[u] = f[b] /\ route'[v] = route[v]
      BY <1>4, <2>3, <3>1
    <3>3. QED
      BY <2>1, <2>3, <3>2
  <2>4. CASE u \notin moved /\ v \in moved
    <3>1. PICK b \in S : v = holder[b]
      BY <2>4
    <3>2. route'[v] = f[b] /\ route'[u] = route[u]
      BY <1>4, <2>4, <3>1
    <3>3. QED
      BY <2>1, <2>4, <3>2
  <2>5. CASE u \notin moved /\ v \notin moved
    BY <1>4, <2>5 DEF FlightInv, RoutesApart
  <2>6. QED
    BY <2>2, <2>3, <2>4, <2>5
<1>12. PlansRouted'
  <2> SUFFICES ASSUME NEW u \in Uavs, plan'[u] # NoPlan
               PROVE  plan'[u].route = route'[u] /\ route'[u] # NoRoute
    BY DEF PlansRouted
  <2>1. CASE u \in Uavs \ moved
    BY <1>4, <2>1 DEF FlightInv, PlansRouted
  <2>2. CASE u \in moved
    <3>1. PICK b \in S : u = holder[b]
      BY <2>2
    <3>2. plan'[u] = p(b) /\ route'[u] = f[b]
      BY <1>4, <3>1
    <3>3. QED
      BY <1>6, <3>2
  <2>3. QED
    BY <2>1, <2>2
<1>13. HoldersRouted'
  BY <1>1, <1>3, <1>4 DEF FlightInv, HoldersRouted
<1>14. Unflown'
  BY <1>4, <1>5 DEF FlightInv, Unflown
<1>15. ReadyIdle'
  BY <1>1, <1>3, <1>5 DEF FlightInv, ReadyIdle
<1>16. (RetiredLand /\ UnroutedLand)'
  <2>1. \A u \in retired \ former : u \in Uavs \ moved
    BY <1>1 DEF FlightInv, RetiredLand, RecoveryTypeOK
  <2>2. RetiredLand'
    BY <1>3, <1>5, <2>1 DEF FlightInv, RetiredLand
  <2>3. \A u \in Uavs : ~Carried(u)' => ~Carried(u) /\ u \in Uavs \ moved
    BY <1>3 DEF Carried
  <2>4. UnroutedLand'
    BY <1>3, <1>5, <2>3 DEF FlightInv, UnroutedLand
  <2>5. QED
    BY <2>2, <2>4
<1>17. VersionsAgree'
  <2> SUFFICES ASSUME NEW b \in Assignments, agent'[holder[b]] \in Airborne
               PROVE  plan'[holder[b]] = [version |-> version'[b], route |-> route'[holder[b]]]
    BY <1>3 DEF VersionsAgree
  <2>1. CASE b \in S
    <3>1. version'[b] = version[b] + 1
      BY <1>3, <2>1
    <3>2. QED
      BY <1>4, <2>1, <3>1
  <2>2. CASE b \notin S
    <3>1. holder[b] \in Uavs \ moved
      BY <1>1, <2>2
    <3>2. QED
      BY <1>3, <1>4, <1>5, <2>2, <3>1 DEF FlightInv, VersionsAgree
  <2>3. QED
    BY <2>1, <2>2
<1>18. FlightInv'
  BY <1>9, <1>10, <1>11, <1>12, <1>13, <1>14, <1>15, <1>16, <1>17 DEF FlightInv
<1>19. QED
  BY <1>1, <1>3, <1>5, <1>18

LEMMA CommitLocalKeeps ==
  ASSUME FlightInv, NEW a \in Assignments, mode' = mode, CommitLocal(a)
  PROVE  /\ FlightInv'
         /\ \A u \in Uavs : u # holder[a] => agent'[u] = agent[u]
         /\ agent[holder[a]] = "HOVERING"
         /\ agent'[holder[a]] \in {"FLYING", "LANDING"} /\ status'[a] = "RUNNING"
         /\ \A b \in Assignments \ {a} : status'[b] = status[b] /\ version'[b] = version[b]
         /\ UNCHANGED <<holder, faults, pending, apart>>
<1>1. /\ agent[holder[a]] = "HOVERING" /\ Finish({a}) /\ UNCHANGED <<cancelRequested, raised>>
      /\ ~cancelRequested
  BY DEF CommitLocal, InPhase, EpisodeTurn
<1>2. PICK c \in Corridors :
        Occupants(c, {holder[a]}) = {} /\ Publish({a}, [b \in {a} |-> c])
  BY DEF CommitLocal
<1> DEFINE f == [b \in {a} |-> c]
<1>3. {a} \in SUBSET Assignments /\ {holder[d] : d \in {a}} = {holder[a]}
  OBVIOUS
<1>4. /\ \A b \in {a} : f[b] \in Corridors
      /\ \A b \in {a} : Occupants(f[b], {holder[d] : d \in {a}}) = {}
      /\ \A b, d \in {a} : f[b] = f[d] => b = d
      /\ \A b \in {a} : agent[holder[b]] \in {"FLYING", "HOVERING"}
      /\ Publish({a}, f)
  BY <1>1, <1>2, <1>3
<1> HIDE DEF f
<1>5. /\ FlightInv'
      /\ \A u \in Uavs : (\A b \in {a} : holder[b] # u) => agent'[u] = agent[u]
      /\ \A b \in {a} : agent'[holder[b]] \in {"FLYING", "LANDING"} /\ status'[b] = "RUNNING"
      /\ \A b \in Assignments \ {a} : status'[b] = status[b] /\ version'[b] = version[b]
      /\ UNCHANGED <<holder, faults, pending, apart>>
  BY <1>1, <1>3, <1>4, PublishKeeps
<1>6. QED
  BY <1>1, <1>5

LEMMA CommitJointKeeps ==
  ASSUME FlightInv, NEW a \in Assignments, mode' = mode, CommitJoint(a)
  PROVE  LET S == {a} \cup episode[a].peers
         IN  /\ FlightInv' /\ S \subseteq Assignments
             /\ \A u \in Uavs : (\A b \in S : holder[b] # u) => agent'[u] = agent[u]
             /\ \A b \in S : /\ agent[holder[b]] \in {"FLYING", "HOVERING"}
                             /\ agent'[holder[b]] \in {"FLYING", "LANDING"} /\ status'[b] = "RUNNING"
             /\ \A b \in S \ {a} : agent[holder[b]] = "FLYING" /\ status[b] = "RUNNING"
             /\ \A b \in Assignments \ S : status'[b] = status[b] /\ version'[b] = version[b]
             /\ UNCHANGED <<holder, faults, pending, apart>>
<1> DEFINE S == {a} \cup episode[a].peers
<1>1. episode[a].peers \subseteq Assignments
  BY DEF FlightInv, RecoveryTypeOK, Episodes
<1>2. S \in SUBSET Assignments
  BY <1>1
<1>3. /\ agent[holder[a]] = "HOVERING" /\ Finish({a}) /\ UNCHANGED <<cancelRequested, raised>>
      /\ \A b \in episode[a].peers : PeerUnchanged(a, b)
  BY DEF CommitJoint, InPhase, EpisodeTurn
<1>4. /\ \A b \in S : agent[holder[b]] \in {"FLYING", "HOVERING"}
      /\ \A b \in S \ {a} : agent[holder[b]] = "FLYING" /\ status[b] = "RUNNING"
  BY <1>3 DEF PeerUnchanged
<1>5. PICK f \in [S -> Corridors] :
        /\ \A b \in S : Occupants(f[b], {holder[d] : d \in S}) = {}
        /\ \A b, d \in S : f[b] = f[d] => b = d
        /\ Publish(S, f)
  BY DEF CommitJoint
<1>6. \A b \in S : f[b] \in Corridors
  BY <1>5
<1> HIDE DEF S
<1>7. /\ FlightInv'
      /\ \A u \in Uavs : (\A b \in S : holder[b] # u) => agent'[u] = agent[u]
      /\ \A b \in S : agent'[holder[b]] \in {"FLYING", "LANDING"} /\ status'[b] = "RUNNING"
      /\ \A b \in Assignments \ S : status'[b] = status[b] /\ version'[b] = version[b]
      /\ UNCHANGED <<holder, faults, pending, apart>>
  BY <1>2, <1>3, <1>4, <1>5, <1>6, PublishKeeps
<1>8. QED
  BY <1>2, <1>4, <1>7 DEF S

LEMMA HandOverKeeps ==
  ASSUME FlightInv, NEW a \in Assignments, mode' = mode, HandOver(a)
  PROVE  /\ FlightInv'
         /\ \A u \in Uavs :
               \/ Onward(agent[u], agent'[u])
               \/ ~Carried(u) /\ Carried(u)' /\ agent'[u] = "IDLE" /\ (u \in retired => u \in former')
         /\ \A u \in former : u \in former' \/ agent'[u] = "SHUTDOWN"
         /\ agent'[holder'[a]] = "IDLE" /\ status'[a] = "READY"
         /\ \A b \in Assignments \ {a} :
               /\ agent'[holder[b]] = agent[holder[b]] /\ holder'[b] = holder[b]
               /\ status'[b] = status[b] /\ version'[b] = version[b]
         /\ pending' = pending \ {a} /\ faults' = faults
<1> DEFINE u == holder[a]
<1>1. PICK s \in EndStates(agent[u]), v \in Uavs, c \in Corridors :
        /\ Spare(v) /\ Occupants(c, {v}) = {}
        /\ agent' = [agent EXCEPT ![u] = s, ![v] = "IDLE"]
        /\ Retire(u, s, {v})
        /\ holder' = [holder EXCEPT ![a] = v]
        /\ plan' = [plan EXCEPT ![v] = NoPlan]
        /\ route' = [route EXCEPT ![v] = c]
  BY DEF HandOver
<1>2. /\ status' = [status EXCEPT ![a] = "READY"] /\ version' = [version EXCEPT ![a] = @ + 1]
      /\ fleetVersion' = fleetVersion + 1 /\ pending' = pending \ {a} /\ Finish({a})
      /\ UNCHANGED <<landings, faults, cancelRequested, raised>>
  BY DEF HandOver, ReassignmentLive, InPhase, EpisodeTurn
<1>3. /\ RecoveryTypeOK /\ u \in Uavs /\ agent \in [Uavs -> AgentStates]
      /\ \A b \in Assignments : holder[b] \in Uavs /\ (b # a => holder[b] # u)
      /\ holder \in [Assignments -> Uavs] /\ route \in [Uavs -> Corridors \cup {NoRoute}]
      /\ status \in [Assignments -> Statuses] /\ version \in [Assignments -> Nat]
  BY DEF FlightInv, RecoveryTypeOK, CarriedOnce
<1>4. u # v /\ ~Carried(v) /\ \A b \in Assignments : holder[b] # v
  BY <1>1 DEF Spare, Carried
<1>5. s \in {"SHUTDOWN", "DOWN"} /\ Onward(agent[u], s)
  <2>1. CASE s \in CancelResults(agent[u])
    BY <1>3, <2>1, CancelEndsFlight
  <2>2. CASE s = "DOWN" /\ agent[u] = "DOWN"
    BY <2>2 DEF Onward
  <2>3. QED
    BY <1>1, <2>1, <2>2 DEF EndStates
<1>6. /\ agent'[u] = s /\ agent'[v] = "IDLE" /\ route'[v] = c /\ holder'[a] = v
      /\ \A x \in Uavs \ {u, v} : agent'[x] = agent[x]
      /\ \A x \in Uavs \ {v} : route'[x] = route[x] /\ plan'[x] = plan[x]
      /\ plan'[v] = NoPlan /\ plan' \in [Uavs -> [version : Nat, route : Corridors \cup {NoRoute}]]
      /\ \A b \in Assignments \ {a} : holder'[b] = holder[b] /\ status'[b] = status[b] /\ version'[b] = version[b]
      /\ status'[a] = "READY"
  <2>1. plan \in [Uavs -> [version : Nat, route : Corridors \cup {NoRoute}]]
    BY <1>3 DEF RecoveryTypeOK
  <2>2. NoPlan \in [version : Nat, route : Corridors \cup {NoRoute}]
    BY DEF NoPlan
  <2>3. QED
    BY <1>1, <1>2, <1>3, <1>4, <2>1, <2>2
<1>7. RecoveryTypeOK'
  <2>1. {"SHUTDOWN", "DOWN", "IDLE"} \subseteq AgentStates /\ "READY" \in Statuses
    BY DEF AgentStates, Airborne, Statuses
  <2>2. episode' \in [Assignments -> Episodes] /\ finished' \subseteq Uavs \X Nat
    BY <1>2, <1>3, FinishTypes
  <2>3. retired' \subseteq Uavs /\ former' \subseteq retired'
    BY <1>1, <1>3 DEF RecoveryTypeOK, Retire
  <2>4. /\ agent' \in [Uavs -> AgentStates] /\ holder' \in [Assignments -> Uavs]
        /\ route' \in [Uavs -> Corridors \cup {NoRoute}]
        /\ status' \in [Assignments -> Statuses]
    BY <1>1, <1>2, <1>3, <1>5, <2>1
  <2>5. version' \in [Assignments -> Nat] /\ fleetVersion' \in Nat /\ pending' \subseteq Assignments
    BY <1>2, <1>3 DEF RecoveryTypeOK
  <2>6. QED
    BY <1>2, <1>3, <1>6, <2>2, <2>3, <2>4, <2>5 DEF RecoveryTypeOK
<1>8. CarriedOnce'
  BY <1>4, <1>6 DEF FlightInv, CarriedOnce
<1>9. RoutesApart'
  <2>1. \A x \in Uavs \ {v} : route[x] # c
    BY <1>1 DEF Occupants
  <2>2. QED
    BY <1>6, <2>1 DEF FlightInv, RoutesApart
<1>10. PlansRouted'
  BY <1>2, <1>4, <1>6 DEF FlightInv, PlansRouted
<1>11. HoldersRouted'
  BY <1>3, <1>4, <1>6 DEF FlightInv, HoldersRouted
<1>12. Unflown'
  BY <1>2, <1>4, <1>5, <1>6 DEF FlightInv, Unflown
<1>13. ReadyIdle'
  BY <1>3, <1>4, <1>6 DEF FlightInv, ReadyIdle
<1>14. /\ \A x \in Uavs \ {u, v} : (x \in retired' <=> x \in retired) /\ (x \in former' <=> x \in former)
       /\ s = "SHUTDOWN" => u \in retired' /\ u \notin former'
       /\ s # "SHUTDOWN" => (u \in retired' <=> u \in retired) /\ (u \in former' <=> u \in former)
       /\ (v \in retired' <=> v \in retired) /\ (v \in retired => v \in former')
       /\ retired \subseteq Uavs /\ retired' \subseteq Uavs /\ former \subseteq retired
  BY <1>1, <1>3, <1>4 DEF Retire, RecoveryTypeOK
<1>15. (RetiredLand /\ UnroutedLand)'
  <2>1. RetiredLand'
    BY <1>5, <1>6, <1>14 DEF FlightInv, RetiredLand
  <2>2. Carried(v)' /\ \A x \in Uavs \ {u, v} : Carried(x) => Carried(x)'
    BY <1>6 DEF Carried
  <2>3. \A x \in Uavs \ {u, v} : Carried(x)' \/ agent'[x] \in {"none", "DOWN"}
                                 \/ (agent'[x] = "SHUTDOWN" /\ x \in retired' \ former')
    BY <1>6, <1>14, <2>2 DEF FlightInv, UnroutedLand
  <2>4. agent'[u] = "DOWN" \/ (agent'[u] = "SHUTDOWN" /\ u \in retired' \ former')
    BY <1>5, <1>6, <1>14
  <2>5. QED
    BY <2>1, <2>2, <2>3, <2>4 DEF UnroutedLand
<1>16. VersionsAgree'
  <2> SUFFICES ASSUME NEW b \in Assignments, agent'[holder'[b]] \in Airborne
               PROVE  plan'[holder'[b]] = [version |-> version'[b], route |-> route'[holder'[b]]]
    BY DEF VersionsAgree
  <2>1. b # a
    BY <1>6 DEF Airborne, Cancelable
  <2>2. holder[b] \in Uavs \ {u, v}
    BY <1>3, <1>4, <2>1
  <2>3. /\ holder'[b] = holder[b] /\ version'[b] = version[b]
        /\ agent'[holder[b]] = agent[holder[b]] /\ plan'[holder[b]] = plan[holder[b]]
        /\ route'[holder[b]] = route[holder[b]]
    BY <1>6, <2>1, <2>2
  <2>4. QED
    BY <2>3 DEF FlightInv, VersionsAgree
<1>17. FlightInv'
  BY <1>7, <1>8, <1>9, <1>10, <1>11, <1>12, <1>13, <1>15, <1>16 DEF FlightInv
<1>18. \A x \in former : x \in former' \/ agent'[x] = "SHUTDOWN"
  BY <1>5, <1>6, <1>14
<1>19. \A x \in Uavs :
         \/ Onward(agent[x], agent'[x])
         \/ ~Carried(x) /\ Carried(x)' /\ agent'[x] = "IDLE" /\ (x \in retired => x \in former')
  <2>1. Carried(v)'
    BY <1>6 DEF Carried
  <2>2. \A x \in Uavs \ {u, v} : Onward(agent[x], agent'[x])
    BY <1>6 DEF Onward
  <2>3. QED
    BY <1>4, <1>5, <1>6, <1>14, <2>1, <2>2
<1>20. \A b \in Assignments \ {a} : agent'[holder[b]] = agent[holder[b]]
  BY <1>3, <1>4, <1>6
<1>21. QED
  BY <1>2, <1>6, <1>17, <1>18, <1>19, <1>20

(***************************************************************************)
(* Every step                                                              *)
(***************************************************************************)

LEMMA FlightInit ==
  ASSUME RecoveryInit
  PROVE  FlightInv
<1>1. /\ FirstHolder \in [Assignments -> Uavs]
      /\ \A a, b \in Assignments : FirstHolder[a] = FirstHolder[b] => a = b
      /\ FirstRoute \in [Uavs -> Corridors \cup {NoRoute}]
      /\ \A u \in Uavs : FirstRoute[u] = NoRoute <=> u \notin Planned
      /\ \A u, v \in Planned : FirstRoute[u] = FirstRoute[v] => u = v
      /\ NoRoute \notin Corridors
      /\ Modes \subseteq {"LOCAL_ONLY", "LOCAL_THEN_REASSIGN"}
  BY RecoveryAssumption
<1>2. /\ mode \in Modes /\ holder = FirstHolder
      /\ status = [a \in Assignments |-> "RUNNING"] /\ version = [a \in Assignments |-> 1]
      /\ agent = [u \in Uavs |-> IF u \in Planned THEN "FLYING" ELSE "none"]
      /\ faults = [u \in Uavs |-> 0]
      /\ plan = [u \in Uavs |-> IF u \in Planned THEN [version |-> 1, route |-> FirstRoute[u]]
                                ELSE NoPlan]
      /\ route = FirstRoute /\ fleetVersion = 1
      /\ pending = {} /\ landings = {} /\ retired = {} /\ former = {}
      /\ episode = [a \in Assignments |-> NoEpisode] /\ finished = {}
      /\ cancelRequested = FALSE /\ raised = FALSE
  BY DEF RecoveryInit
<1>3. RecoveryTypeOK
  <2>1. /\ "RUNNING" \in Statuses /\ "FLYING" \in AgentStates /\ "none" \in AgentStates
    BY DEF Statuses, AgentStates, Airborne, Cancelable
  <2>2. /\ holder \in [Assignments -> Uavs] /\ status \in [Assignments -> Statuses]
        /\ version \in [Assignments -> Nat] /\ agent \in [Uavs -> AgentStates]
        /\ faults \in [Uavs -> Nat] /\ route \in [Uavs -> Corridors \cup {NoRoute}]
    BY <1>1, <1>2, <2>1
  <2>3. plan \in [Uavs -> [version : Nat, route : Corridors \cup {NoRoute}]]
    BY <1>1, <1>2 DEF NoPlan
  <2>4. NoEpisode \in Episodes
    <3>1. NoDigest \in Digests /\ NoContexts \in [Assignments -> Digests]
      BY DEF NoDigest, NoContexts, Digests
    <3>2. QED
      BY <3>1 DEF NoEpisode, Episodes
  <2>5. episode \in [Assignments -> Episodes]
    BY <1>2, <2>4
  <2>6. QED
    BY <1>1, <1>2, <2>2, <2>3, <2>5 DEF RecoveryTypeOK
<1>4. CarriedOnce
  BY <1>1, <1>2 DEF CarriedOnce
<1>5. RoutesApart
  BY <1>1, <1>2 DEF RoutesApart
<1>6. \A u \in Uavs : u \in Planned => plan[u] = [version |-> 1, route |-> FirstRoute[u]]
  BY <1>2
<1>7. PlansRouted
  <2>1. \A u \in Uavs : plan[u] # NoPlan => u \in Planned
    BY <1>2
  <2>2. QED
    BY <1>1, <1>2, <1>6, <2>1 DEF PlansRouted
<1>8. \A a \in Assignments : holder[a] \in Planned /\ holder[a] \in Uavs
  BY <1>1, <1>2 DEF Planned
<1>9. HoldersRouted
  BY <1>1, <1>2, <1>8 DEF HoldersRouted
<1>10. Unflown
  BY <1>2 DEF Unflown
<1>11. VersionsAgree
  BY <1>2, <1>6, <1>8 DEF VersionsAgree
<1>12. ReadyIdle /\ RetiredLand /\ UnroutedLand
  BY <1>2 DEF ReadyIdle, RetiredLand, UnroutedLand, Carried, Planned
<1>13. QED
  BY <1>3, <1>4, <1>5, <1>7, <1>9, <1>10, <1>11, <1>12 DEF FlightInv

\* What LandingIsFinal says of one step.
LandsOn ==
  \A u \in Uavs :
    /\ agent[u] = "LANDING" => agent'[u] \in {"LANDING", "SHUTDOWN", "DOWN"}
    /\ agent[u] \in {"SHUTDOWN", "DOWN"} =>
         \/ agent'[u] \in {agent[u], "DOWN"}
         \/ /\ ~Carried(u) /\ Carried(u)' /\ agent'[u] = "IDLE"
            /\ agent[u] = "SHUTDOWN" => u \in former'
    /\ u \in former /\ u \in retired' =>
         u \in former' \/ agent'[u] = "SHUTDOWN"

LEMMA QuietLandsOn ==
  ASSUME RecoveryTypeOK, Quiet
  PROVE  LandsOn
<1>1. agent \in [Uavs -> AgentStates]
  BY DEF RecoveryTypeOK
<1>2. QED
  BY <1>1, OneWay DEF LandsOn, Quiet, ApartStep

LEMMA StepKeeps ==
  ASSUME FlightInv, [RecoveryNext \/ LoopEnds]_recoveryVars
  PROVE  FlightInv' /\ LandsOn
<1>1. RecoveryTypeOK
  BY DEF FlightInv
<1>2. ASSUME RecoveryTypeOK', Quiet
      PROVE  FlightInv' /\ LandsOn
  BY <1>1, <1>2, QuietKeeps, QuietLandsOn
<1>3. CASE UNCHANGED recoveryVars
  <2>1. UNCHANGED <<mode, records, flight, fleetVars, raised, episode, finished>>
    BY <1>3 DEF recoveryVars, recovery
  <2>2. episode' \in [Assignments -> Episodes] /\ finished' \subseteq Uavs \X Nat
    BY <1>1, <2>1 DEF RecoveryTypeOK
  <2>3. QED
    BY <1>2, <2>1, <2>2, EpisodeOnly
<1>4. ASSUME mode' = mode, NEW a \in Assignments, TickVehicle(a)
      PROVE  FlightInv' /\ LandsOn
  <2>1. CASE VisitWaiting(a) \/ Visit(a)
    BY <1>2, <1>4, <2>1, VisitQuiet
  <2>2. CASE StartReady(a)
    <3>1. /\ FlightInv' /\ agent[holder[a]] = "IDLE" /\ UNCHANGED apart
          /\ \A v \in Uavs : v # holder[a] => agent'[v] = agent[v]
      BY <1>4, <2>2, StartKeeps
    <3>2. QED
      BY <3>1 DEF LandsOn, apart
  <2>3. QED
    BY <1>4, <2>1, <2>2 DEF TickVehicle
<1>5. ASSUME mode' = mode, NEW a \in Assignments, TickEpisode(a)
      PROVE  FlightInv' /\ LandsOn
  <2>1. CASE QuietTick(a)
    BY <1>2, <1>5, <2>1, QuietTickQuiet
  <2>2. CASE CommitLocal(a)
    <3>1. /\ FlightInv' /\ agent[holder[a]] = "HOVERING" /\ UNCHANGED apart
          /\ \A u \in Uavs : u # holder[a] => agent'[u] = agent[u]
      BY <1>5, <2>2, CommitLocalKeeps
    <3>2. QED
      BY <3>1 DEF LandsOn, apart
  <2>3. CASE CommitJoint(a)
    <3> DEFINE S == {a} \cup episode[a].peers
    <3>1. /\ FlightInv' /\ UNCHANGED apart
          /\ \A u \in Uavs : (\A b \in S : holder[b] # u) => agent'[u] = agent[u]
          /\ \A b \in S : agent[holder[b]] \in {"FLYING", "HOVERING"}
      BY <1>5, <2>3, CommitJointKeeps
    <3>2. QED
      BY <3>1 DEF LandsOn, apart
  <2>4. CASE HandOver(a)
    <3>1. /\ FlightInv'
          /\ \A u \in Uavs :
               \/ Onward(agent[u], agent'[u])
               \/ ~Carried(u) /\ Carried(u)' /\ agent'[u] = "IDLE" /\ (u \in retired => u \in former')
          /\ \A u \in former : u \in former' \/ agent'[u] = "SHUTDOWN"
      BY <1>5, <2>4, HandOverKeeps
    <3>2. ASSUME NEW u \in Uavs, ~Carried(u), u \in retired => u \in former'
          PROVE  /\ agent[u] # "LANDING"
                 /\ agent[u] = "SHUTDOWN" => u \in former'
      BY <3>2 DEF FlightInv, UnroutedLand
    <3>3. \A u \in Uavs : Onward(agent[u], agent'[u]) =>
            /\ agent[u] = "LANDING" => agent'[u] \in {"LANDING", "SHUTDOWN", "DOWN"}
            /\ agent[u] \in {"SHUTDOWN", "DOWN"} => agent'[u] \in {agent[u], "DOWN"}
      BY <1>1, OneWay DEF RecoveryTypeOK
    <3>4. QED
      BY <3>1, <3>2, <3>3 DEF LandsOn
  <2>5. QED
    BY <1>5, <2>1, <2>2, <2>3, <2>4 DEF TickEpisode, QuietTick
<1>6. CASE RecoveryNext
  <2>1. mode' = mode
    BY <1>6 DEF RecoveryNext, Flying
  <2>2. ASSUME NEW a \in Assignments, Service(a)
        PROVE  FlightInv' /\ LandsOn
    BY <1>2, <2>1, <2>2, ServiceQuiet
  <2>3. ASSUME NEW u \in Uavs, VisitRetired(u)
        PROVE  FlightInv' /\ LandsOn
    BY <1>2, <2>1, <2>3, VisitRetiredQuiet
  <2>4. CASE UserCancel
    BY <1>2, <2>1, <2>4, UserCancelQuiet
  <2>5. CASE EndEpisodes
    BY <1>2, <2>1, <2>5, EndEpisodesQuiet
  <2>6. QED
    BY <1>4, <1>5, <1>6, <2>1, <2>2, <2>3, <2>4, <2>5 DEF RecoveryNext
<1>7. QED
  BY <1>3, <1>6 DEF LoopEnds

(***************************************************************************)
(* Episodes in every step                                                  *)
(***************************************************************************)

\* A step leaves the assignments outside S alone.
Alone(S) ==
  /\ UNCHANGED cancelRequested
  /\ \A b \in Assignments \ S :
       /\ holder'[b] = holder[b] /\ version'[b] = version[b] /\ status'[b] = status[b]
       /\ agent'[holder[b]] = agent[holder[b]] /\ faults'[holder[b]] = faults[holder[b]]
       /\ b \in pending' <=> b \in pending
       /\ episode'[b] = episode[b]
       /\ \A n \in Nat : <<holder[b], n>> \in finished' => <<holder[b], n>> \in finished

\* An assignment whose vehicle hovers no longer has nothing to lose.
LEMMA Settled ==
  ASSUME NEW a \in Assignments,
         agent'[holder'[a]] # "HOVERING",
         agent'[holder'[a]] = "FLYING" => episode'[a] = NoEpisode,
         status'[a] = "READY" => episode'[a] = NoEpisode /\ a \notin pending',
         status'[a] = "ENDED" \/ cancelRequested' => agent'[holder'[a]] \notin Cancelable,
         cancelRequested' => status'[a] # "READY",
         episode'[a].event <= faults'[holder'[a]]
  PROVE  Sound(a)'
BY DEF Sound

\* An episode that goes on, or ends, with its vehicle where it was.
LEMMA GoesOn ==
  ASSUME NEW a \in Assignments, Sound(a), faults[holder[a]] \in Nat,
         holder'[a] = holder[a], agent'[holder[a]] = agent[holder[a]],
         faults'[holder[a]] = faults[holder[a]], version'[a] = version[a],
         \/ status'[a] = status[a] /\ (a \in pending' <=> a \in pending)
         \/ status'[a] = "WAITING_REASSIGNMENT" /\ a \in pending',
         episode'[a] # NoEpisode =>
           /\ episode[a] # NoEpisode
           /\ episode'[a].event = episode[a].event /\ episode'[a].base = episode[a].base
           /\ episode'[a].phase = "REASSIGN" => episode[a].phase = "REASSIGN" \/ a \in pending',
         cancelRequested' = cancelRequested,
         agent[holder[a]] = "HOVERING" /\ <<holder[a], faults[holder[a]]>> \in finished' =>
           <<holder[a], faults[holder[a]]>> \in finished
  PROVE  Sound(a)'
<1>1. episode'[a].event <= faults[holder[a]]
  <2>1. NoEpisode.event <= faults[holder[a]]
    BY DEF NoEpisode
  <2>2. episode[a].event <= faults[holder[a]]
    BY DEF Sound
  <2>3. QED
    BY <2>1, <2>2
<1>2. status'[a] = "READY" => status[a] = "READY" /\ a \notin pending'
  BY DEF Sound
<1>3. QED
  BY <1>1, <1>2 DEF Sound

LEMMA AloneKeeps ==
  ASSUME FlightInv, EpisodeInv, NEW S \in SUBSET Assignments, Alone(S),
         \A a \in S : Sound(a)', EventsPast'
  PROVE  EpisodeInv'
<1>1. \A a \in Assignments : holder[a] \in Uavs /\ faults[holder[a]] \in Nat
  BY DEF FlightInv, RecoveryTypeOK
<1>2. \A a \in Assignments \ S : Sound(a)'
  BY <1>1, GoesOn DEF EpisodeInv, Alone
<1>3. QED
  BY <1>2 DEF EpisodeInv

\* _finish() of the episodes of S: their events, and no other, are finished.
LEMMA FinishFacts ==
  ASSUME FlightInv, EpisodeInv, NEW S \in SUBSET Assignments, Finish(S)
  PROVE  /\ \A a \in S : episode'[a] = NoEpisode
         /\ \A b \in Assignments \ S :
              /\ episode'[b] = episode[b]
              /\ \A n \in Nat : <<holder[b], n>> \in finished' => <<holder[b], n>> \in finished
         /\ \A a \in S, n \in Nat :
              <<holder[a], n>> \in finished' =>
                <<holder[a], n>> \in finished \/ (n = episode[a].event /\ n # 0)
         /\ \A u \in Uavs, n \in Nat : <<u, n>> \in finished' => n <= faults[u]
<1>1. /\ \A a \in Assignments : holder[a] \in Uavs /\ Sound(a)
      /\ \A a, b \in Assignments : holder[a] = holder[b] => a = b
  BY DEF FlightInv, RecoveryTypeOK, CarriedOnce, EpisodeInv
<1>2. \A u \in Uavs, n \in Nat :
        <<u, n>> \in finished' =>
          <<u, n>> \in finished \/ \E a \in S : u = holder[a] /\ n = episode[a].event /\ n # 0
  BY DEF Finish, Events
<1>3. \A a \in Assignments : episode'[a] = IF a \in S THEN NoEpisode ELSE episode[a]
  BY DEF Finish
<1>4. \A a \in Assignments : episode[a].event <= faults[holder[a]]
  BY <1>1 DEF Sound
<1>5. \A u \in Uavs, n \in Nat : <<u, n>> \in finished => n <= faults[u]
  BY DEF EpisodeInv, EventsPast
<1>6. \A u \in Uavs, n \in Nat : <<u, n>> \in finished' => n <= faults[u]
  BY <1>2, <1>4, <1>5
<1>7. QED
  BY <1>1, <1>2, <1>3, <1>6

\* A step that changes one assignment, its vehicle and its episode.
LEMMA SoloAlone ==
  ASSUME FlightInv, EpisodeInv, NEW a \in Assignments, UNCHANGED <<holder, cancelRequested>>,
         \A v \in Uavs : v # holder[a] => agent'[v] = agent[v] /\ faults'[v] = faults[v],
         \A b \in Assignments : b # a =>
           /\ version'[b] = version[b] /\ status'[b] = status[b]
           /\ b \in pending' <=> b \in pending,
         \/ finished' = finished /\ \A b \in Assignments : b # a => episode'[b] = episode[b]
         \/ Finish({a})
  PROVE  /\ Alone({a})
         /\ \A u \in Uavs, n \in Nat : <<u, n>> \in finished' => n <= faults[u]
<1>1. \A b \in Assignments : holder[b] \in Uavs /\ (b # a => holder[b] # holder[a])
  BY DEF FlightInv, RecoveryTypeOK, CarriedOnce
<1>2. /\ \A b \in Assignments : b # a =>
           /\ episode'[b] = episode[b]
           /\ \A n \in Nat : <<holder[b], n>> \in finished' => <<holder[b], n>> \in finished
      /\ \A u \in Uavs, n \in Nat : <<u, n>> \in finished' => n <= faults[u]
  <2>1. CASE finished' = finished /\ \A b \in Assignments : b # a => episode'[b] = episode[b]
    BY <2>1 DEF EpisodeInv, EventsPast
  <2>2. CASE Finish({a})
    BY <2>2, FinishFacts
  <2>3. QED
    BY <2>1, <2>2
<1>3. QED
  BY <1>1, <1>2 DEF Alone

\* The vehicle of a lands or has ended, whatever becomes of the episode of a.
LEMMA LandedSound ==
  ASSUME FlightInv, EpisodeInv, NEW a \in Assignments, holder' = holder,
         agent'[holder[a]] \notin Cancelable, status'[a] # "READY",
         faults'[holder[a]] = faults[holder[a]],
         episode'[a] = NoEpisode \/ episode'[a].event = episode[a].event
  PROVE  Sound(a)'
<1>1. faults[holder[a]] \in Nat /\ Sound(a)
  BY DEF FlightInv, RecoveryTypeOK, EpisodeInv
<1>2. agent'[holder[a]] # "HOVERING" /\ agent'[holder[a]] # "FLYING"
  BY DEF Cancelable
<1>3. episode'[a].event <= faults[holder[a]]
  <2>1. NoEpisode.event <= faults[holder[a]]
    BY <1>1 DEF NoEpisode
  <2>2. episode[a].event <= faults[holder[a]]
    BY <1>1 DEF Sound
  <2>3. QED
    BY <2>1, <2>2
<1>4. QED
  BY <1>2, <1>3, Settled

LEMMA VisitSound ==
  ASSUME FlightInv, EpisodeInv, NEW a \in Assignments, VisitWaiting(a) \/ Visit(a)
  PROVE  EpisodeInv'
<1> DEFINE u == holder[a]
<1>1. /\ RecoveryTypeOK /\ u \in Uavs /\ agent \in [Uavs -> AgentStates]
      /\ faults \in [Uavs -> Nat] /\ Sound(a) /\ pending \subseteq Assignments
  BY DEF FlightInv, RecoveryTypeOK, EpisodeInv
<1>2. /\ UNCHANGED <<holder, version, cancelRequested, episode, finished>>
      /\ Serviced(a) \/ cancelRequested
      /\ status[a] \in {"WAITING_REASSIGNMENT", "RUNNING", "CANCELING"}
  BY DEF VisitWaiting, Visit, VisitTurn, VehicleTurn, recovery
<1>3. ASSUME \A v \in Uavs : v # u => agent'[v] = agent[v] /\ faults'[v] = faults[v],
             faults'[u] \in {faults[u], faults[u] + 1},
             \A b \in Assignments : b # a => status'[b] = status[b] /\ (b \in pending' <=> b \in pending),
             Sound(a)'
      PROVE  EpisodeInv'
  <2>1. Alone({a})
    BY <1>2, <1>3, SoloAlone
  <2>2. \A v \in Uavs : faults[v] <= faults'[v]
    BY <1>1, <1>3
  <2>3. EventsPast'
    <3>1. ASSUME NEW v \in Uavs, NEW n \in Nat, <<v, n>> \in finished'
          PROVE  n <= faults'[v]
      <4>1. n <= faults[v]
        BY <1>2, <3>1 DEF EpisodeInv, EventsPast
      <4>2. faults[v] <= faults'[v] /\ faults[v] \in Nat /\ faults'[v] \in Nat
        BY <1>1, <1>3, <2>2
      <4>3. QED
        BY <4>1, <4>2
    <3>2. QED
      BY <3>1 DEF EventsPast
  <2>4. QED
    BY <1>3, <2>1, <2>3, AloneKeeps
<1>4. ASSUME BeginLanding(a, agent), UNCHANGED faults
      PROVE  EpisodeInv'
  <2>1. /\ \A v \in Uavs : v # u => agent'[v] = agent[v]
        /\ agent'[u] \notin Cancelable /\ pending' = pending \ {a}
        /\ \A b \in Assignments : b # a => status'[b] = status[b]
        /\ status'[a] # "READY"
    BY <1>1, <1>4, LandingFacts
  <2>2. Sound(a)'
    BY <1>1, <1>2, <1>4, <2>1, LandedSound
  <2>3. QED
    BY <1>3, <1>4, <2>1, <2>2
<1>5. ASSUME MarkFailure(a, agent), UNCHANGED faults
      PROVE  EpisodeInv'
  <2>1. /\ \A v \in Uavs : v # u => agent'[v] = agent[v]
        /\ \A b \in Assignments : b # a => status'[b] = status[b]
        /\ \/ /\ agent'[u] \notin Cancelable
              /\ status'[a] \in {"CANCELING", "ENDED"} /\ pending' = pending \ {a}
           \/ /\ agent' = agent
              /\ status'[a] = "WAITING_REASSIGNMENT" /\ pending' = pending \cup {a}
    BY <1>1, <1>5, FailureFacts
  <2>2. CASE /\ agent'[u] \notin Cancelable
             /\ status'[a] \in {"CANCELING", "ENDED"} /\ pending' = pending \ {a}
    <3>1. Sound(a)'
      BY <1>1, <1>2, <1>5, <2>2, LandedSound
    <3>2. QED
      BY <1>3, <1>5, <2>1, <2>2, <3>1
  <2>3. CASE /\ agent' = agent
             /\ status'[a] = "WAITING_REASSIGNMENT" /\ pending' = pending \cup {a}
    <3>1. Sound(a)'
      BY <1>1, <1>2, <1>5, <2>3, GoesOn
    <3>2. QED
      BY <1>3, <1>5, <2>1, <2>3, <3>1
  <2>4. QED
    BY <2>1, <2>2, <2>3
<1>6. ASSUME NEW s \in TickResults(agent[u]), Ticked(u, s), agent'[u] = s,
             \A v \in Uavs : v # u => agent'[v] = agent[v],
             \A b \in Assignments : b # a => status'[b] = status[b],
             \/ UNCHANGED <<status, pending>>
             \/ /\ s = "DOWN" /\ status'[a] # "READY"
                /\ pending' \in {pending, pending \ {a}, pending \cup {a}}
      PROVE  EpisodeInv'
  <2>1. /\ \A v \in Uavs : v # u => faults'[v] = faults[v]
        /\ \/ agent[u] = "FLYING" /\ s = "HOVERING" /\ faults'[u] = faults[u] + 1
           \/ s # "HOVERING" /\ faults' = faults
    BY <1>1, <1>6 DEF Ticked, TickResults
  <2>2. \A b \in Assignments : b # a => (b \in pending' <=> b \in pending)
    BY <1>6
  <2>3. Sound(a)'
    <3>1. CASE agent[u] = "FLYING" /\ s = "HOVERING" /\ faults'[u] = faults[u] + 1
      <4>1. /\ ~cancelRequested /\ episode[a] = NoEpisode /\ status[a] # "ENDED"
            /\ episode[a].event <= faults[u]
        BY <1>1, <3>1 DEF Sound, Cancelable
      <4>2. a \notin pending
        BY <1>2, <4>1 DEF Serviced, Open
      <4>3. <<u, faults[u] + 1>> \notin finished
        BY <1>1 DEF EpisodeInv, EventsPast
      <4>4. UNCHANGED <<status, pending>>
        BY <1>6, <3>1
      <4>5. episode'[a].event <= faults'[u]
        <5>1. NoEpisode.event = 0
          BY DEF NoEpisode
        <5>2. QED
          BY <1>1, <1>2, <3>1, <4>1, <5>1
      <4>6. QED
        BY <1>2, <1>6, <3>1, <4>1, <4>2, <4>3, <4>4, <4>5 DEF Sound
    <3>2. CASE s # "HOVERING" /\ faults' = faults
      <4>1. s # "FLYING" /\ (cancelRequested => s \notin Cancelable)
        BY <1>1, <1>6 DEF TickResults, Sound, Cancelable
      <4>2. status'[a] # "READY" /\ (status'[a] = "ENDED" => s = "DOWN")
        BY <1>2, <1>6
      <4>3. episode'[a].event <= faults'[u]
        BY <1>1, <1>2, <3>2 DEF Sound
      <4>4. QED
        BY <1>2, <1>6, <3>2, <4>1, <4>2, <4>3, Settled DEF Cancelable
    <3>3. QED
      BY <2>1, <3>1, <3>2
  <2>4. QED
    BY <1>3, <1>6, <2>1, <2>2, <2>3
<1>7. ASSUME NEW s \in TickResults(agent[u]), Ticked(u, s), agent' = [agent EXCEPT ![u] = s],
             UNCHANGED <<status, pending>>
      PROVE  EpisodeInv'
  BY <1>1, <1>6, <1>7
<1>8. ASSUME NEW s \in TickResults(agent[u]), Ticked(u, s),
             Adopt(a, agent[u], s, [agent EXCEPT ![u] = s])
      PROVE  EpisodeInv'
  BY <1>1, <1>6, <1>8, AdoptFacts
<1>9. CASE VisitWaiting(a)
  BY <1>9, <1>4, <1>7 DEF VisitWaiting
<1>10. CASE Visit(a)
  BY <1>10, <1>1, <1>5, <1>8 DEF Visit, Ticked
<1>11. QED
  BY <1>9, <1>10

LEMMA VisitRetiredSound ==
  ASSUME FlightInv, EpisodeInv, NEW u \in Uavs, VisitRetired(u)
  PROVE  EpisodeInv'
<1>1. /\ UNCHANGED <<holder, version, cancelRequested, episode, finished>>
      /\ UNCHANGED <<status, pending, landings, faults>>
      /\ agent' = IF u \in former THEN agent ELSE [agent EXCEPT ![u] = "DOWN"]
      /\ u \in retired
  BY DEF VisitRetired, VehicleTurn, recovery
<1>2. /\ agent \in [Uavs -> AgentStates]
      /\ u \notin former => agent[u] \in {"SHUTDOWN", "DOWN"}
      /\ \A a \in Assignments : holder[a] \in Uavs /\ faults[holder[a]] \in Nat
      /\ \A a \in Assignments : status[a] = "READY" => agent[holder[a]] = "IDLE"
  BY <1>1 DEF FlightInv, RecoveryTypeOK, RetiredLand, ReadyIdle
<1>3. EventsPast'
  BY <1>1 DEF EpisodeInv, EventsPast
<1>4. ASSUME NEW a \in Assignments
      PROVE  Sound(a)'
  <2>1. CASE holder[a] = u /\ u \notin former
    <3>1. agent'[holder[a]] = "DOWN" /\ status[a] # "READY"
      BY <1>1, <1>2, <2>1
    <3>2. QED
      BY <1>1, <3>1, LandedSound DEF Cancelable
  <2>2. CASE holder[a] # u \/ u \in former
    <3>1. agent'[holder[a]] = agent[holder[a]] /\ Sound(a)
      BY <1>1, <1>2, <2>2 DEF EpisodeInv
    <3>2. QED
      BY <1>1, <1>2, <3>1, GoesOn
  <2>3. QED
    BY <2>1, <2>2
<1>5. QED
  BY <1>3, <1>4 DEF EpisodeInv

LEMMA StartSound ==
  ASSUME FlightInv, EpisodeInv, NEW a \in Assignments, mode' = mode, StartReady(a)
  PROVE  EpisodeInv'
<1> DEFINE u == holder[a]
<1>1. /\ \A v \in Uavs : v # u => agent'[v] = agent[v]
      /\ \A b \in Assignments : b # a => status'[b] = status[b]
      /\ agent'[u] \in {"IDLE", "FLYING", "SHUTDOWN", "DOWN"}
      /\ status'[a] # "READY" /\ (agent'[u] \in Cancelable => status'[a] = "RUNNING")
  BY StartKeeps
<1>2. /\ status[a] = "READY"
      /\ UNCHANGED <<holder, version, faults, cancelRequested, episode, finished>>
      /\ pending' \in {pending, pending \ {a}, pending \cup {a}}
  BY DEF StartReady, fleetVars, recovery, MarkFailure, BeginLanding
<1>3. /\ u \in Uavs /\ Sound(a) /\ faults[u] \in Nat
      /\ \A b \in Assignments : b # a => (b \in pending' <=> b \in pending)
  BY <1>2 DEF FlightInv, RecoveryTypeOK, EpisodeInv
<1>4. episode[a] = NoEpisode /\ ~cancelRequested /\ episode[a].event <= faults[u]
  BY <1>2, <1>3 DEF Sound
<1>5. Sound(a)'
  BY <1>1, <1>2, <1>4, Settled DEF Cancelable
<1>6. /\ Alone({a})
      /\ \A v \in Uavs, n \in Nat : <<v, n>> \in finished' => n <= faults[v]
  BY <1>1, <1>2, <1>3, SoloAlone
<1>7. EventsPast'
  BY <1>2, <1>6 DEF EventsPast
<1>8. QED
  BY <1>5, <1>6, <1>7, AloneKeeps

LEMMA UserCancelSound ==
  ASSUME FlightInv, EpisodeInv, mode' = mode, UserCancel
  PROVE  EpisodeInv'
<1> DEFINE called == {a \in Assignments : status[a] # "ENDED"}
           accepts == {a \in called : agent[holder[a]] \in Cancelable}
<1>1. PICK down \in SUBSET {a \in accepts : "DOWN" \in CancelResults(agent[holder[a]])} :
        /\ agent' = [u \in Uavs |-> IF \E a \in down : holder[a] = u THEN "DOWN"
                                    ELSE IF \E a \in accepts : holder[a] = u THEN "SHUTDOWN"
                                    ELSE agent[u]]
        /\ status' = [a \in Assignments |-> IF a \in accepts \ down THEN "CANCELING"
                                            ELSE IF a \in called THEN "ENDED" ELSE status[a]]
  BY DEF UserCancel
<1>2. UNCHANGED <<holder, faults>> /\ Finish(Assignments)
  BY DEF UserCancel
<1>3. \A a \in Assignments : holder[a] \in Uavs /\ Sound(a)
  BY DEF FlightInv, RecoveryTypeOK, EpisodeInv
<1>4. /\ \A a \in Assignments : episode'[a] = NoEpisode
      /\ \A u \in Uavs, n \in Nat : <<u, n>> \in finished' => n <= faults[u]
  BY <1>2, FinishFacts
<1>5. EventsPast'
  BY <1>2, <1>4 DEF EventsPast
<1>6. ASSUME NEW a \in Assignments
      PROVE  Sound(a)'
  <2>1. agent'[holder[a]] \notin Cancelable
    <3>1. a \notin accepts => agent[holder[a]] \notin Cancelable
      BY <1>3 DEF Sound
    <3> HIDE DEF accepts
    <3>2. \/ agent'[holder[a]] \in {"DOWN", "SHUTDOWN"}
          \/ agent'[holder[a]] = agent[holder[a]] /\ a \notin accepts
      BY <1>1, <1>3
    <3>3. QED
      BY <3>1, <3>2 DEF Cancelable
  <2>2. status'[a] # "READY"
    BY <1>1
  <2>3. QED
    BY <1>2, <1>4, <2>1, <2>2, LandedSound
<1>7. QED
  BY <1>5, <1>6 DEF EpisodeInv

LEMMA EndEpisodesSound ==
  ASSUME FlightInv, EpisodeInv, EndEpisodes
  PROVE  EpisodeInv'
<1>1. /\ cancelRequested /\ Finish(Assignments)
      /\ UNCHANGED <<holder, status, faults, agent>>
  BY DEF EndEpisodes, records, flight
<1>2. /\ \A a \in Assignments : episode'[a] = NoEpisode
      /\ \A u \in Uavs, n \in Nat : <<u, n>> \in finished' => n <= faults[u]
  BY <1>1, FinishFacts
<1>3. EventsPast'
  BY <1>1, <1>2 DEF EventsPast
<1>4. ASSUME NEW a \in Assignments
      PROVE  Sound(a)'
  <2>1. agent[holder[a]] \notin Cancelable /\ status[a] # "READY"
    BY <1>1 DEF EpisodeInv, Sound
  <2>2. QED
    BY <1>1, <1>2, <2>1, LandedSound
<1>5. QED
  BY <1>3, <1>4 DEF EpisodeInv

LEMMA ServiceSound ==
  ASSUME FlightInv, EpisodeInv, NEW a \in Assignments, Service(a)
  PROVE  EpisodeInv'
<1> DEFINE u == holder[a]
<1>1. /\ a \in pending /\ episode[a] = NoEpisode
      /\ episode' = [episode EXCEPT ![a] = NewEpisode(a, "REASSIGN")]
      /\ UNCHANGED <<holder, status, version, pending, faults, cancelRequested, finished>>
      /\ \/ agent' = agent /\ agent[u] # "FLYING"
         \/ \E s \in CancelResults(agent[u]) : agent' = [agent EXCEPT ![u] = s]
  BY DEF Service, Open, records, fleetVars
<1>2. /\ RecoveryTypeOK /\ u \in Uavs /\ agent \in [Uavs -> AgentStates] /\ faults[u] \in Nat
      /\ episode \in [Assignments -> Episodes] /\ Sound(a)
  BY DEF FlightInv, RecoveryTypeOK, EpisodeInv
<1>3. /\ episode'[a].event = LiveEvent(u) /\ episode'[a].base = version[a]
      /\ \A b \in Assignments : b # a => episode'[b] = episode[b]
  BY <1>1, <1>2 DEF NewEpisode, NoEpisode
<1>4. episode'[a].event <= faults[u]
  BY <1>2, <1>3 DEF LiveEvent
<1>5. \A v \in Uavs : v # u => agent'[v] = agent[v]
  BY <1>1, <1>2
<1>6. /\ Alone({a})
      /\ \A v \in Uavs, n \in Nat : <<v, n>> \in finished' => n <= faults[v]
  BY <1>1, <1>3, <1>5, SoloAlone
<1>7. EventsPast'
  BY <1>1, <1>6 DEF EventsPast
<1>8. Sound(a)'
  <2>1. CASE agent' = agent /\ agent[u] # "FLYING"
    BY <1>1, <1>2, <1>3, <1>4, <2>1 DEF Sound
  <2>2. CASE \E s \in CancelResults(agent[u]) : agent' = [agent EXCEPT ![u] = s]
    <3>1. agent'[u] \in {"SHUTDOWN", "DOWN"}
      BY <1>2, <2>2, CancelEndsFlight
    <3>2. status[a] # "READY"
      BY <1>1, <1>2 DEF Sound
    <3>3. QED
      BY <1>1, <1>4, <3>1, <3>2, Settled DEF Cancelable
  <2>3. QED
    BY <1>1, <2>1, <2>2
<1>9. QED
  BY <1>6, <1>7, <1>8, AloneKeeps

\* The episode of a ends with a landing; before, the source of a handover may have
\* been brought down.
LEMMA LandingSound ==
  ASSUME FlightInv, EpisodeInv, NEW a \in Assignments, NEW ag \in [Uavs -> AgentStates],
         \A v \in Uavs : v # holder[a] => ag[v] = agent[v],
         BeginLanding(a, ag), Finish({a}), NothingPublished, UNCHANGED cancelRequested
  PROVE  EpisodeInv'
<1>1. RecoveryTypeOK
  BY DEF FlightInv
<1>2. /\ pending' = pending \ {a} /\ agent'[holder[a]] \notin Cancelable
      /\ \A v \in Uavs : v # holder[a] => agent'[v] = agent[v]
      /\ \A b \in Assignments : b # a => status'[b] = status[b]
      /\ status'[a] # "READY"
  BY <1>1, LandingFacts
<1>3. UNCHANGED <<holder, version, faults>>
  BY DEF NothingPublished
<1>4. episode'[a] = NoEpisode
  BY FinishFacts
<1>5. /\ Alone({a})
      /\ \A v \in Uavs, n \in Nat : <<v, n>> \in finished' => n <= faults[v]
  BY <1>2, <1>3, SoloAlone
<1>6. Sound(a)'
  BY <1>2, <1>3, <1>4, LandedSound
<1>7. EventsPast'
  BY <1>3, <1>5 DEF EventsPast
<1>8. QED
  BY <1>5, <1>6, <1>7, AloneKeeps

LEMMA ExitSound ==
  ASSUME FlightInv, EpisodeInv, NEW a \in Assignments, Exit(a), UNCHANGED cancelRequested
  PROVE  EpisodeInv'
<1>1. agent \in [Uavs -> AgentStates]
  BY DEF FlightInv, RecoveryTypeOK
<1>2. QED
  BY <1>1, LandingSound DEF Exit

\* The episode of a goes on with the same event, and the vehicle is left alone.
LEMMA ContinueSound ==
  ASSUME FlightInv, EpisodeInv, NEW a \in Assignments, Open(a), NEW e,
         e.event = episode[a].event, e.base = episode[a].base,
         e.phase = "REASSIGN" => episode[a].phase = "REASSIGN",
         Becomes(a, e), Untouched, UNCHANGED cancelRequested
  PROVE  EpisodeInv'
<1>1. UNCHANGED <<holder, version, status, pending, agent, faults, finished>>
  BY DEF Untouched, NothingPublished, Becomes
<1>2. /\ episode'[a] = e /\ \A b \in Assignments : b # a => episode'[b] = episode[b]
      /\ faults[holder[a]] \in Nat /\ Sound(a)
  BY DEF Becomes, FlightInv, RecoveryTypeOK, EpisodeInv
<1>3. /\ Alone({a})
      /\ \A v \in Uavs, n \in Nat : <<v, n>> \in finished' => n <= faults[v]
  BY <1>1, <1>2, SoloAlone
<1>4. Sound(a)'
  BY <1>1, <1>2, GoesOn DEF Open
<1>5. EventsPast'
  BY <1>1, <1>3 DEF EventsPast
<1>6. QED
  BY <1>3, <1>4, <1>5, AloneKeeps

LEMMA EscalateSound ==
  ASSUME FlightInv, EpisodeInv, NEW a \in Assignments, Open(a), Escalate(a),
         UNCHANGED cancelRequested
  PROVE  EpisodeInv'
<1>1. CASE mode = "LOCAL_ONLY"
  BY <1>1, ExitSound DEF Escalate
<1>2. CASE mode # "LOCAL_ONLY"
  <2> DEFINE e == [episode[a] EXCEPT !.phase = "REASSIGN", !.request = "none", !.queuedAt = 0,
                                    !.context = NoDigest]
  <2>1. Becomes(a, e) /\ NothingPublished
    BY <1>2 DEF Escalate
  <2>2. /\ status' = [status EXCEPT ![a] = "WAITING_REASSIGNMENT"]
        /\ pending' = pending \cup {a} /\ agent' = agent
    BY <1>2 DEF Escalate, MarkFailure
  <2>3. UNCHANGED <<holder, version, faults, finished>>
    BY <2>1 DEF NothingPublished, Becomes
  <2>4. /\ Sound(a) /\ faults[holder[a]] \in Nat /\ status \in [Assignments -> Statuses]
        /\ episode \in [Assignments -> Episodes]
    BY DEF FlightInv, RecoveryTypeOK, EpisodeInv
  <2>5. episode'[a] = e /\ \A b \in Assignments : b # a => episode'[b] = episode[b]
    BY <2>1, <2>4 DEF Becomes
  <2>6. e.event = episode[a].event /\ e.base = episode[a].base
    BY <2>4 DEF Episodes
  <2>7. Sound(a)'
    BY <2>2, <2>3, <2>4, <2>5, <2>6, GoesOn DEF Open
  <2>8. /\ Alone({a})
        /\ \A v \in Uavs, n \in Nat : <<v, n>> \in finished' => n <= faults[v]
    BY <2>2, <2>3, <2>4, <2>5, SoloAlone
  <2>9. EventsPast'
    BY <2>3, <2>8 DEF EventsPast
  <2>10. QED
    BY <2>7, <2>8, <2>9, AloneKeeps
<1>3. QED
  BY <1>1, <1>2

LEMMA OpenSound ==
  ASSUME FlightInv, EpisodeInv, NEW a \in Assignments, OpenEpisode(a)
  PROVE  EpisodeInv'
<1> DEFINE u == holder[a]
<1>1. /\ agent[u] = "HOVERING" /\ <<u, faults[u]>> \notin finished
      /\ episode' = [episode EXCEPT ![a] = NewEpisode(a, "LOCAL")]
      /\ UNCHANGED <<holder, status, version, pending, agent, faults, cancelRequested, finished>>
  BY DEF OpenEpisode, LiveEvent, records, flight, fleetVars
<1>2. /\ Sound(a) /\ faults[u] \in Nat /\ episode \in [Assignments -> Episodes]
      /\ (status[a] = "READY" => agent[u] = "IDLE")
  BY DEF FlightInv, RecoveryTypeOK, EpisodeInv, ReadyIdle
<1>3. /\ episode'[a].event = faults[u] /\ episode'[a].base = version[a]
      /\ episode'[a].phase = "LOCAL"
      /\ \A b \in Assignments : b # a => episode'[b] = episode[b]
  BY <1>1, <1>2 DEF NewEpisode, NoEpisode, LiveEvent
<1>4. /\ Alone({a})
      /\ \A v \in Uavs, n \in Nat : <<v, n>> \in finished' => n <= faults[v]
  BY <1>1, <1>3, SoloAlone
<1>5. EventsPast'
  BY <1>1, <1>4 DEF EventsPast
<1>6. Sound(a)'
  BY <1>1, <1>2, <1>3 DEF Sound
<1>7. QED
  BY <1>4, <1>5, <1>6, AloneKeeps

\* An episode that no longer owns its execution ends; its vehicle does not hover for
\* its event: if it did, manager, record and status would still be the episode's.
LEMMA DropSound ==
  ASSUME FlightInv, EpisodeInv, NEW a \in Assignments, DropEpisode(a)
  PROVE  EpisodeInv'
<1> DEFINE u == holder[a]
<1>1. /\ Open(a) /\ ~Owned(a) /\ Finish({a})
      /\ UNCHANGED <<holder, status, version, pending, agent, faults, cancelRequested>>
  BY DEF DropEpisode, records, flight, fleetVars
<1>2. Sound(a) /\ u \in Uavs /\ faults[u] \in Nat
  BY DEF FlightInv, RecoveryTypeOK, EpisodeInv
<1>3. /\ episode'[a] = NoEpisode
      /\ <<u, faults[u]>> \in finished' =>
           <<u, faults[u]>> \in finished \/ (faults[u] = episode[a].event /\ faults[u] # 0)
  BY <1>1, <1>2, FinishFacts
<1>4. ASSUME agent[u] = "HOVERING", faults[u] = episode[a].event, faults[u] # 0
      PROVE  FALSE
  <2>1. version[a] = episode[a].base
    BY <1>1, <1>2, <1>4 DEF Sound, Open
  <2>2. plan[u].version = version[a]
    <3>1. agent[u] \in Airborne
      BY <1>4 DEF Airborne, Cancelable
    <3>2. plan[u] = [version |-> version[a], route |-> route[u]]
      BY <3>1 DEF FlightInv, VersionsAgree
    <3>3. QED
      BY <3>2
  <2>3. LiveEvent(u) = episode[a].event
    BY <1>4 DEF LiveEvent
  <2>4. episode[a].phase = "REASSIGN" => status[a] = "WAITING_REASSIGNMENT"
    BY <1>1, <1>2, <1>4 DEF Sound, Open
  <2>5. QED
    BY <1>1, <2>1, <2>2, <2>3, <2>4 DEF Owned
<1>5. Sound(a)'
  BY <1>1, <1>2, <1>3, <1>4, GoesOn
<1>6. /\ Alone({a})
      /\ \A v \in Uavs, n \in Nat : <<v, n>> \in finished' => n <= faults[v]
  BY <1>1, SoloAlone
<1>7. EventsPast'
  BY <1>1, <1>6 DEF EventsPast
<1>8. QED
  BY <1>5, <1>6, <1>7, AloneKeeps

LEMMA HandOverExpiresSound ==
  ASSUME FlightInv, EpisodeInv, NEW a \in Assignments, HandOverExpires(a)
  PROVE  EpisodeInv'
<1> DEFINE u == holder[a]
<1>1. agent \in [Uavs -> AgentStates] /\ u \in Uavs
  BY DEF FlightInv, RecoveryTypeOK
<1>2. PICK s \in EndStates(agent[u]) : BeginLanding(a, [agent EXCEPT ![u] = s])
  BY DEF HandOverExpires
<1>3. s \in AgentStates
  <2>1. s \in {"SHUTDOWN", "DOWN"}
    BY <1>1, <1>2, CancelEndsFlight DEF EndStates
  <2>2. QED
    BY <2>1 DEF AgentStates, Airborne
<1>4. Finish({a}) /\ NothingPublished /\ UNCHANGED cancelRequested
  BY DEF HandOverExpires, ReassignmentLive, InPhase, EpisodeTurn
<1>5. [agent EXCEPT ![u] = s] \in [Uavs -> AgentStates]
  BY <1>1, <1>3
<1>6. QED
  BY <1>1, <1>2, <1>4, <1>5, LandingSound

LEMMA QuietTickSound ==
  ASSUME FlightInv, EpisodeInv, NEW a \in Assignments, QuietTick(a)
  PROVE  EpisodeInv'
<1>1. episode[a] \in Episodes
  BY DEF FlightInv, RecoveryTypeOK
<1>2. ASSUME EpisodeTurn(a)
      PROVE  Open(a) /\ UNCHANGED cancelRequested
  BY <1>2 DEF EpisodeTurn
<1>3. CASE OpenEpisode(a)
  BY <1>3, OpenSound
<1>4. CASE DropEpisode(a)
  BY <1>4, DropSound
<1>5. CASE Expire(a) \/ GiveUp(a)
  BY <1>2, <1>5, ExitSound DEF Expire, GiveUp
<1>6. CASE SubmitLocal(a)
  <2> DEFINE e == [episode[a] EXCEPT !.request = "queued", !.queuedAt = fleetVersion,
                                     !.attempts = @ + 1]
  <2>1. e.event = episode[a].event /\ e.base = episode[a].base /\ e.phase = episode[a].phase
    BY <1>1 DEF Episodes
  <2>2. EpisodeTurn(a) /\ Becomes(a, e) /\ Untouched
    BY <1>6 DEF SubmitLocal, InPhase
  <2> HIDE DEF e
  <2>3. QED
    BY <1>2, <2>1, <2>2, ContinueSound
<1>7. CASE SubmitJoint(a)
  <2> DEFINE e == [episode[a] EXCEPT !.request = "queued"]
  <2>1. e.event = episode[a].event /\ e.base = episode[a].base /\ e.phase = episode[a].phase
    BY <1>1 DEF Episodes
  <2>2. EpisodeTurn(a) /\ Becomes(a, e) /\ Untouched
    BY <1>7 DEF SubmitJoint, InPhase
  <2> HIDE DEF e
  <2>3. QED
    BY <1>2, <2>1, <2>2, ContinueSound
<1>8. CASE SubmitReassign(a)
  <2> DEFINE e == [episode[a] EXCEPT !.request = "queued", !.queuedAt = fleetVersion,
                                     !.reassigns = @ + 1]
  <2>1. e.event = episode[a].event /\ e.base = episode[a].base /\ e.phase = episode[a].phase
    BY <1>1 DEF Episodes
  <2>2. EpisodeTurn(a) /\ Becomes(a, e) /\ Untouched
    BY <1>8 DEF SubmitReassign, InPhase
  <2> HIDE DEF e
  <2>3. QED
    BY <1>2, <2>1, <2>2, ContinueSound
<1>9. CASE Prepare(a)
  <2> DEFINE e == [episode[a] EXCEPT !.request = "running", !.queuedAt = 0, !.context = Digest(a),
                     !.contexts = [b \in Assignments |-> IF b \in episode[a].peers THEN Digest(b)
                                                         ELSE NoDigest]]
  <2>1. e.event = episode[a].event /\ e.base = episode[a].base /\ e.phase = episode[a].phase
    BY <1>1 DEF Episodes
  <2>2. EpisodeTurn(a) /\ Becomes(a, e) /\ Untouched
    BY <1>9 DEF Prepare
  <2> HIDE DEF e
  <2>3. QED
    BY <1>2, <2>1, <2>2, ContinueSound
<1>10. CASE RetryLocal(a)
  <2> DEFINE e == [episode[a] EXCEPT !.request = "none", !.queuedAt = 0]
  <2>1. e.event = episode[a].event /\ e.base = episode[a].base /\ e.phase = episode[a].phase
    BY <1>1 DEF Episodes
  <2>2. EpisodeTurn(a) /\ ((Becomes(a, e) /\ Untouched) \/ Escalate(a))
    BY <1>10 DEF RetryLocal, InPhase
  <2> HIDE DEF e
  <2>3. QED
    BY <1>2, <2>1, <2>2, ContinueSound, EscalateSound
<1>11. CASE Coordinate(a)
  <2>1. ASSUME NEW S, EnterJoint(a, S)
        PROVE  \E e : /\ e.event = episode[a].event /\ e.base = episode[a].base /\ e.phase = "JOINT"
                      /\ Becomes(a, e) /\ Untouched
    <3> DEFINE peers == {b \in Assignments \ {a} : holder[b] \in S}
               e == [episode[a] EXCEPT !.phase = "JOINT", !.request = "none", !.queuedAt = 0,
                                       !.peers = peers]
    <3>1. e.event = episode[a].event /\ e.base = episode[a].base /\ e.phase = "JOINT"
      BY <1>1 DEF Episodes
    <3>2. Becomes(a, e) /\ Untouched
      BY <2>1 DEF EnterJoint
    <3> HIDE DEF e
    <3>3. QED
      BY <3>1, <3>2
  <2>2. EpisodeTurn(a) /\ \E S : EnterJoint(a, S)
    BY <1>11 DEF Coordinate, InPhase
  <2>3. QED
    BY <1>2, <2>1, <2>2, ContinueSound
<1>12. CASE RetryReassign(a)
  <2> DEFINE e == [episode[a] EXCEPT !.request = "none", !.queuedAt = 0, !.context = NoDigest]
  <2>1. e.event = episode[a].event /\ e.base = episode[a].base /\ e.phase = episode[a].phase
    BY <1>1 DEF Episodes
  <2>2. EpisodeTurn(a) /\ Becomes(a, e) /\ Untouched
    BY <1>12 DEF RetryReassign, InPhase
  <2> HIDE DEF e
  <2>3. QED
    BY <1>2, <2>1, <2>2, ContinueSound
<1>13. CASE HandOverExpires(a)
  BY <1>13, HandOverExpiresSound
<1>14. QED
  BY <1>3, <1>4, <1>5, <1>6, <1>7, <1>8, <1>9, <1>10, <1>11, <1>12, <1>13 DEF QuietTick

\* A vehicle that a publication has put on a plan has no open episode.
LEMMA FlownSound ==
  ASSUME FlightInv, EpisodeInv, NEW a \in Assignments, ~cancelRequested',
         agent'[holder'[a]] \in {"FLYING", "LANDING"}, status'[a] = "RUNNING",
         episode'[a] = NoEpisode, faults'[holder'[a]] \in Nat
  PROVE  Sound(a)'
<1>1. episode'[a].event <= faults'[holder'[a]]
  BY DEF NoEpisode
<1>2. QED
  BY <1>1, Settled

LEMMA CommitLocalSound ==
  ASSUME FlightInv, EpisodeInv, NEW a \in Assignments, mode' = mode, CommitLocal(a)
  PROVE  EpisodeInv'
<1>1. /\ \A u \in Uavs : u # holder[a] => agent'[u] = agent[u]
      /\ agent'[holder[a]] \in {"FLYING", "LANDING"} /\ status'[a] = "RUNNING"
      /\ \A b \in Assignments \ {a} : status'[b] = status[b] /\ version'[b] = version[b]
      /\ UNCHANGED <<holder, faults, pending, apart>>
  BY CommitLocalKeeps
<1>2. ~cancelRequested /\ UNCHANGED cancelRequested /\ Finish({a})
  BY DEF CommitLocal, InPhase, EpisodeTurn
<1>3. faults[holder[a]] \in Nat
  BY DEF FlightInv, RecoveryTypeOK
<1>4. episode'[a] = NoEpisode
  BY <1>2, FinishFacts
<1>5. /\ Alone({a})
      /\ \A v \in Uavs, n \in Nat : <<v, n>> \in finished' => n <= faults[v]
  BY <1>1, <1>2, SoloAlone
<1>6. Sound(a)'
  BY <1>1, <1>2, <1>3, <1>4, FlownSound
<1>7. EventsPast'
  BY <1>1, <1>5 DEF EventsPast
<1>8. QED
  BY <1>5, <1>6, <1>7, AloneKeeps

LEMMA CommitJointSound ==
  ASSUME FlightInv, EpisodeInv, NEW a \in Assignments, mode' = mode, CommitJoint(a)
  PROVE  EpisodeInv'
<1> DEFINE S == {a} \cup episode[a].peers
<1>1. /\ S \subseteq Assignments
      /\ \A u \in Uavs : (\A b \in S : holder[b] # u) => agent'[u] = agent[u]
      /\ \A b \in S : agent'[holder[b]] \in {"FLYING", "LANDING"} /\ status'[b] = "RUNNING"
      /\ \A b \in S \ {a} : agent[holder[b]] = "FLYING"
      /\ \A b \in Assignments \ S : status'[b] = status[b] /\ version'[b] = version[b]
      /\ UNCHANGED <<holder, faults, pending, apart>>
  BY CommitJointKeeps
<1>2. ~cancelRequested /\ UNCHANGED cancelRequested /\ Finish({a})
  BY DEF CommitJoint, InPhase, EpisodeTurn
<1>3. \A b \in Assignments : /\ holder[b] \in Uavs /\ faults[holder[b]] \in Nat /\ Sound(b)
                             /\ \A d \in Assignments : holder[b] = holder[d] => b = d
  BY DEF FlightInv, RecoveryTypeOK, CarriedOnce, EpisodeInv
<1>4. /\ episode'[a] = NoEpisode
      /\ \A b \in Assignments \ {a} :
           /\ episode'[b] = episode[b]
           /\ \A n \in Nat : <<holder[b], n>> \in finished' => <<holder[b], n>> \in finished
      /\ \A u \in Uavs, n \in Nat : <<u, n>> \in finished' => n <= faults[u]
  BY <1>2, FinishFacts
<1> HIDE DEF S
<1>5. \A b \in S : Sound(b)'
  <2>1. \A b \in S : episode'[b] = NoEpisode
    BY <1>1, <1>3, <1>4 DEF Sound
  <2>2. QED
    BY <1>1, <1>2, <1>3, <2>1, FlownSound
<1>6. Alone(S)
  <2>1. a \in S
    BY DEF S
  <2>2. \A b \in Assignments \ S : agent'[holder[b]] = agent[holder[b]]
    BY <1>1, <1>3
  <2>3. QED
    BY <1>1, <1>2, <1>4, <2>1, <2>2 DEF Alone
<1>7. EventsPast'
  BY <1>1, <1>4 DEF EventsPast
<1>8. QED
  BY <1>1, <1>5, <1>6, <1>7, AloneKeeps

LEMMA HandOverSound ==
  ASSUME FlightInv, EpisodeInv, NEW a \in Assignments, mode' = mode, HandOver(a)
  PROVE  EpisodeInv'
<1>1. /\ FlightInv' /\ agent'[holder'[a]] = "IDLE" /\ status'[a] = "READY"
      /\ \A b \in Assignments \ {a} :
            /\ agent'[holder[b]] = agent[holder[b]] /\ holder'[b] = holder[b]
            /\ status'[b] = status[b] /\ version'[b] = version[b]
      /\ pending' = pending \ {a} /\ faults' = faults
  BY HandOverKeeps
<1>2. ~cancelRequested /\ UNCHANGED cancelRequested /\ Finish({a})
  BY DEF HandOver, ReassignmentLive, InPhase, EpisodeTurn
<1>3. /\ episode'[a] = NoEpisode
      /\ \A b \in Assignments \ {a} :
           /\ episode'[b] = episode[b]
           /\ \A n \in Nat : <<holder[b], n>> \in finished' => <<holder[b], n>> \in finished
      /\ \A u \in Uavs, n \in Nat : <<u, n>> \in finished' => n <= faults[u]
  BY <1>2, FinishFacts
<1>4. Sound(a)'
  <2>1. faults'[holder'[a]] \in Nat
    BY <1>1 DEF FlightInv, RecoveryTypeOK
  <2>2. episode'[a].event <= faults'[holder'[a]]
    BY <1>3, <2>1 DEF NoEpisode
  <2>3. QED
    BY <1>1, <1>2, <1>3, <2>2, Settled
<1>5. Alone({a})
  BY <1>1, <1>2, <1>3 DEF Alone
<1>6. EventsPast'
  BY <1>1, <1>3 DEF EventsPast
<1>7. QED
  BY <1>4, <1>5, <1>6, AloneKeeps

LEMMA EpisodeInit ==
  ASSUME RecoveryInit
  PROVE  EpisodeInv
<1>1. /\ status = [a \in Assignments |-> "RUNNING"] /\ faults = [u \in Uavs |-> 0]
      /\ agent = [u \in Uavs |-> IF u \in Planned THEN "FLYING" ELSE "none"]
      /\ pending = {} /\ finished = {} /\ cancelRequested = FALSE
      /\ episode = [a \in Assignments |-> NoEpisode]
  BY DEF RecoveryInit
<1>2. \A a \in Assignments : holder[a] \in Uavs
  BY FlightInit DEF FlightInv, RecoveryTypeOK
<1>3. ASSUME NEW a \in Assignments
      PROVE  Sound(a)
  <2>1. episode[a] = NoEpisode /\ status[a] = "RUNNING" /\ agent[holder[a]] \in {"FLYING", "none"}
    BY <1>1, <1>2
  <2>2. episode[a].event <= faults[holder[a]]
    BY <1>1, <1>2, <2>1 DEF NoEpisode
  <2>3. QED
    BY <1>1, <2>1, <2>2 DEF Sound
<1>4. QED
  BY <1>1, <1>3 DEF EpisodeInv, EventsPast

LEMMA EpisodeStep ==
  ASSUME FlightInv, EpisodeInv, [RecoveryNext \/ LoopEnds]_recoveryVars
  PROVE  EpisodeInv'
<1>1. CASE UNCHANGED recoveryVars
  <2>1. UNCHANGED <<holder, status, version, pending, agent, faults, episode, finished,
                    cancelRequested>>
    BY <1>1 DEF recoveryVars, records, flight, fleetVars, recovery
  <2>2. EventsPast' /\ \A a \in Assignments : Sound(a)'
    BY <2>1 DEF EpisodeInv, EventsPast, Sound
  <2>3. QED
    BY <2>2 DEF EpisodeInv
<1>2. CASE RecoveryNext
  <2>1. mode' = mode
    BY <1>2 DEF RecoveryNext, Flying
  <2>2. ASSUME NEW a \in Assignments, TickVehicle(a)
        PROVE  EpisodeInv'
    BY <2>1, <2>2, VisitSound, StartSound DEF TickVehicle
  <2>3. ASSUME NEW a \in Assignments, TickEpisode(a)
        PROVE  EpisodeInv'
    BY <2>1, <2>3, QuietTickSound, CommitLocalSound, CommitJointSound, HandOverSound
    DEF TickEpisode, QuietTick
  <2>4. ASSUME NEW a \in Assignments, Service(a)
        PROVE  EpisodeInv'
    BY <2>4, ServiceSound
  <2>5. ASSUME NEW u \in Uavs, VisitRetired(u)
        PROVE  EpisodeInv'
    BY <2>5, VisitRetiredSound
  <2>6. CASE UserCancel \/ EndEpisodes
    BY <2>1, <2>6, UserCancelSound, EndEpisodesSound
  <2>7. QED
    BY <1>2, <2>2, <2>3, <2>4, <2>5, <2>6 DEF RecoveryNext
<1>3. QED
  BY <1>1, <1>2 DEF LoopEnds

(***************************************************************************)
(* Theorems                                                                *)
(***************************************************************************)

LEMMA FlightInvariant == RecoverySpec => []FlightInv
<1>1. RecoveryInit => FlightInv
  BY FlightInit
<1>2. FlightInv /\ [RecoveryNext \/ LoopEnds]_recoveryVars => FlightInv'
  BY StepKeeps
<1>3. QED
  BY <1>1, <1>2, PTL DEF RecoverySpec

\* The tables of the controller and of the runtime keep their types.
THEOREM RecoveryTypes == RecoverySpec => []RecoveryTypeOK
<1>1. FlightInv => RecoveryTypeOK
  BY DEF FlightInv
<1>2. QED
  BY <1>1, FlightInvariant, PTL

\* Whatever is handed over, an assignment is carried by one vehicle and a vehicle
\* carries one assignment: _record_for_uav() finds the one.
THEOREM RecoveryCarriedOnce == RecoverySpec => []CarriedOnce
<1>1. FlightInv => CarriedOnce
  BY DEF FlightInv
<1>2. QED
  BY <1>1, FlightInvariant, PTL

\* Answers computed side by side never put two vehicles into one corridor.
THEOREM RecoveryCorridors == RecoverySpec => []CorridorsApart
<1>1. FlightInv => CorridorsApart
  <2> SUFFICES ASSUME FlightInv, NEW u \in Uavs, NEW v \in Uavs,
                      plan[u].route = plan[v].route, plan[u] # NoPlan
               PROVE  u = v
    BY DEF CorridorsApart
  <2>1. plan[u].route = route[u] /\ route[u] # NoRoute
    BY DEF FlightInv, PlansRouted
  <2>2. plan[v] # NoPlan
    <3>1. NoPlan.route = NoRoute
      BY DEF NoPlan
    <3>2. QED
      BY <2>1, <3>1
  <2>3. plan[v].route = route[v]
    BY <2>2 DEF FlightInv, PlansRouted
  <2>4. QED
    BY <2>1, <2>3 DEF FlightInv, RoutesApart
<1>2. QED
  BY <1>1, FlightInvariant, PTL

\* Manager, record and route table tell of one plan for each vehicle in the air,
\* also where a skill did not start.
THEOREM RecoveryVersions == RecoverySpec => []VersionsAgree
<1>1. FlightInv => VersionsAgree
  BY DEF FlightInv
<1>2. QED
  BY <1>1, FlightInvariant, PTL

\* No late answer, repair of another vehicle or handover takes a vehicle that carries
\* an assignment out of its landing, or gives one that has ended there new work.  One
\* that carries none may be handed one back; the agent that lands it is kept then.
THEOREM RecoveryLandingFinal == RecoverySpec => LandingIsFinal
<1>1. FlightInv /\ [RecoveryNext \/ LoopEnds]_recoveryVars => [LandsOn]_recoveryVars
  BY StepKeeps
<1>2. RecoverySpec => [][LandsOn]_recoveryVars
  BY <1>1, FlightInvariant, PTL DEF RecoverySpec
<1>3. QED
  BY <1>2 DEF LandingIsFinal, LandsOn

\* An event is finished only when its vehicle has left the protected HOVER: no end
\* of an episode leaves a vehicle hovering with nobody to look at it again.
THEOREM RecoveryHoldServed == RecoverySpec => []HoldIsServed
<1>1. RecoveryInit => EpisodeInv
  BY EpisodeInit
<1>2. FlightInv /\ EpisodeInv /\ [RecoveryNext \/ LoopEnds]_recoveryVars => EpisodeInv'
  BY EpisodeStep
<1>3. EpisodeInv => HoldIsServed
  BY DEF EpisodeInv, Sound, HoldIsServed, LiveEvent
<1>4. QED
  BY <1>1, <1>2, <1>3, FlightInvariant, PTL DEF RecoverySpec

(***************************************************************************)
(* LOCAL_ONLY                                                              *)
(***************************************************************************)

\* Nothing waits to be handed over, and nothing ever was.
StaysLocal ==
  /\ ~raised /\ pending = {} /\ retired = {} /\ fleetVersion = 1
  /\ holder = FirstHolder
  /\ \A u \in Uavs \ Planned : agent[u] = "none"
  /\ \A a \in Assignments : /\ status[a] \notin {"READY", "WAITING_REASSIGNMENT"}
                            /\ episode[a].phase # "REASSIGN"
LocalOnly == mode = "LOCAL_ONLY" => StaysLocal

Mild ==
  /\ UNCHANGED <<holder, fleetVersion, retired, raised>>
  /\ pending' \subseteq pending
  /\ \A u \in Uavs \ Planned : agent'[u] = agent[u]
  /\ \A b \in Assignments : status'[b] \in {status[b], "RUNNING", "CANCELING", "ENDED"}
MildEpisodes ==
  \A b \in Assignments : episode'[b].phase \in {episode[b].phase, "none", "LOCAL", "JOINT"}

LEMMA MildKeeps ==
  ASSUME StaysLocal, Mild, MildEpisodes
  PROVE  StaysLocal'
BY DEF StaysLocal, Mild, MildEpisodes

LEMMA FinishMild == ASSUME NEW S, Finish(S) PROVE MildEpisodes
BY DEF Finish, NoEpisode, MildEpisodes

LEMMA BecomesMild ==
  ASSUME FlightInv, NEW a \in Assignments, NEW e, Becomes(a, e),
         e.phase \in {episode[a].phase, "none", "LOCAL", "JOINT"}
  PROVE  MildEpisodes
BY DEF FlightInv, RecoveryTypeOK, Becomes, MildEpisodes

LEMMA LandingMild ==
  ASSUME FlightInv, StaysLocal, NEW a \in Assignments, NEW ag, BeginLanding(a, ag),
         ag \in [Uavs -> AgentStates], \A u \in Uavs \ Planned : ag[u] = agent[u],
         UNCHANGED <<holder, fleetVersion, retired, raised>>
  PROVE  Mild
<1>1. holder[a] \in Planned
  BY DEF StaysLocal, Planned
<1>2. status \in [Assignments -> Statuses]
  BY DEF FlightInv, RecoveryTypeOK
<1>3. \A u \in Uavs \ Planned : agent'[u] = ag[u]
  BY <1>1 DEF BeginLanding
<1>4. \A b \in Assignments : status'[b] \in {status[b], "CANCELING", "ENDED"}
  BY <1>2 DEF BeginLanding
<1>5. pending' \subseteq pending
  BY DEF BeginLanding
<1>6. QED
  BY <1>3, <1>4, <1>5 DEF Mild

LEMMA MovedAgent ==
  ASSUME FlightInv, StaysLocal, NEW a \in Assignments, NEW s \in TickResults(agent[holder[a]])
  PROVE  LET ag == [agent EXCEPT ![holder[a]] = s]
         IN  ag \in [Uavs -> AgentStates] /\ \A u \in Uavs \ Planned : ag[u] = agent[u]
<1>1. holder[a] \in Planned
  BY DEF StaysLocal, Planned
<1>2. s \in AgentStates
  BY DEF TickResults, AgentStates, Airborne, Cancelable
<1>3. agent \in [Uavs -> AgentStates]
  BY DEF FlightInv, RecoveryTypeOK
<1>4. QED
  BY <1>1, <1>2, <1>3

LEMMA VisitLocal ==
  ASSUME FlightInv, mode = "LOCAL_ONLY", StaysLocal, NEW a \in Assignments, TickVehicle(a)
  PROVE  StaysLocal'
<1>1. status[a] \notin {"READY", "WAITING_REASSIGNMENT"}
  BY DEF StaysLocal
<1>2. Visit(a)
  BY <1>1 DEF TickVehicle, VisitWaiting, StartReady
<1>3. UNCHANGED <<holder, fleetVersion, retired, raised, episode>>
  BY <1>2 DEF Visit, VisitTurn, VehicleTurn, recovery, apart
<1>4. agent \in [Uavs -> AgentStates] /\ status \in [Assignments -> Statuses]
  BY DEF FlightInv, RecoveryTypeOK
<1>5. CASE MarkFailure(a, agent)
  <2>1. BeginLanding(a, agent)
    BY <1>5 DEF MarkFailure
  <2>2. Mild
    BY <1>3, <1>4, <2>1, LandingMild
  <2>3. QED
    BY <1>3, <2>2, MildKeeps DEF MildEpisodes
<1>6. ASSUME NEW s \in TickResults(agent[holder[a]]),
             Adopt(a, agent[holder[a]], s, [agent EXCEPT ![holder[a]] = s])
      PROVE  StaysLocal'
  <2> DEFINE ag == [agent EXCEPT ![holder[a]] = s]
  <2>1. ag \in [Uavs -> AgentStates] /\ \A u \in Uavs \ Planned : ag[u] = agent[u]
    BY MovedAgent
  <2> HIDE DEF ag
  <2>2. Adopt(a, agent[holder[a]], s, ag)
    BY <1>6 DEF ag
  <2>3. ASSUME BeginLanding(a, ag) PROVE Mild
    BY <1>3, <2>1, <2>3, LandingMild
  <2>4. ASSUME agent' = ag, UNCHANGED <<status, pending>> PROVE Mild
    BY <1>3, <2>1, <2>4 DEF Mild
  <2>5. ASSUME agent' = ag, status' = [status EXCEPT ![a] = "ENDED"], UNCHANGED pending
        PROVE  Mild
    BY <1>3, <1>4, <2>1, <2>5 DEF Mild
  <2>6. Mild
    BY <2>2, <2>3, <2>4, <2>5 DEF Adopt, MarkFailure
  <2>7. QED
    BY <1>3, <2>6, MildKeeps DEF MildEpisodes
<1>7. QED
  BY <1>2, <1>5, <1>6 DEF Visit

LEMMA EscalateLocal ==
  ASSUME FlightInv, mode = "LOCAL_ONLY", StaysLocal, NEW a \in Assignments,
         Exit(a) \/ Escalate(a), UNCHANGED raised
  PROVE  StaysLocal'
<1>1. BeginLanding(a, agent) /\ Finish({a}) /\ UNCHANGED <<holder, fleetVersion, retired>>
  BY DEF Escalate, Exit, NothingPublished, apart
<1>2. agent \in [Uavs -> AgentStates]
  BY DEF FlightInv, RecoveryTypeOK
<1>3. Mild
  BY <1>1, <1>2, LandingMild
<1>4. QED
  BY <1>1, <1>3, FinishMild, MildKeeps

LEMMA UntouchedMild == ASSUME Untouched, UNCHANGED raised PROVE Mild
BY DEF Untouched, NothingPublished, apart, Mild

LEMMA PublishLocal ==
  ASSUME FlightInv, StaysLocal, NEW S \in SUBSET Assignments, NEW f, Publish(S, f),
         NEW T, Finish(T),
         UNCHANGED raised
  PROVE  StaysLocal'
<1>1. \A b \in S : holder[b] \in Planned
  BY DEF StaysLocal, Planned
<1>2. \A u \in Uavs \ Planned : agent'[u] = agent[u]
  BY <1>1 DEF Publish
<1>3. \A b \in Assignments : status'[b] \in {status[b], "RUNNING"}
  BY DEF Publish
<1>4. Mild
  BY <1>2, <1>3 DEF Publish, apart, Mild
<1>5. QED
  BY <1>4, FinishMild, MildKeeps

LEMMA EpisodeLocal ==
  ASSUME FlightInv, mode = "LOCAL_ONLY", StaysLocal, NEW a \in Assignments, TickEpisode(a)
  PROVE  StaysLocal'
<1>1. episode[a].phase # "REASSIGN" /\ episode[a] \in Episodes
  BY DEF StaysLocal, FlightInv, RecoveryTypeOK
<1>2. CASE OpenEpisode(a)
  <2>1. Mild
    BY <1>2 DEF OpenEpisode, records, flight, fleetVars, apart, Mild
  <2>2. NewEpisode(a, "LOCAL").phase = "LOCAL"
    BY DEF NewEpisode, NoEpisode
  <2>3. MildEpisodes
    BY <1>1, <1>2, <2>2 DEF OpenEpisode, MildEpisodes
  <2>4. QED
    BY <2>1, <2>3, MildKeeps
<1>3. CASE DropEpisode(a)
  BY <1>3, FinishMild, MildKeeps DEF DropEpisode, records, flight, fleetVars, apart, Mild
<1>4. CASE Expire(a) \/ GiveUp(a)
  BY <1>4, EscalateLocal DEF Expire, GiveUp, EpisodeTurn
<1>5. CASE SubmitLocal(a) \/ SubmitJoint(a) \/ Prepare(a)
  <2>1. Untouched /\ UNCHANGED raised
    BY <1>5 DEF SubmitLocal, SubmitJoint, Prepare, InPhase, EpisodeTurn
  <2>2. CASE SubmitLocal(a)
    <3> DEFINE e == [episode[a] EXCEPT !.request = "queued", !.queuedAt = fleetVersion,
                                       !.attempts = @ + 1]
    <3>1. Becomes(a, e) /\ e.phase = episode[a].phase
      BY <1>1, <2>2 DEF SubmitLocal, Episodes
    <3>2. QED
      BY <2>1, <3>1, UntouchedMild, BecomesMild, MildKeeps
  <2>3. CASE SubmitJoint(a)
    <3> DEFINE e == [episode[a] EXCEPT !.request = "queued"]
    <3>1. Becomes(a, e) /\ e.phase = episode[a].phase
      BY <1>1, <2>3 DEF SubmitJoint, Episodes
    <3>2. QED
      BY <2>1, <3>1, UntouchedMild, BecomesMild, MildKeeps
  <2>4. CASE Prepare(a)
    <3> DEFINE e == [episode[a] EXCEPT !.request = "running", !.queuedAt = 0,
                       !.context = Digest(a),
                       !.contexts = [b \in Assignments |-> IF b \in episode[a].peers
                                                           THEN Digest(b) ELSE NoDigest]]
    <3>1. Becomes(a, e) /\ e.phase = episode[a].phase
      BY <1>1, <2>4 DEF Prepare, Episodes
    <3>2. QED
      BY <2>1, <3>1, UntouchedMild, BecomesMild, MildKeeps
  <2>5. QED
    BY <1>5, <2>2, <2>3, <2>4
<1>6. CASE RetryLocal(a)
  <2>1. CASE Escalate(a)
    BY <1>6, <2>1, EscalateLocal DEF RetryLocal, InPhase, EpisodeTurn
  <2>2. CASE Becomes(a, [episode[a] EXCEPT !.request = "none", !.queuedAt = 0]) /\ Untouched
    <3>1. [episode[a] EXCEPT !.request = "none", !.queuedAt = 0].phase = episode[a].phase
      BY <1>1 DEF Episodes
    <3>2. UNCHANGED raised
      BY <1>6 DEF RetryLocal, InPhase, EpisodeTurn
    <3>3. QED
      BY <2>2, <3>1, <3>2, UntouchedMild, BecomesMild, MildKeeps
  <2>3. QED
    BY <1>6, <2>1, <2>2 DEF RetryLocal
<1>7. CASE Coordinate(a)
  <2>1. PICK S : EnterJoint(a, S)
    BY <1>7 DEF Coordinate
  <2> DEFINE e == [episode[a] EXCEPT !.phase = "JOINT", !.request = "none", !.queuedAt = 0,
                                     !.peers = {b \in Assignments \ {a} : holder[b] \in S}]
  <2>2. Becomes(a, e) /\ Untouched
    BY <2>1 DEF EnterJoint
  <2>3. e.phase = "JOINT"
    BY <1>1 DEF Episodes
  <2> HIDE DEF e
  <2>4. UNCHANGED raised
    BY <1>7 DEF Coordinate, InPhase, EpisodeTurn
  <2>5. QED
    BY <2>2, <2>3, <2>4, UntouchedMild, BecomesMild, MildKeeps
<1>8. CASE CommitLocal(a)
  <2>1. PICK c \in Corridors : Publish({a}, [b \in {a} |-> c])
    BY <1>8 DEF CommitLocal
  <2>2. Finish({a}) /\ UNCHANGED raised
    BY <1>8 DEF CommitLocal, InPhase, EpisodeTurn
  <2>3. QED
    BY <2>1, <2>2, PublishLocal
<1>9. CASE CommitJoint(a)
  <2> DEFINE S == {a} \cup episode[a].peers
  <2>1. PICK f \in [S -> Corridors] : Publish(S, f)
    BY <1>9 DEF CommitJoint
  <2>2. Finish({a}) /\ UNCHANGED raised
    BY <1>9 DEF CommitJoint, InPhase, EpisodeTurn
  <2>3. S \in SUBSET Assignments
    BY <1>1 DEF Episodes
  <2> HIDE DEF S
  <2>4. QED
    BY <2>1, <2>2, <2>3, PublishLocal
<1>10. ~ (SubmitReassign(a) \/ RetryReassign(a) \/ HandOver(a) \/ HandOverExpires(a))
  BY <1>1 DEF SubmitReassign, RetryReassign, HandOver, HandOverExpires, ReassignmentLive, InPhase
<1>11. QED
  BY <1>2, <1>3, <1>4, <1>5, <1>6, <1>7, <1>8, <1>9, <1>10 DEF TickEpisode

LEMMA UserCancelLocal ==
  ASSUME FlightInv, StaysLocal, UserCancel
  PROVE  StaysLocal'
<1> DEFINE called == {a \in Assignments : status[a] # "ENDED"}
           accepts == {a \in called : agent[holder[a]] \in Cancelable}
<1>1. PICK down \in SUBSET {a \in accepts : "DOWN" \in CancelResults(agent[holder[a]])} :
        /\ agent' = [u \in Uavs |-> IF \E a \in down : holder[a] = u THEN "DOWN"
                                    ELSE IF \E a \in accepts : holder[a] = u THEN "SHUTDOWN"
                                    ELSE agent[u]]
        /\ status' = [a \in Assignments |-> IF a \in accepts \ down THEN "CANCELING"
                                            ELSE IF a \in called THEN "ENDED" ELSE status[a]]
  BY DEF UserCancel
<1>2. UNCHANGED <<holder, fleetVersion, retired, raised, pending>> /\ Finish(Assignments)
  BY DEF UserCancel, apart
<1>3. \A a \in Assignments : holder[a] \in Planned
  BY DEF StaysLocal, Planned
<1>4. down \subseteq Assignments /\ accepts \subseteq Assignments
  OBVIOUS
<1> HIDE DEF accepts, called
<1>5. \A u \in Uavs \ Planned : agent'[u] = agent[u]
  BY <1>1, <1>3, <1>4
<1>6. \A b \in Assignments : status'[b] \in {status[b], "CANCELING", "ENDED"}
  BY <1>1
<1>7. Mild
  BY <1>2, <1>5, <1>6 DEF Mild
<1>8. QED
  BY <1>2, <1>7, FinishMild, MildKeeps

LEMMA LocalStep ==
  ASSUME FlightInv, LocalOnly, [RecoveryNext \/ LoopEnds]_recoveryVars
  PROVE  LocalOnly'
<1>1. CASE UNCHANGED recoveryVars
  BY <1>1 DEF recoveryVars, records, flight, fleetVars, apart, recovery, LocalOnly, StaysLocal
<1>2. CASE RecoveryNext
  <2> SUFFICES ASSUME mode = "LOCAL_ONLY", StaysLocal
               PROVE  StaysLocal'
    BY <1>2 DEF RecoveryNext, Flying, LocalOnly
  <2>1. \A a \in Assignments : ~ Service(a)
    BY DEF Service, StaysLocal
  <2>2. \A u \in Uavs : ~ VisitRetired(u)
    BY DEF VisitRetired, StaysLocal
  <2>3. CASE EndEpisodes
    BY <2>3, FinishMild, MildKeeps DEF EndEpisodes, records, flight, fleetVars, apart, Mild
  <2>4. QED
    BY <1>2, <2>1, <2>2, <2>3, VisitLocal, EpisodeLocal, UserCancelLocal DEF RecoveryNext
<1>3. QED
  BY <1>1, <1>2 DEF LoopEnds

\* In the mode LOCAL_ONLY a fleet is what it was planned to be: every assignment stays
\* with its vehicle, the others stay on the ground, nothing waits for a reassignment,
\* and tick() always returns, which it does not in the other mode.
THEOREM RecoveryStaysLocal ==
  RecoverySpec => [](mode = "LOCAL_ONLY" => TickReturns /\ holder = FirstHolder
                       /\ \A u \in Uavs \ Planned : agent[u] = "none")
<1>1. RecoveryInit => LocalOnly
  BY DEF RecoveryInit, LocalOnly, StaysLocal, NoEpisode
<1>2. FlightInv /\ LocalOnly /\ [RecoveryNext \/ LoopEnds]_recoveryVars => LocalOnly'
  BY LocalStep
<1>3. LocalOnly => (mode = "LOCAL_ONLY" => TickReturns /\ holder = FirstHolder
                      /\ \A u \in Uavs \ Planned : agent[u] = "none")
  BY DEF LocalOnly, StaysLocal, TickReturns
<1>4. QED
  BY <1>1, <1>2, <1>3, FlightInvariant, PTL DEF RecoverySpec
=============================================================================
