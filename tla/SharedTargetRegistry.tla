------------------------ MODULE SharedTargetRegistry ------------------------
(***************************************************************************)
(* SharedTargetRegistry (fleet/target_registry.py): which assignment of    *)
(* the fleet may treat which target as its own.  An assignment is bound    *)
(* once to a vehicle and a target; its claim on the target is provisional  *)
(* until the vehicle has locked the target.  Under the EXCLUSIVE policy a  *)
(* claim that meets another active claim is arbitrated by rank.            *)
(*                                                                         *)
(* A registry is a record, since a publication of the fleet works on a     *)
(* staged copy and exchanges it with the live one.  Every method runs      *)
(* under the registry's lock, so it is one step.  Ids are numbers, ordered *)
(* as the code orders its ids; confidence, alias and the bounded log of    *)
(* decisions are left out.                                                 *)
(***************************************************************************)
EXTENDS Integers, FiniteSets

CONSTANTS
  Assignments,   \* assignment ids
  Uavs,          \* vehicle ids
  Targets,       \* target ids
  Priorities,    \* priorities an assignment may have
  Exclusive,     \* the claim policy is EXCLUSIVE, otherwise SHARED
  Unbound,       \* binding of an id that was never bound
  NoStage,       \* there is no staged copy
  MaxTime        \* bound on the timestamps callers pass

ASSUME RegistryAssumption ==
  /\ Assignments \subseteq Nat
  /\ Uavs \subseteq Nat
  /\ Priorities \subseteq Int
  /\ Exclusive \in BOOLEAN
  /\ MaxTime \in Nat
  /\ Unbound \notin [uav : Uavs, target : Targets, priority : Priorities]

VARIABLES
  live,     \* the registry all consumers see
  staged    \* the copy a publication prepares, or NoStage

registryVars == <<live, staged>>

Bindings == [uav : Uavs, target : Targets, priority : Priorities]
HolderStates == {"EXCLUSIVE", "SHARED"}
ActiveStates == HolderStates \cup {"PROVISIONAL"}
ClaimStates == ActiveStates \cup {"UNCLAIMED", "RELEASED", "TERMINATED"}
Times == 0..MaxTime
Registries == [binding : [Assignments -> Bindings \cup {Unbound}],
               claims : [Assignments -> [state : ClaimStates, at : Times]]]

\* The state a lock asks for under the policy.
LockState == IF Exclusive THEN "EXCLUSIVE" ELSE "SHARED"

(***************************************************************************)
(* Queries on a registry R                                                 *)
(***************************************************************************)

Bound(R, a) == R.binding[a] # Unbound
Active(R, a) == R.claims[a].state \in ActiveStates
Holder(R, a) == R.claims[a].state \in HolderStates
OnTarget(R, x) == {a \in Assignments : Bound(R, a) /\ R.binding[a].target = x}

\* Rank of claims: priority, then the lower vehicle id, then the lower id.
Outranks(R, a, b) ==
  LET p == R.binding[a]  q == R.binding[b]
  IN  \/ p.priority > q.priority
      \/ p.priority = q.priority /\ p.uav < q.uav
      \/ p.priority = q.priority /\ p.uav = q.uav /\ a < b

\* Fault: a provisional claim is no rival.
RivalsHolding(R, a) == {b \in OnTarget(R, R.binding[a].target) \ {a} : Holder(R, b)}
Rivals(R, a) == {b \in OnTarget(R, R.binding[a].target) \ {a} : Active(R, b)}
Wins(R, a) == \A b \in Rivals(R, a) : Outranks(R, a, b)

\* claim() is refused for a terminated claim and for a timestamp in the past.
Claimable(R, a, t) == /\ Bound(R, a)
                      /\ R.claims[a].state # "TERMINATED"
                      /\ R.claims[a].at <= t

(***************************************************************************)
(* What the methods make of a registry R                                   *)
(***************************************************************************)

\* Fault: the winner leaves the losers active.
ClaimedKeepsLosers(R, a, s, t) ==
  LET arbitrated == Exclusive /\ s # "PROVISIONAL" /\ Rivals(R, a) # {}
  IN  [R EXCEPT !.claims[a] = [state |-> IF arbitrated /\ ~Wins(R, a) THEN "RELEASED" ELSE s,
                               at |-> t]]

\* claim(): a asks for state s.  If it must be arbitrated, the best ranked of
\* all active claims stays: either a, and its rivals are released, or another,
\* and a is released.
Claimed(R, a, s, t) ==
  LET arbitrated == Exclusive /\ s # "PROVISIONAL" /\ Rivals(R, a) # {}
      lost == arbitrated /\ ~Wins(R, a)
      displaced == IF arbitrated /\ Wins(R, a) THEN Rivals(R, a) ELSE {}
  IN  [R EXCEPT !.claims =
        [b \in Assignments |->
           IF b = a THEN [state |-> IF lost THEN "RELEASED" ELSE s, at |-> t]
           ELSE IF b \in displaced THEN [R.claims[b] EXCEPT !.state = "RELEASED"]
           ELSE R.claims[b]]]

\* A binding is for ever, and so is the assignment of a vehicle.
Bindable(R, a, bind) ==
  /\ R.binding[a] \in {Unbound, bind}
  /\ \A b \in Assignments \ {a} : Bound(R, b) => R.binding[b].uav # bind.uav

\* bind_assignment(): the binding stays even if the claim is then refused.
AfterBind(R, a, bind, s, t) ==
  LET routed == [R EXCEPT !.binding[a] = bind]
  IN  IF Claimable(routed, a, t) THEN Claimed(routed, a, s, t) ELSE routed

\* Fault: release() reopens a terminated claim.
SettleableReopened(R, a) == Bound(R, a) /\ R.claims[a].state # "UNCLAIMED"
\* release() and terminate() raise for no claim, and for a terminated one.
Settleable(R, a) == Bound(R, a) /\ R.claims[a].state \notin {"UNCLAIMED", "TERMINATED"}
Settled(R, a, s, t) ==
  [R EXCEPT !.claims[a] = [state |-> s, at |-> IF R.claims[a].at > t THEN R.claims[a].at ELSE t]]

EmptyRegistry ==
  [binding |-> [a \in Assignments |-> Unbound],
   claims |-> [a \in Assignments |-> [state |-> "UNCLAIMED", at |-> 0]]]

(***************************************************************************)
(* Actions.  The live registry and its staged copy have one owner, and a   *)
(* publication is one call of it, so nothing happens to the live registry  *)
(* while there is a staged one.                                            *)
(***************************************************************************)

RegistryInit == live = EmptyRegistry /\ staged = NoStage

Bind(a, bind, s, t) ==
  /\ staged = NoStage
  /\ Bindable(live, a, bind)
  /\ live' = AfterBind(live, a, bind, s, t)
  /\ UNCHANGED staged

Claim(a, s, t) ==
  /\ staged = NoStage
  /\ Claimable(live, a, t)
  /\ live' = Claimed(live, a, s, t)
  /\ UNCHANGED staged

Settle(a, s, t) ==
  /\ staged = NoStage
  /\ Settleable(live, a)
  /\ live' = Settled(live, a, s, t)
  /\ UNCHANGED staged

CloneForStaging == staged = NoStage /\ staged' = live /\ UNCHANGED live

BindStaged(a, bind, s, t) ==
  /\ staged # NoStage
  /\ Bindable(staged, a, bind)
  /\ staged' = AfterBind(staged, a, bind, s, t)
  /\ UNCHANGED live

AdoptStaged == staged # NoStage /\ live' = staged /\ staged' = NoStage
\* A publication that fails forgets its copy.
DropStaged == staged # NoStage /\ staged' = NoStage /\ UNCHANGED live

RegistryNext ==
  \/ \E a \in Assignments, bind \in Bindings, s \in {"PROVISIONAL", LockState}, t \in Times :
       Bind(a, bind, s, t) \/ BindStaged(a, bind, s, t)
  \/ \E a \in Assignments, s \in ActiveStates, t \in Times : Claim(a, s, t)
  \/ \E a \in Assignments, s \in {"RELEASED", "TERMINATED"}, t \in Times : Settle(a, s, t)
  \/ CloneForStaging \/ AdoptStaged \/ DropStaged

RegistrySpec == RegistryInit /\ [][RegistryNext]_registryVars

(***************************************************************************)
(* Properties                                                              *)
(***************************************************************************)

\* Live registry and staged copy have their type; only bound ids have claims.
WellFormed(R) == R \in Registries /\ \A a \in Assignments : ~Bound(R, a) => R.claims[a].state = "UNCLAIMED"
RegistryTypeOK == WellFormed(live) /\ (staged = NoStage \/ WellFormed(staged))

\* Under the EXCLUSIVE policy a target has at most one holder: "an EXCLUSIVE conflict is
\* returned as an explicit decision instead of being silently counted as two
\* successful missions".
OneHolderIn(R) ==
  Exclusive =>
    \A a, b \in Assignments :
      (Holder(R, a) /\ Holder(R, b) /\ R.binding[a].target = R.binding[b].target) => a = b

\* No vehicle serves two assignments, whatever was published in between.
OneAssignmentIn(R) ==
  \A a, b \in Assignments :
    (Bound(R, a) /\ Bound(R, b) /\ R.binding[a].uav = R.binding[b].uav) => a = b

\* Neither targets nor vehicles are shared, in any registry.
NothingSharedIn(R) == OneHolderIn(R) /\ OneAssignmentIn(R)
NothingShared == NothingSharedIn(live) /\ (staged = NoStage \/ NothingSharedIn(staged))

\* A claim is taken away by another assignment only in favour of a claim on the
\* same target that outranks it, never by a later or a weaker one.
DisplacedByRank ==
  [][\A a, c \in Assignments :
       (/\ staged = NoStage /\ a # c
        /\ Active(live, a) /\ ~Active(live', a)
        /\ live.claims[c] # live'.claims[c])
         => \E b \in OnTarget(live', live'.binding[a].target) \ {a} :
              Holder(live', b) /\ Outranks(live', b, a)]_registryVars

\* A lock is granted over a rival, even a merely provisional one, only to the
\* better ranked: a weaker vehicle cannot become holder while the claim of a
\* stronger one is active.
NoHolderBelowRival ==
  [][\A a, b \in Assignments :
       (/\ Exclusive /\ a # b /\ staged = NoStage
        /\ Holder(live', a) /\ live'.claims[a] # live.claims[a]
        /\ Active(live, b) /\ live'.binding[a].target = live'.binding[b].target)
         => Outranks(live', a, b)]_registryVars

\* Rank alone decides between rivals, both when a claim is lost and when a lock
\* is granted.
RankDecides == DisplacedByRank /\ NoHolderBelowRival

\* A finished mission stays finished and a binding stays what it was, also over
\* publications, and the time of a claim never runs back.
HistoryKept ==
  [][\A a \in Assignments :
       /\ live.claims[a].state = "TERMINATED" => live'.claims[a] = live.claims[a]
       /\ Bound(live, a) => live'.binding[a] = live.binding[a]
       /\ live'.claims[a].at >= live.claims[a].at]_registryVars
=============================================================================
