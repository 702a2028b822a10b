--------------------- MODULE SharedTargetRegistryProofs ---------------------
(***************************************************************************)
(* Proofs about SharedTargetRegistry, for every set of assignments,        *)
(* vehicles, targets and priorities, both claim policies and every bound   *)
(* on time.  The invariant is a property Sound of one registry, which the  *)
(* methods preserve and the empty registry has; it holds of the live one   *)
(* and of the staged copy.  OneHolderIn alone is not inductive: that an    *)
(* unbound id holds nothing (WellFormed) is what lets a binding be added.  *)
(***************************************************************************)
EXTENDS SharedTargetRegistry, TLAPS

Sound(R) == WellFormed(R) /\ OneHolderIn(R) /\ OneAssignmentIn(R)
RegistryInv == Sound(live) /\ (staged = NoStage \/ Sound(staged))

-----------------------------------------------------------------------------
(* Facts about one registry.                                                *)

\* Two registries are of the same type and equal if their two fields are.
LEMMA FieldsFact ==
  ASSUME NEW b \in [Assignments -> Bindings \cup {Unbound}],
         NEW c \in [Assignments -> [state : ClaimStates, at : Times]]
  PROVE  [binding |-> b, claims |-> c] \in Registries
BY DEF Registries

\* A holder is active, so it is bound and on its target.
LEMMA HolderFact ==
  ASSUME NEW R, WellFormed(R), NEW a \in Assignments
  PROVE  /\ Holder(R, a) => Active(R, a)
         /\ Active(R, a) => Bound(R, a)
         /\ Bound(R, a) => R.binding[a] \in Bindings
BY DEF WellFormed, Registries, Holder, Active, Bound, HolderStates, ActiveStates

\* What claim() makes of a registry, claim by claim: a gets the state it asks
\* for or RELEASED, another keeps its claim or is released, and whoever becomes
\* a holder under the EXCLUSIVE policy leaves no active claim beside it.
LEMMA ClaimedFact ==
  ASSUME NEW R, WellFormed(R), NEW a \in Assignments, NEW s \in ActiveStates, NEW t \in Times
  PROVE  /\ Claimed(R, a, s, t).binding = R.binding
         /\ Claimed(R, a, s, t).claims \in [Assignments -> [state : ClaimStates, at : Times]]
         /\ Claimed(R, a, s, t) \in Registries
         /\ Claimed(R, a, s, t).claims[a].at = t
         /\ Claimed(R, a, s, t).claims[a].state \in {s, "RELEASED"}
         /\ \A b \in Assignments \ {a} :
              \/ Claimed(R, a, s, t).claims[b] = R.claims[b]
              \/ /\ Claimed(R, a, s, t).claims[b].state = "RELEASED"
                 /\ Claimed(R, a, s, t).claims[b].at = R.claims[b].at
                 /\ b \in Rivals(R, a) /\ Wins(R, a)
                 /\ Claimed(R, a, s, t).claims[a].state = s /\ s # "PROVISIONAL"
         /\ (Exclusive /\ s # "PROVISIONAL" /\ Claimed(R, a, s, t).claims[a].state = s)
              => \A b \in Rivals(R, a) : /\ Wins(R, a)
                                         /\ Claimed(R, a, s, t).claims[b].state = "RELEASED"
<1> DEFINE arbitrated == Exclusive /\ s # "PROVISIONAL" /\ Rivals(R, a) # {}
           lost == arbitrated /\ ~Wins(R, a)
           displaced == IF arbitrated /\ Wins(R, a) THEN Rivals(R, a) ELSE {}
           c == [b \in Assignments |->
                   IF b = a THEN [state |-> IF lost THEN "RELEASED" ELSE s, at |-> t]
                   ELSE IF b \in displaced THEN [R.claims[b] EXCEPT !.state = "RELEASED"]
                   ELSE R.claims[b]]
<1>1. R \in Registries /\ R.claims \in [Assignments -> [state : ClaimStates, at : Times]]
  BY DEF WellFormed, Registries
<1>2. Claimed(R, a, s, t) = [R EXCEPT !.claims = c]
  BY DEF Claimed
<1>3. Claimed(R, a, s, t).binding = R.binding /\ Claimed(R, a, s, t).claims = c
  BY <1>1, <1>2 DEF Registries
<1>4. s \in ClaimStates /\ "RELEASED" \in ClaimStates /\ s # "RELEASED"
  BY DEF ClaimStates, ActiveStates, HolderStates
<1>5. c \in [Assignments -> [state : ClaimStates, at : Times]]
  BY <1>1, <1>4
<1>6. Claimed(R, a, s, t) \in Registries
  BY <1>1, <1>2, <1>5 DEF Registries
<1>7. /\ c[a].at = t /\ c[a].state = (IF lost THEN "RELEASED" ELSE s)
      /\ \A b \in Assignments \ {a} :
           c[b] = IF b \in displaced THEN [R.claims[b] EXCEPT !.state = "RELEASED"] ELSE R.claims[b]
  OBVIOUS
<1>8. Rivals(R, a) \subseteq Assignments \ {a}
  BY DEF Rivals, OnTarget
<1>9. \A b \in displaced : b \in Rivals(R, a) /\ Wins(R, a) /\ ~lost /\ s # "PROVISIONAL"
  OBVIOUS
<1>10. ASSUME Exclusive, s # "PROVISIONAL", c[a].state = s, NEW b \in Rivals(R, a)
       PROVE  Wins(R, a) /\ c[b].state = "RELEASED"
  <2>1. ~lost /\ arbitrated
    BY <1>10, <1>7, <1>4
  <2>2. Wins(R, a) /\ b \in displaced
    BY <2>1, <1>10
  <2>3. c[b] = [R.claims[b] EXCEPT !.state = "RELEASED"] /\ R.claims[b] \in [state : ClaimStates, at : Times]
    BY <2>2, <1>7, <1>8, <1>1
  <2>. QED BY <2>2, <2>3
<1>11. c[a].state \in {s, "RELEASED"} /\ (~lost => c[a].state = s)
  BY <1>7
<1> HIDE DEF c, lost, arbitrated, displaced
<1>12. \A b \in Assignments \ {a} :
         \/ c[b] = R.claims[b]
         \/ c[b].state = "RELEASED" /\ c[b].at = R.claims[b].at /\ b \in displaced
  <2>1. \A b \in Assignments : /\ [R.claims[b] EXCEPT !.state = "RELEASED"].state = "RELEASED"
                              /\ [R.claims[b] EXCEPT !.state = "RELEASED"].at = R.claims[b].at
    BY <1>1
  <2>. QED BY <1>7, <2>1
<1>. QED BY <1>3, <1>5, <1>6, <1>7, <1>9, <1>10, <1>11, <1>12

\* Who is active or a holder after claim(): nobody but a who was not before.
LEMMA ClaimedActive ==
  ASSUME NEW R, WellFormed(R), NEW a \in Assignments, NEW s \in ActiveStates, NEW t \in Times,
         NEW b \in Assignments, b # a
  PROVE  /\ Active(Claimed(R, a, s, t), b) => Active(R, b)
         /\ Holder(Claimed(R, a, s, t), b) => Holder(R, b)
<1>1. \/ Claimed(R, a, s, t).claims[b] = R.claims[b]
      \/ Claimed(R, a, s, t).claims[b].state = "RELEASED"
  BY ClaimedFact
<1>. QED BY <1>1 DEF Active, Holder, ActiveStates, HolderStates

\* claim() preserves soundness.
LEMMA ClaimedSound ==
  ASSUME NEW R, Sound(R), NEW a \in Assignments, NEW s \in ActiveStates, NEW t \in Times,
         Bound(R, a)
  PROVE  Sound(Claimed(R, a, s, t))
<1> DEFINE Q == Claimed(R, a, s, t)
<1>1. WellFormed(R) /\ OneHolderIn(R) /\ OneAssignmentIn(R)
  BY DEF Sound
<1>2. Q.binding = R.binding /\ Q \in Registries
  BY <1>1, ClaimedFact
<1>3. \A b \in Assignments : Bound(Q, b) <=> Bound(R, b)
  BY <1>2 DEF Bound
<1>4. WellFormed(Q)
  <2>1. SUFFICES ASSUME NEW b \in Assignments, ~Bound(Q, b) PROVE Q.claims[b].state = "UNCLAIMED"
    BY <1>2 DEF WellFormed
  <2>2. b # a /\ R.claims[b].state = "UNCLAIMED"
    BY <2>1, <1>3, <1>1 DEF WellFormed
  <2>3. b \notin Rivals(R, a)
    BY <2>2 DEF Rivals, OnTarget, Active, ActiveStates, HolderStates
  <2>4. Q.claims[b] = R.claims[b]
    BY <1>1, <2>2, <2>3, ClaimedFact
  <2>. QED BY <2>2, <2>4
<1>5. OneAssignmentIn(Q)
  BY <1>1, <1>2, <1>3 DEF OneAssignmentIn
<1>6. \A b \in Assignments \ {a} : Holder(Q, b) => Holder(R, b)
  BY <1>1, ClaimedActive
<1>7. ASSUME Exclusive, Holder(Q, a), NEW b \in Assignments, b # a, Holder(Q, b),
             Q.binding[b].target = Q.binding[a].target
      PROVE  FALSE
  <2>1. Q.claims[a].state = s /\ s # "PROVISIONAL"
    BY <1>1, <1>7, ClaimedFact DEF Holder, HolderStates
  <2>2. Holder(R, b) /\ Active(R, b) /\ Bound(R, b)
    BY <1>6, <1>7, <1>1, HolderFact
  <2>3. b \in Rivals(R, a)
    BY <2>2, <1>7, <1>2 DEF Rivals, OnTarget
  <2>4. Q.claims[b].state = "RELEASED"
    BY <1>1, <1>7, <2>1, <2>3, ClaimedFact
  <2>. QED BY <2>4, <1>7 DEF Holder, HolderStates
<1> HIDE DEF Q
<1>8. OneHolderIn(Q)
  BY <1>1, <1>2, <1>6, <1>7 DEF OneHolderIn
<1>. QED BY <1>4, <1>5, <1>8 DEF Sound, Q

\* bind_assignment() preserves soundness, whether or not its claim is refused.
LEMMA BindSound ==
  ASSUME NEW R, Sound(R), NEW a \in Assignments, NEW bind \in Bindings,
         NEW s \in ActiveStates, NEW t \in Times, Bindable(R, a, bind)
  PROVE  Sound(AfterBind(R, a, bind, s, t))
<1> DEFINE routed == [R EXCEPT !.binding[a] = bind]
<1>1. WellFormed(R) /\ OneHolderIn(R) /\ OneAssignmentIn(R) /\ R \in Registries
  BY DEF Sound, WellFormed
<1>2. /\ routed \in Registries /\ routed.claims = R.claims /\ routed.binding[a] = bind
      /\ \A b \in Assignments : b # a => routed.binding[b] = R.binding[b]
  BY <1>1 DEF Registries
<1>3. bind # Unbound
  BY RegistryAssumption DEF Bindings
<1> HIDE DEF routed
<1>4. \A b \in Assignments : Bound(R, b) => Bound(routed, b) /\ routed.binding[b] = R.binding[b]
  BY <1>2, <1>3 DEF Bindable, Bound
<1>5. \A b \in Assignments : Bound(routed, b) => b = a \/ Bound(R, b)
  BY <1>2 DEF Bound
<1>6. WellFormed(routed)
  BY <1>1, <1>2, <1>4 DEF WellFormed
<1>7. OneAssignmentIn(routed)
  BY <1>1, <1>2, <1>4, <1>5 DEF OneAssignmentIn, Bindable
<1>8. \A b \in Assignments : Holder(routed, b) => Holder(R, b) /\ Bound(R, b)
  BY <1>1, <1>2, HolderFact DEF Holder
<1>9. OneHolderIn(routed)
  BY <1>1, <1>4, <1>8 DEF OneHolderIn
<1>10. Sound(routed) /\ Bound(routed, a)
  BY <1>6, <1>7, <1>9, <1>2, <1>3 DEF Sound, Bound
<1>11. Sound(Claimed(routed, a, s, t))
  BY <1>10, ClaimedSound
<1>12. AfterBind(R, a, bind, s, t) \in {Claimed(routed, a, s, t), routed}
  BY DEF AfterBind, routed
<1>. QED BY <1>10, <1>11, <1>12

\* release() and terminate() preserve soundness.
LEMMA SettledSound ==
  ASSUME NEW R, Sound(R), NEW a \in Assignments, NEW s \in {"RELEASED", "TERMINATED"},
         NEW t \in Times, Settleable(R, a)
  PROVE  Sound(Settled(R, a, s, t))
<1> DEFINE later == IF R.claims[a].at > t THEN R.claims[a].at ELSE t
           Q == [R EXCEPT !.claims[a] = [state |-> s, at |-> later]]
<1>1. WellFormed(R) /\ OneHolderIn(R) /\ OneAssignmentIn(R) /\ R \in Registries
  BY DEF Sound, WellFormed
<1>2. s \in ClaimStates /\ s \notin HolderStates /\ later \in Times
  BY <1>1 DEF ClaimStates, HolderStates, Registries
<1>3. /\ Q \in Registries /\ Q.binding = R.binding /\ Q.claims[a].state = s
      /\ \A b \in Assignments : b # a => Q.claims[b] = R.claims[b]
  BY <1>1, <1>2 DEF Registries
<1>4. Settled(R, a, s, t) = Q
  BY DEF Settled
<1> HIDE DEF Q, later
<1>5. WellFormed(Q)
  BY <1>1, <1>3 DEF WellFormed, Bound, Settleable
<1>6. OneAssignmentIn(Q)
  BY <1>1, <1>3 DEF OneAssignmentIn, Bound
<1>7. \A b \in Assignments : Holder(Q, b) => Holder(R, b)
  BY <1>2, <1>3 DEF Holder
<1>8. OneHolderIn(Q)
  BY <1>1, <1>3, <1>7 DEF OneHolderIn
<1>. QED BY <1>4, <1>5, <1>6, <1>8 DEF Sound

\* The empty registry is sound.
LEMMA EmptySound == Sound(EmptyRegistry)
<1>1. EmptyRegistry \in Registries
  BY RegistryAssumption DEF EmptyRegistry, Registries, ClaimStates, Times
<1>2. \A a \in Assignments : ~Bound(EmptyRegistry, a) /\ EmptyRegistry.claims[a].state = "UNCLAIMED"
  BY DEF EmptyRegistry, Bound
<1>3. \A a \in Assignments : ~Holder(EmptyRegistry, a)
  BY <1>2 DEF Holder, HolderStates
<1>. QED BY <1>1, <1>2, <1>3 DEF Sound, WellFormed, OneHolderIn, OneAssignmentIn

-----------------------------------------------------------------------------
(* Soundness of the live registry and of its staged copy.                   *)

\* The state a lock asks for is an active one.
LEMMA LockFact == LockState \in ActiveStates /\ LockState # "PROVISIONAL" /\ "PROVISIONAL" \in ActiveStates
BY DEF LockState, ActiveStates, HolderStates

\* Every step of the fleet keeps both registries sound.
LEMMA SoundStep == RegistryInv /\ [RegistryNext]_registryVars => RegistryInv'
<1> SUFFICES ASSUME RegistryInv, [RegistryNext]_registryVars PROVE RegistryInv'
  OBVIOUS
<1>1. Sound(live) /\ (staged = NoStage \/ Sound(staged))
  BY DEF RegistryInv
<1>2. ASSUME NEW a \in Assignments, NEW bind \in Bindings, NEW s \in {"PROVISIONAL", LockState},
             NEW t \in Times, Bind(a, bind, s, t)
      PROVE  RegistryInv'
  <2>1. Sound(AfterBind(live, a, bind, s, t))
    BY <1>1, <1>2, LockFact, BindSound DEF Bind
  <2>2. Sound(live')
    BY <2>1, <1>2 DEF Bind
  <2>. QED BY <1>2, <2>2 DEF RegistryInv, Bind, Sound, WellFormed, OneHolderIn, OneAssignmentIn
<1>3. ASSUME NEW a \in Assignments, NEW bind \in Bindings, NEW s \in {"PROVISIONAL", LockState},
             NEW t \in Times, BindStaged(a, bind, s, t)
      PROVE  RegistryInv'
  <2>1. Sound(AfterBind(staged, a, bind, s, t))
    BY <1>1, <1>3, LockFact, BindSound DEF BindStaged
  <2>2. Sound(staged') /\ Sound(live')
    BY <2>1, <1>1, <1>3 DEF BindStaged
  <2>. QED BY <2>2 DEF RegistryInv, Sound, WellFormed, OneHolderIn, OneAssignmentIn
<1>4. ASSUME NEW a \in Assignments, NEW s \in ActiveStates, NEW t \in Times, Claim(a, s, t)
      PROVE  RegistryInv'
  <2>1. Sound(Claimed(live, a, s, t))
    BY <1>1, <1>4, ClaimedSound DEF Claim, Claimable
  <2>2. Sound(live')
    BY <2>1, <1>4 DEF Claim
  <2>. QED BY <1>4, <2>2 DEF RegistryInv, Claim, Sound, WellFormed, OneHolderIn, OneAssignmentIn
<1>5. ASSUME NEW a \in Assignments, NEW s \in {"RELEASED", "TERMINATED"}, NEW t \in Times,
             Settle(a, s, t)
      PROVE  RegistryInv'
  <2>1. Sound(Settled(live, a, s, t))
    BY <1>1, <1>5, SettledSound DEF Settle
  <2>2. Sound(live')
    BY <2>1, <1>5 DEF Settle
  <2>. QED BY <1>5, <2>2 DEF RegistryInv, Settle, Sound, WellFormed, OneHolderIn, OneAssignmentIn
<1>6. ASSUME CloneForStaging \/ AdoptStaged \/ DropStaged \/ UNCHANGED registryVars
      PROVE  RegistryInv'
  <2>1. Sound(live') /\ (staged' = NoStage \/ Sound(staged'))
    BY <1>1, <1>6 DEF CloneForStaging, AdoptStaged, DropStaged, registryVars
  <2>. QED BY <2>1 DEF RegistryInv, Sound, WellFormed, OneHolderIn, OneAssignmentIn
<1>. QED BY <1>2, <1>3, <1>4, <1>5, <1>6 DEF RegistryNext

\* Both registries are sound at all times.
THEOREM RegistrySound == RegistrySpec => []RegistryInv
<1>1. RegistryInit => RegistryInv
  BY EmptySound DEF RegistryInit, RegistryInv
<1>. QED BY <1>1, SoundStep, PTL DEF RegistrySpec

\* Both registries have their type, and an id without a binding has no claim.
THEOREM RegistryTyped == RegistrySpec => []RegistryTypeOK
<1>1. RegistryInv => RegistryTypeOK
  BY DEF RegistryInv, Sound, RegistryTypeOK
<1>. QED BY <1>1, RegistrySound, PTL

\* Under the EXCLUSIVE policy no target ever has two holders, in the live
\* registry or in a copy about to be published, whatever the order of binding,
\* claiming, arbitrating, releasing and publishing; and no vehicle is ever bound
\* to two assignments.
THEOREM RegistryNothingShared == RegistrySpec => []NothingShared
<1>1. RegistryInv => NothingShared
  BY DEF RegistryInv, Sound, NothingShared, NothingSharedIn
<1>. QED BY <1>1, RegistrySound, PTL

-----------------------------------------------------------------------------
(* Arbitration goes by rank.                                                *)

\* A binding that is allowed changes no existing one and no claim.
LEMMA RoutedFact ==
  ASSUME NEW R, WellFormed(R), NEW a \in Assignments, NEW bind \in Bindings, Bindable(R, a, bind)
  PROVE  /\ WellFormed([R EXCEPT !.binding[a] = bind])
         /\ [R EXCEPT !.binding[a] = bind].claims = R.claims
         /\ \A b \in Assignments : Bound(R, b) => [R EXCEPT !.binding[a] = bind].binding[b] = R.binding[b]
<1> DEFINE Q == [R EXCEPT !.binding[a] = bind]
<1>1. R \in Registries
  BY DEF WellFormed
<1>2. /\ Q \in Registries /\ Q.claims = R.claims /\ Q.binding[a] = bind
      /\ \A b \in Assignments : b # a => Q.binding[b] = R.binding[b]
  BY <1>1 DEF Registries
<1>3. bind # Unbound
  BY RegistryAssumption DEF Bindings
<1> HIDE DEF Q
<1>4. \A b \in Assignments : Bound(R, b) => Q.binding[b] = R.binding[b] /\ Bound(Q, b)
  BY <1>2, <1>3 DEF Bindable, Bound
<1>5. WellFormed(Q)
  BY <1>2, <1>4 DEF WellFormed
<1>. QED BY <1>2, <1>4, <1>5 DEF Q

\* Whoever loses an active claim through claim() while another claim changes
\* is outranked by a holder of the same target.
LEMMA DisplacedFact ==
  ASSUME NEW R, WellFormed(R), NEW x \in Assignments, NEW s \in ActiveStates, NEW t \in Times,
         Bound(R, x),
         NEW a \in Assignments, NEW c \in Assignments, a # c,
         Active(R, a), ~Active(Claimed(R, x, s, t), a),
         R.claims[c] # Claimed(R, x, s, t).claims[c]
  PROVE  \E b \in OnTarget(Claimed(R, x, s, t), Claimed(R, x, s, t).binding[a].target) \ {a} :
           Holder(Claimed(R, x, s, t), b) /\ Outranks(Claimed(R, x, s, t), b, a)
<1> DEFINE Q == Claimed(R, x, s, t)
<1>1. Q.binding = R.binding
  BY ClaimedFact
<1>2. PICK y \in {a, c} : y # x
  OBVIOUS
<1>3. Q.claims[y] # R.claims[y]
  BY DEF Active
<1>4. Wins(R, x) /\ y \in Rivals(R, x) /\ Q.claims[x].state = s /\ s # "PROVISIONAL"
  BY <1>2, <1>3, ClaimedFact
<1>5. a # x
  BY <1>4 DEF Active
<1>6. a \in Rivals(R, x)
  <2>1. Q.claims[a] # R.claims[a]
    BY DEF Active
  <2>. QED BY <2>1, <1>5, ClaimedFact
<1>7. Outranks(R, x, a) /\ R.binding[a].target = R.binding[x].target
  BY <1>4, <1>6 DEF Wins, Rivals, OnTarget
<1>8. Holder(Q, x)
  BY <1>4 DEF Holder, ActiveStates
<1> HIDE DEF Q
<1>9. Outranks(Q, x, a) /\ x \in OnTarget(Q, Q.binding[a].target) \ {a}
  BY <1>1, <1>5, <1>7 DEF Outranks, OnTarget, Bound
<1>. QED BY <1>8, <1>9 DEF Q

\* Whoever claim() makes a holder outranks every active claim beside it.
LEMMA HolderWins ==
  ASSUME NEW R, WellFormed(R), NEW x \in Assignments, NEW s \in ActiveStates, NEW t \in Times,
         Bound(R, x), Exclusive,
         NEW a \in Assignments, NEW b \in Assignments, a # b,
         Holder(Claimed(R, x, s, t), a), Claimed(R, x, s, t).claims[a] # R.claims[a],
         Active(R, b), R.binding[a].target = R.binding[b].target
  PROVE  Outranks(Claimed(R, x, s, t), a, b)
<1> DEFINE Q == Claimed(R, x, s, t)
<1>1. Q.binding = R.binding
  BY ClaimedFact
<1>2. a = x
  BY ClaimedFact DEF Holder, HolderStates
<1>3. Q.claims[x].state = s /\ s # "PROVISIONAL"
  BY <1>2, ClaimedFact DEF Holder, HolderStates
<1>4. b \in Rivals(R, x)
  BY <1>2, HolderFact DEF Rivals, OnTarget
<1>5. Outranks(R, x, b)
  BY <1>3, <1>4, ClaimedFact DEF Wins
<1> HIDE DEF Q
<1>6. Outranks(Q, a, b)
  BY <1>1, <1>2, <1>5 DEF Outranks
<1>. QED BY <1>6 DEF Q

\* A step that changes a claim of the live registry, with no copy staged, is a
\* claim on it, possibly after a binding was added, or settles one claim.
LEMMA ClaimChange ==
  ASSUME RegistryInv, [RegistryNext]_registryVars, staged = NoStage, live'.claims # live.claims
  PROVE  \/ \E R : \E x \in Assignments, s \in ActiveStates, t \in Times :
              /\ WellFormed(R) /\ R.claims = live.claims
              /\ Claimable(R, x, t) /\ live' = Claimed(R, x, s, t)
         \/ \E x \in Assignments, s \in {"RELEASED", "TERMINATED"}, t \in Times :
              Settleable(live, x) /\ live' = Settled(live, x, s, t)
<1>1. WellFormed(live)
  BY DEF RegistryInv, Sound
<1>2. ASSUME NEW x \in Assignments, NEW bind \in Bindings, NEW s \in {"PROVISIONAL", LockState},
             NEW t \in Times, Bind(x, bind, s, t)
      PROVE  \E R : \E y \in Assignments, u \in ActiveStates, v \in Times :
               /\ WellFormed(R) /\ R.claims = live.claims
               /\ Claimable(R, y, v) /\ live' = Claimed(R, y, u, v)
  <2> DEFINE Q == [live EXCEPT !.binding[x] = bind]
  <2>1. WellFormed(Q) /\ Q.claims = live.claims
    BY <1>1, <1>2, RoutedFact DEF Bind
  <2>2. live' = IF Claimable(Q, x, t) THEN Claimed(Q, x, s, t) ELSE Q
    BY <1>2 DEF Bind, AfterBind
  <2>3. Claimable(Q, x, t) /\ live' = Claimed(Q, x, s, t)
    BY <2>1, <2>2
  <2>4. s \in ActiveStates
    BY LockFact
  <2>. QED BY <2>1, <2>3, <2>4
<1>3. ASSUME NEW x \in Assignments, NEW s \in ActiveStates, NEW t \in Times, Claim(x, s, t)
      PROVE  \E R : \E y \in Assignments, u \in ActiveStates, v \in Times :
               /\ WellFormed(R) /\ R.claims = live.claims
               /\ Claimable(R, y, v) /\ live' = Claimed(R, y, u, v)
  BY <1>1, <1>3 DEF Claim
<1>. QED BY <1>2, <1>3 DEF RegistryNext, Settle, BindStaged, CloneForStaging, AdoptStaged,
                           DropStaged, registryVars

\* Settling touches one claim, and leaves it without a holder.
LEMMA SettledFact ==
  ASSUME NEW R, WellFormed(R), NEW x \in Assignments, NEW s \in {"RELEASED", "TERMINATED"},
         NEW t \in Times
  PROVE  /\ Settled(R, x, s, t).binding = R.binding
         /\ Settled(R, x, s, t).claims[x].state = s
         /\ Settled(R, x, s, t).claims[x].at >= R.claims[x].at
         /\ \A b \in Assignments : b # x => Settled(R, x, s, t).claims[b] = R.claims[b]
<1>1. R \in Registries /\ R.claims[x].at \in Int /\ t \in Int
  BY RegistryAssumption DEF WellFormed, Registries, Times
<1>. QED BY <1>1 DEF Settled, Registries

\* A claim is displaced only by a better ranked holder of its target.
THEOREM RegistryDisplacedByRank == RegistrySpec => DisplacedByRank
<1> DEFINE Step ==
      \A a, c \in Assignments :
        (/\ staged = NoStage /\ a # c
         /\ Active(live, a) /\ ~Active(live', a)
         /\ live.claims[c] # live'.claims[c])
          => \E b \in OnTarget(live', live'.binding[a].target) \ {a} :
               Holder(live', b) /\ Outranks(live', b, a)
<1>1. RegistryInv /\ [RegistryNext]_registryVars => Step
  <2> SUFFICES ASSUME RegistryInv, [RegistryNext]_registryVars, staged = NoStage,
                      NEW a \in Assignments, NEW c \in Assignments, a # c,
                      Active(live, a), ~Active(live', a), live.claims[c] # live'.claims[c]
               PROVE  \E b \in OnTarget(live', live'.binding[a].target) \ {a} :
                        Holder(live', b) /\ Outranks(live', b, a)
    OBVIOUS
  <2>1. CASE \E R : \E x \in Assignments, s \in ActiveStates, t \in Times :
               /\ WellFormed(R) /\ R.claims = live.claims
               /\ Claimable(R, x, t) /\ live' = Claimed(R, x, s, t)
    <3>1. PICK R : \E x \in Assignments, s \in ActiveStates, t \in Times :
               /\ WellFormed(R) /\ R.claims = live.claims
               /\ Claimable(R, x, t) /\ live' = Claimed(R, x, s, t)
      BY <2>1
    <3>2. PICK x \in Assignments, s \in ActiveStates, t \in Times :
               /\ WellFormed(R) /\ R.claims = live.claims
               /\ Claimable(R, x, t) /\ live' = Claimed(R, x, s, t)
      BY <3>1
    <3>3. Bound(R, x) /\ Active(R, a)
      BY <3>2 DEF Claimable, Active
    <3>. QED BY <3>2, <3>3, DisplacedFact
  <2>2. CASE \E x \in Assignments, s \in {"RELEASED", "TERMINATED"}, t \in Times :
               Settleable(live, x) /\ live' = Settled(live, x, s, t)
    <3>1. PICK x \in Assignments, s \in {"RELEASED", "TERMINATED"}, t \in Times :
               live' = Settled(live, x, s, t)
      BY <2>2
    <3>2. \A b \in Assignments : b # x => live'.claims[b] = live.claims[b]
      BY <3>1, SettledFact DEF RegistryInv, Sound
    <3>3. a = x /\ c = x
      BY <3>2 DEF Active
    <3>. QED BY <3>3
  <2>. QED BY <2>1, <2>2, ClaimChange
<1>. QED BY <1>1, RegistrySound, PTL DEF RegistrySpec, DisplacedByRank

\* Under the EXCLUSIVE policy a lock is granted only to the best ranked of the
\* active claims on its target.
THEOREM RegistryNoHolderBelowRival == RegistrySpec => NoHolderBelowRival
<1> DEFINE Step ==
      \A a, b \in Assignments :
        (/\ Exclusive /\ a # b /\ staged = NoStage
         /\ Holder(live', a) /\ live'.claims[a] # live.claims[a]
         /\ Active(live, b) /\ live'.binding[a].target = live'.binding[b].target)
          => Outranks(live', a, b)
<1>1. RegistryInv /\ [RegistryNext]_registryVars => Step
  <2> SUFFICES ASSUME RegistryInv, [RegistryNext]_registryVars,
                      NEW a \in Assignments, NEW b \in Assignments,
                      Exclusive, a # b, staged = NoStage,
                      Holder(live', a), live'.claims[a] # live.claims[a],
                      Active(live, b), live'.binding[a].target = live'.binding[b].target
               PROVE  Outranks(live', a, b)
    OBVIOUS
  <2>1. CASE \E R : \E x \in Assignments, s \in ActiveStates, t \in Times :
               /\ WellFormed(R) /\ R.claims = live.claims
               /\ Claimable(R, x, t) /\ live' = Claimed(R, x, s, t)
    <3>1. PICK R : \E x \in Assignments, s \in ActiveStates, t \in Times :
               /\ WellFormed(R) /\ R.claims = live.claims
               /\ Claimable(R, x, t) /\ live' = Claimed(R, x, s, t)
      BY <2>1
    <3>2. PICK x \in Assignments, s \in ActiveStates, t \in Times :
               /\ WellFormed(R) /\ R.claims = live.claims
               /\ Claimable(R, x, t) /\ live' = Claimed(R, x, s, t)
      BY <3>1
    <3>3. Bound(R, x) /\ Active(R, b) /\ live'.binding = R.binding
      BY <3>2, ClaimedFact DEF Claimable, Active
    <3>. QED BY <3>2, <3>3, HolderWins
  <2>2. CASE \E x \in Assignments, s \in {"RELEASED", "TERMINATED"}, t \in Times :
               Settleable(live, x) /\ live' = Settled(live, x, s, t)
    <3>1. PICK x \in Assignments, s \in {"RELEASED", "TERMINATED"}, t \in Times :
               live' = Settled(live, x, s, t)
      BY <2>2
    <3>2. live'.claims[x].state = s /\ \A y \in Assignments : y # x => live'.claims[y] = live.claims[y]
      BY <3>1, SettledFact DEF RegistryInv, Sound
    <3>3. a = x /\ ~Holder(live', x)
      BY <3>2 DEF Holder, HolderStates
    <3>. QED BY <3>3
  <2>. QED BY <2>1, <2>2, ClaimChange
<1>. QED BY <1>1, RegistrySound, PTL DEF RegistrySpec, NoHolderBelowRival

\* Rank alone decides between rivals.
THEOREM RegistryRankDecides == RegistrySpec => RankDecides
BY RegistryDisplacedByRank, RegistryNoHolderBelowRival DEF RankDecides

-----------------------------------------------------------------------------
(* History is kept.  HistoryKept is about the live registry; that it also   *)
(* survives a publication needs the staged copy to be later than the live   *)
(* registry it was taken from, which is the second part of the invariant.   *)

Later(R, Q) ==
  \A a \in Assignments :
    /\ R.claims[a].state = "TERMINATED" => Q.claims[a] = R.claims[a]
    /\ Bound(R, a) => Q.binding[a] = R.binding[a]
    /\ Q.claims[a].at >= R.claims[a].at
HistoryInv == RegistryInv /\ (staged # NoStage => Later(live, staged))

\* The times of a claim are integers, so Later is a preorder.
LEMMA LaterOrder ==
  /\ \A R : WellFormed(R) => Later(R, R)
  /\ \A R, S, Q : WellFormed(R) /\ WellFormed(S) /\ WellFormed(Q) /\ Later(R, S) /\ Later(S, Q)
                    => Later(R, Q)
<1>1. ASSUME NEW R, WellFormed(R), NEW a \in Assignments PROVE R.claims[a].at \in Int
  BY <1>1 DEF WellFormed, Registries, Times
<1>2. \A R : WellFormed(R) => Later(R, R)
  BY <1>1 DEF Later
<1>3. ASSUME NEW R, NEW S, NEW Q, WellFormed(R), WellFormed(S), WellFormed(Q), Later(R, S), Later(S, Q),
             NEW a \in Assignments
      PROVE  /\ R.claims[a].state = "TERMINATED" => Q.claims[a] = R.claims[a]
             /\ Bound(R, a) => Q.binding[a] = R.binding[a]
             /\ Q.claims[a].at >= R.claims[a].at
  <2>1. /\ R.claims[a].at \in Int /\ S.claims[a].at \in Int /\ Q.claims[a].at \in Int
        /\ S.claims[a].at >= R.claims[a].at /\ Q.claims[a].at >= S.claims[a].at
    BY <1>1, <1>3 DEF Later
  <2>2. Q.claims[a].at >= R.claims[a].at
    BY <2>1
  <2>. QED BY <2>2, <1>3 DEF Later, Bound
<1>. QED BY <1>2, <1>3 DEF Later

\* claim(), where it is not refused, keeps the history of a registry.
LEMMA ClaimedLater ==
  ASSUME NEW R, WellFormed(R), NEW x \in Assignments, NEW s \in ActiveStates, NEW t \in Times,
         Claimable(R, x, t)
  PROVE  Later(R, Claimed(R, x, s, t))
<1> DEFINE Q == Claimed(R, x, s, t)
<1> SUFFICES ASSUME NEW a \in Assignments
             PROVE  /\ R.claims[a].state = "TERMINATED" => Q.claims[a] = R.claims[a]
                    /\ Bound(R, a) => Q.binding[a] = R.binding[a]
                    /\ Q.claims[a].at >= R.claims[a].at
  BY DEF Later
<1>1. Q.binding = R.binding /\ R.claims[a].at \in Int
  BY ClaimedFact DEF WellFormed, Registries, Times
<1>2. CASE a = x
  <2>1. Q.claims[a].at = t
    BY <1>2, ClaimedFact
  <2>. QED BY <1>1, <1>2, <2>1 DEF Claimable
<1>3. CASE a # x
  <2>1. \/ Q.claims[a] = R.claims[a]
        \/ Q.claims[a].at = R.claims[a].at /\ a \in Rivals(R, x)
    BY <1>3, ClaimedFact
  <2>2. a \in Rivals(R, x) => R.claims[a].state # "TERMINATED"
    BY DEF Rivals, Active, ActiveStates, HolderStates
  <2>. QED BY <1>1, <2>1, <2>2
<1>. QED BY <1>2, <1>3

\* bind_assignment() keeps the history of a registry.
LEMMA BindLater ==
  ASSUME NEW R, WellFormed(R), NEW x \in Assignments, NEW bind \in Bindings,
         NEW s \in ActiveStates, NEW t \in Times, Bindable(R, x, bind)
  PROVE  WellFormed(AfterBind(R, x, bind, s, t)) => Later(R, AfterBind(R, x, bind, s, t))
<1> DEFINE routed == [R EXCEPT !.binding[x] = bind]
<1>1. WellFormed(routed) /\ routed.claims = R.claims
      /\ \A b \in Assignments : Bound(R, b) => routed.binding[b] = R.binding[b]
  BY RoutedFact
<1>2. \A a \in Assignments : R.claims[a].at \in Int
  BY DEF WellFormed, Registries, Times
<1>3. AfterBind(R, x, bind, s, t) = IF Claimable(routed, x, t) THEN Claimed(routed, x, s, t) ELSE routed
  BY DEF AfterBind
<1> HIDE DEF routed
<1>4. Later(R, routed)
  BY <1>1, <1>2 DEF Later
<1>5. Claimable(routed, x, t) => Later(routed, Claimed(routed, x, s, t))
  BY <1>1, ClaimedLater
<1>. QED BY <1>1, <1>3, <1>4, <1>5, LaterOrder

\* release() and terminate() keep the history of a registry.
LEMMA SettledLater ==
  ASSUME NEW R, WellFormed(R), NEW x \in Assignments, NEW s \in {"RELEASED", "TERMINATED"},
         NEW t \in Times, Settleable(R, x)
  PROVE  Later(R, Settled(R, x, s, t))
<1>1. \A a \in Assignments : R.claims[a].at \in Int
  BY DEF WellFormed, Registries, Times
<1>. QED BY <1>1, SettledFact DEF Later, Settleable

\* Each step of the fleet leaves the live registry later than it was, and the
\* copy, if there is one, later than the live registry.
LEMMA HistoryStep ==
  HistoryInv /\ [RegistryNext]_registryVars => HistoryInv' /\ Later(live, live')
<1> SUFFICES ASSUME HistoryInv, [RegistryNext]_registryVars PROVE HistoryInv' /\ Later(live, live')
  OBVIOUS
<1>1. RegistryInv /\ RegistryInv'
  BY SoundStep DEF HistoryInv
<1>2. WellFormed(live) /\ WellFormed(live') /\ Later(live, live)
  BY <1>1, LaterOrder DEF RegistryInv, Sound, WellFormed
<1>3. /\ staged # NoStage => WellFormed(staged) /\ Later(live, staged)
      /\ staged' # NoStage => WellFormed(staged')
  BY <1>1 DEF HistoryInv, RegistryInv, Sound, WellFormed
<1>4. ASSUME Later(live, live'), staged' # NoStage => Later(live', staged')
      PROVE  HistoryInv' /\ Later(live, live')
  BY <1>1, <1>4 DEF HistoryInv, Later, Bound
<1>5. ASSUME NEW a \in Assignments, NEW bind \in Bindings, NEW s \in {"PROVISIONAL", LockState},
             NEW t \in Times, Bind(a, bind, s, t)
      PROVE  Later(live, live') /\ (staged' # NoStage => Later(live', staged'))
  <2>1. WellFormed(live') => Later(live, AfterBind(live, a, bind, s, t))
    BY <1>2, <1>5, LockFact, BindLater DEF Bind
  <2>. QED BY <2>1, <1>2, <1>5 DEF Bind
<1>6. ASSUME NEW a \in Assignments, NEW bind \in Bindings, NEW s \in {"PROVISIONAL", LockState},
             NEW t \in Times, BindStaged(a, bind, s, t)
      PROVE  Later(live, live') /\ (staged' # NoStage => Later(live', staged'))
  <2>1. staged # NoStage /\ live' = live /\ staged' = AfterBind(staged, a, bind, s, t)
    BY <1>6 DEF BindStaged
  <2>2. staged' # NoStage => Later(staged, staged')
    BY <1>3, <1>6, <2>1, LockFact, BindLater DEF BindStaged
  <2>3. staged' # NoStage => Later(live, staged')
    BY <1>2, <1>3, <2>1, <2>2, LaterOrder
  <2>. QED BY <2>1, <2>3, <1>2
<1>7. ASSUME NEW a \in Assignments, NEW s \in ActiveStates, NEW t \in Times, Claim(a, s, t)
      PROVE  Later(live, live') /\ (staged' # NoStage => Later(live', staged'))
  BY <1>2, <1>7, ClaimedLater DEF Claim
<1>8. ASSUME NEW a \in Assignments, NEW s \in {"RELEASED", "TERMINATED"}, NEW t \in Times,
             Settle(a, s, t)
      PROVE  Later(live, live') /\ (staged' # NoStage => Later(live', staged'))
  BY <1>2, <1>8, SettledLater DEF Settle
<1>9. ASSUME CloneForStaging \/ AdoptStaged \/ DropStaged \/ UNCHANGED registryVars
      PROVE  Later(live, live') /\ (staged' # NoStage => Later(live', staged'))
  BY <1>2, <1>3, <1>9 DEF CloneForStaging, AdoptStaged, DropStaged, registryVars
<1>. QED BY <1>4, <1>5, <1>6, <1>7, <1>8, <1>9 DEF RegistryNext

\* Finished missions stay finished, bindings stay, and the time of a claim
\* never runs back, over every call and every publication.
THEOREM RegistryHistoryKept == RegistrySpec => HistoryKept
<1> DEFINE Step ==
      \A a \in Assignments :
        /\ live.claims[a].state = "TERMINATED" => live'.claims[a] = live.claims[a]
        /\ Bound(live, a) => live'.binding[a] = live.binding[a]
        /\ live'.claims[a].at >= live.claims[a].at
<1>1. RegistryInit => HistoryInv
  BY EmptySound DEF RegistryInit, RegistryInv, HistoryInv
<1>2. HistoryInv /\ [RegistryNext]_registryVars => Step
  BY HistoryStep DEF Later
<1>3. HistoryInv /\ [RegistryNext]_registryVars => HistoryInv'
  BY HistoryStep
<1>. QED BY <1>1, <1>2, <1>3, PTL DEF RegistrySpec, HistoryKept

=============================================================================
