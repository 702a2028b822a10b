-------------------------- MODULE VehicleLifecycle --------------------------
(***************************************************************************)
(* What a SkillManager promises to whoever runs a vehicle, whatever its    *)
(* plan and its coordinators do: one task at a time, which flies, may be   *)
(* held and let go again, lands, and ends; plans change only by the next   *)
(* version and never once the vehicle lands; the trouble a task has met    *)
(* never gets smaller, and only a task without any ends as a success.      *)
(* SkillManager implements this specification.                             *)
(***************************************************************************)
EXTENDS Naturals

VARIABLES
  phase,     \* "idle", "flying", "holding", "landing", or how the task ended
  trouble,   \* "none", "CANCELED" or "FAILED": what ended the mission early
  planNo     \* version of the plan being flown, 0 without a task

lifeVars == <<phase, trouble, planNo>>

Ended == {"SUCCEEDED", "FAILED", "CANCELED"}
Worse(t) == CASE t = "none" -> {"CANCELED", "FAILED"}
              [] t = "CANCELED" -> {"CANCELED", "FAILED"}
              [] OTHER -> {"FAILED"}

LifeInit == phase = "idle" /\ trouble = "none" /\ planNo = 0

TakeTask == phase = "idle" /\ phase' = "flying" /\ trouble' = "none" /\ planNo' = 1

HoldStill ==
  /\ phase = "flying" /\ phase' = "holding"
  /\ UNCHANGED <<trouble, planNo>>

\* On with the plan or with its next version, which may say to land.
GoOn ==
  /\ phase = "holding" /\ phase' \in {"flying", "landing"}
  /\ planNo' \in {planNo, planNo + 1}
  /\ UNCHANGED trouble

NewPlan ==
  /\ phase = "flying" /\ planNo' = planNo + 1
  /\ UNCHANGED <<phase, trouble>>

LandAsPlanned ==
  /\ phase = "flying" /\ phase' = "landing"
  /\ UNCHANGED <<trouble, planNo>>

GiveUp ==
  /\ phase \in {"flying", "holding", "landing"} /\ phase' = "landing"
  /\ trouble' \in Worse(trouble)
  /\ UNCHANGED planNo

\* A landing that fails ends the task too.
End ==
  /\ phase = "landing"
  /\ phase' \in {"FAILED", IF trouble = "none" THEN "SUCCEEDED" ELSE trouble}
  /\ UNCHANGED <<trouble, planNo>>

Forget == phase \in Ended /\ phase' = "idle" /\ trouble' = "none" /\ planNo' = 0

LifeNext ==
  \/ TakeTask \/ HoldStill \/ GoOn \/ NewPlan
  \/ LandAsPlanned \/ GiveUp \/ End \/ Forget

LifeSpec == LifeInit /\ [][LifeNext]_lifeVars
=============================================================================
