--------------------------- MODULE RequestLifecycle ---------------------------
(***************************************************************************)
(* What the fleet's model service promises to whoever made a request,      *)
(* however requests compete at the Broker: a request waits, is computed    *)
(* and is over; it is answered once, and an answer nobody has fetched may  *)
(* still be withdrawn but never becomes a better one; a call whose answer  *)
(* was given up goes on and keeps its slot until it really ends, so that   *)
(* no more than Slots calls are ever under way.                            *)
(* TextTaskRunner and VisualDispatcher implement this specification.       *)
(***************************************************************************)
EXTENDS Naturals, FiniteSets

CONSTANTS
  Requests,
  Slots        \* calls of one owner that may be under way

VARIABLES
  stage,       \* stage[r]: "new", "waiting", "computing" or "over"
  answer       \* answer[r]: "none" yet, one of Outcomes, or "gone" to its caller

requestVars == <<stage, answer>>

Outcomes == {"value", "error", "stale"}
Computing == {r \in Requests : stage[r] = "computing"}

RequestInit ==
  /\ stage = [r \in Requests |-> "new"]
  /\ answer = [r \in Requests |-> "none"]

Move(r, s) == stage' = [stage EXCEPT ![r] = s]

\* r is answered by x; an older answer may be pushed out by it.
Give(r, x) ==
  \E out \in {{}} \cup {{q} : q \in Requests \ {r}} :
    answer' = [q \in Requests |-> IF q = r THEN x
                                  ELSE IF q \in out /\ answer[q] \in Outcomes THEN "gone"
                                  ELSE answer[q]]

Ask(r) == stage[r] = "new" /\ Move(r, "waiting") /\ UNCHANGED answer

Start(r) ==
  /\ stage[r] = "waiting" /\ Cardinality(Computing) < Slots
  /\ Move(r, "computing")
  /\ UNCHANGED answer

\* What was never computed is over, and the caller is told so.
TakeBack(r) == stage[r] = "waiting" /\ Move(r, "over") /\ Give(r, "stale")

\* The answer is given up, the call is not.
Revoke(r) ==
  /\ stage[r] = "computing" /\ answer[r] = "none"
  /\ Give(r, "stale")
  /\ UNCHANGED stage

\* The call ends.  Its outcome is the answer unless there has been one.
EndCall(r) ==
  /\ stage[r] = "computing"
  /\ Move(r, "over")
  /\ IF answer[r] = "none" THEN \E x \in Outcomes : Give(r, x) ELSE UNCHANGED answer

\* The caller changes its mind before it has fetched the answer.
Withdraw(r) ==
  /\ stage[r] = "over" /\ answer[r] \in {"value", "error"}
  /\ Give(r, "stale")
  /\ UNCHANGED stage

Fetch(r) ==
  /\ answer[r] \in Outcomes
  /\ answer' = [answer EXCEPT ![r] = "gone"]
  /\ UNCHANGED stage

RequestNext ==
  \E r \in Requests :
    Ask(r) \/ Start(r) \/ TakeBack(r) \/ Revoke(r) \/ EndCall(r) \/ Withdraw(r) \/ Fetch(r)

RequestSpec == RequestInit /\ [][RequestNext]_requestVars
===============================================================================
