--------------------------- MODULE BrokerExecutor ---------------------------
(***************************************************************************)
(* What the enforcement broker promises its callers (ADR 002, ADR 003):    *)
(* it acts on a verdict only if the policy it was constructed with         *)
(* authorises it, and never acts twice on the same verdict, except for     *)
(* those it cannot keep in mind.  How replays are recognised, and when     *)
(* they are forgotten again, is not visible.                               *)
(***************************************************************************)
CONSTANTS
  Verdicts, Policies, Authorised(_, _),
  Forgettable   \* the verdicts that may be acted on again

VARIABLES policy, executed

Init ==
  /\ policy \in Policies
  /\ executed = {}

\* Act on v: for the first time, unless v may be forgotten.
Execute(v) ==
  /\ Authorised(policy, v)
  /\ v \notin executed \/ v \in Forgettable
  /\ executed' = executed \cup {v}
  /\ UNCHANGED policy

Next == \E v \in Verdicts : Execute(v)

Spec == Init /\ [][Next]_<<policy, executed>>
=============================================================================
