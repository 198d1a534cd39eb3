------------------------------ MODULE MCBroker ------------------------------
(***************************************************************************)
(* A small instance of Broker.  Deadlines of 1 and 2, a retention of 2 and *)
(* readings from 0 to 6 let an identifier be enforced, retired and reused; *)
(* a clock that regresses by the whole retention is the worst case the     *)
(* retention is meant to survive.  One verdict's deadline is so late that  *)
(* its retention wraps around; it can be enforced again and again, so that *)
(* the number of enforcements needs a bound.                               *)
(***************************************************************************)
EXTENDS Broker

CONSTANTS
  a, b, m1, m2,
  MaxEnforced  \* how many verdicts are enforced at most

Base ==
  [major |-> 1, request_id |-> a, issued_at |-> 0, expires_at |-> 1,
   action |-> "Alert", model |-> m1, generation |-> 1, pid |-> 7,
   evidence |-> 1, flags |-> 0]

\* One verdict per gate, two that share an identifier but not a deadline, one
\* with another identifier and one with that identifier and a deadline whose
\* retention wraps around.
MCVerdicts ==
  { Base,
    [Base EXCEPT !.action = "SuspendAndAlert", !.expires_at = 2],
    [Base EXCEPT !.request_id = b, !.expires_at = 6],
    [Base EXCEPT !.request_id = b, !.action = "HardKill", !.evidence = 2],
    [Base EXCEPT !.request_id = b, !.issued_at = 13, !.expires_at = 15],
    [Base EXCEPT !.action = "HardKill", !.expires_at = 4],
    [Base EXCEPT !.action = "SuspendAndAlert", !.pid = 0],
    [Base EXCEPT !.generation = 2],
    [Base EXCEPT !.model = m2],
    [Base EXCEPT !.major = 2],
    [Base EXCEPT !.flags = 1] }

MCPolicies ==
  [generation: {1}, hard_kill: BOOLEAN, min_evidence: {2}, model: {m1},
   degraded: BOOLEAN]

BoundedNext ==
  \E v \in Verdicts, t \in Times :
    /\ t + MaxRegress >= peak
    /\ Outcome(policy, replay_cache, v, t) = "None" => Len(log) < MaxEnforced
    /\ EvaluateAndEnforce(v, t)

BoundedSpec == Init /\ [][BoundedNext]_vars
=============================================================================
