--------------------------- MODULE MCPipeDispatch ---------------------------
(***************************************************************************)
(* Three calls of dispatch over a verdict, one with the same identifier    *)
(* that only the wire decoder turns away and one that the policy denies    *)
(* late enough to purge the first one's identifier in between.             *)
(***************************************************************************)
EXTENDS PipeDispatch, TLC

CONSTANTS a, m1

Base ==
  [major |-> 1, request_id |-> a, issued_at |-> 0, expires_at |-> 1,
   action |-> "SuspendAndAlert", model |-> m1, generation |-> 1, pid |-> 7,
   evidence |-> 1, flags |-> 0]

MCVerdicts ==
  { Base,
    [Base EXCEPT !.expires_at = 4],
    [Base EXCEPT !.action = "HardKill", !.issued_at = 1, !.expires_at = 4] }

MCPolicies ==
  {[generation |-> 1, hard_kill |-> FALSE, min_evidence |-> 2, model |-> m1,
    degraded |-> FALSE]}

CallSymmetry == Permutations(Calls)
=============================================================================
