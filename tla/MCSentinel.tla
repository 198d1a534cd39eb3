----------------------------- MODULE MCSentinel -----------------------------
(***************************************************************************)
(* Seven turns with identifiers that repeat every third: as in the code,   *)
(* where 256 turns of 100 ms are shorter than 10 s and 60 s together, an   *)
(* identifier comes round again while it is still retained.                *)
(***************************************************************************)
EXTENDS Sentinel

CONSTANT m1

MCVerdicts == {DaemonVerdict(n) : n \in 1 .. MaxTicks}

MCPolicies ==
  {[generation |-> 1, hard_kill |-> FALSE, min_evidence |-> 2, model |-> m1,
    degraded |-> FALSE]}

\* The readings the broker may be given.
MCTimes == 0 .. Start + MaxTicks * (Heartbeat + MaxLate)
=============================================================================
