----------------------------- MODULE MCDetectors ----------------------------
(***************************************************************************)
(* Five inputs over seven ticks.  Two failures make a brute force and the  *)
(* window holds three events, so that a flood, another user's failures and *)
(* late or reordered events all occur; a flow is full with three packets;  *)
(* five commands add, release and re-add two targets; of the paths written *)
(* one is framed, one refused, one too long.                               *)
(***************************************************************************)
EXTENDS Detectors, TLC

CONSTANTS f1, f2

MCPackets ==
  {[key |-> f1, direction |-> "Outbound", small |-> TRUE],
   [key |-> f1, direction |-> "Inbound", small |-> FALSE],
   [key |-> f2, direction |-> "Outbound", small |-> TRUE]}

MCFile   == <<"", "mnt", "c", "f">>
MCHome   == <<"", "home", "f">>
MCLong   == <<"", "mnt", "c", "long">>
MCGuestPaths == {MCFile, MCHome, MCLong}
MCPathBytes == [p \in MCGuestPaths |-> IF p = MCLong THEN 5000 ELSE 8]

\* Users and targets are only compared.
MCSymmetry == Permutations(Users) \cup Permutations(Targets)
=============================================================================
