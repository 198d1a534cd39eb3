------------------------------ MODULE MCSession -----------------------------
(***************************************************************************)
(* Two sessions are opened by two threads of one process, while the packer *)
(* may run a command instead of one of them; two callers share one engine. *)
(* Two threads are enough to race for the lock of the runtime, two callers *)
(* for that of the session, each with one that fails, panics or hangs.     *)
(***************************************************************************)
EXTENDS Session, MCBundle

CONSTANTS r1, c1, c2

MCRelease == {MCManifest(1, trained)}

\* One configuration asks for the generation of the release, one for a later one.
MCConfigured == {MCConfig(1), MCConfig(2)}

\* Both callers use clones of one session.
MCTarget == [c \in {c1, c2} |-> r1]

\* A machine with the runtime, whose load may fail, and one without.
MCMachine == {[device |-> TRUE, runtime |-> TRUE, vitis |-> FALSE]}
MCMachines ==
  {[device |-> b, runtime |-> b, vitis |-> FALSE] : b \in BOOLEAN}
=============================================================================
