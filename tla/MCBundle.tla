------------------------------ MODULE MCBundle ------------------------------
(***************************************************************************)
(* A packer and a reader with three commands between them: enough for one  *)
(* command to die half way, a second to repair or to replace what it left, *)
(* and a session to be opened on the result.  One release shares its model *)
(* with the development bundle, the other its generation, and the          *)
(* configurations, one of them invalid, ask for the higher generation, so  *)
(* that every verdict occurs.                                              *)
(***************************************************************************)
EXTENDS Bundle

CONSTANTS stub, trained

MCManifest(g, m) == [major |-> 1, generation |-> g, model |-> m]
MCDevManifest == MCManifest(1, stub)
MCReleases == {MCManifest(1, trained), MCManifest(2, stub)}

MCConfig(min) ==
  [major |-> 1, evidence |-> 2, ttl |-> 60, window |-> 10, uncertainty |-> 1,
   interval |-> 30, stale |-> 90, minimum |-> min]
MCConfigs == {MCConfig(2), [MCConfig(2) EXCEPT !.window = 300]}

\* A valid configuration is installed before anything else happens.
InstalledSpec ==
  /\ BundleInit /\ ConfigIntact /\ files["config"] # Absent
  /\ [][BundleNext]_bundleVars
=============================================================================
