---------------------------- MODULE MCCorrelator ----------------------------
(***************************************************************************)
(* One clock exchange and two writes to one of two files each.  A guest    *)
(* writes the first by its normalised path, by one that leads up and down  *)
(* again, which the agent refuses, or by a symbolic link, whose name the   *)
(* host takes for the second file.  With room for two events a record      *)
(* meets its own event, another event, both or none; the estimate is       *)
(* missing, fresh, exact or not, stale or from a session that has ended.   *)
(***************************************************************************)
EXTENDS Correlator

MCFile   == <<"", "mnt", "c", "f">>
MCDotted == <<"", "mnt", "c", "..", "c", "f">>
MCLink   == <<"", "mnt", "c", "g">>

MCGuestPaths == {MCFile, MCDotted, MCLink}
MCPlainPaths == {MCFile, MCDotted}
MCPathBytes == [p \in MCGuestPaths |-> 8]

MCWindowsPaths == {<<"c", "f">>, <<"c", "g">>}
MCWinPath == [p \in MCGuestPaths |-> <<"c", "f">>]
=============================================================================
