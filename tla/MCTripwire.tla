----------------------------- MODULE MCTripwire -----------------------------
(***************************************************************************)
(* Three operations of two processes on two files over two windows.  A     *)
(* write is a block of ciphertext or a block of text; with three of them   *)
(* both ways to be anomalous, sustained and intermittent, occur.  The      *)
(* tracker only compares files and processes, hence the symmetry.          *)
(***************************************************************************)
EXTENDS Tripwire

MCPayloads == {<<800>>, <<400>>}

MCSymmetry == Permutations(Files) \cup Permutations(Pids)
=============================================================================
