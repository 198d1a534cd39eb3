-------------------------------- MODULE Sums --------------------------------
(***************************************************************************)
(* The sum of the first values of a sequence, as a recursive function:     *)
(* what the loops of the detectors accumulate.                             *)
(***************************************************************************)
EXTENDS Integers

\* The sums of the first k values of v, for each k up to n.
Totals(v, n) ==
  LET sum[k \in 0 .. n] == IF k = 0 THEN 0 ELSE sum[k - 1] + v[k]
  IN sum

Total(v, n) == Totals(v, n)[n]
=============================================================================
