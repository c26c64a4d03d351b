-------------------------------- MODULE Sums --------------------------------
(***************************************************************************)
(* The sum of the first numbers of a sequence, for lengths that add up: of *)
(* the labels of a name, of the frames before a frame, of the groups of a  *)
(* varint.                                                                 *)
(***************************************************************************)
EXTENDS Integers

\* f[1] + ... + f[n]
SumTo(f, n) ==
    LET sum[i \in Nat] == IF i = 0 THEN 0 ELSE sum[i - 1] + f[i]
    IN  sum[n]
=============================================================================
