-------------------------------- MODULE Sums --------------------------------
(***************************************************************************)
(* Sums over the indices 1 .. n, and the two ways the payment code walks   *)
(* an ordered queue of amounts.  The service code gets its sums from SQL   *)
(* (SUM(amount) ... GROUP BY) and walks its queues with nested loops; the  *)
(* closed forms below give the amount each position receives.              *)
(***************************************************************************)
EXTENDS Integers

SumTo(f, n) ==
    LET s[i \in 0 .. n] == IF i = 0 THEN 0 ELSE s[i - 1] + f[i]
    IN  s[n]

(* The part of the interval [a, b) that lies inside [c, d).                *)
Overlap(a, b, c, d) ==
    LET lo == IF a < c THEN c ELSE a
        hi == IF b < d THEN b ELSE d
    IN  IF lo < hi THEN hi - lo ELSE 0

(* "take = min(remaining, need)", walking need[1], need[2], ... in order:  *)
(* what position i receives of amount.                                     *)
Served(need, i, amount) ==
    Overlap(SumTo(need, i - 1), SumTo(need, i), 0, amount)

(* The same walk with several purses emptied one after the other: what     *)
(* position i receives from purse j.                                       *)
ServedFrom(need, i, purse, j) ==
    Overlap(SumTo(need, i - 1), SumTo(need, i),
            SumTo(purse, j - 1), SumTo(purse, j))
=============================================================================
