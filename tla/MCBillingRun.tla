---------------------------- MODULE MCBillingRun ----------------------------
(* BillingRun with two or three settlements.  One plan prices them all, or *)
(* each has its own.                                                       *)
EXTENDS BillingRun, TLC
CONSTANTS p1, p2
Symmetry == Permutations(Runs) \cup Permutations(Workers)
OnePlan == [s \in 1 .. NumSettlements |-> p1]
PlanEach == [s \in 1 .. NumSettlements |-> IF s = 2 THEN p2 ELSE p1]
=============================================================================
