----------------------------- MODULE MCDebtPlan -----------------------------
(* DebtPlan on small instances: the schedule, and symmetry of the requests.  *)
EXTENDS DebtPlan, TLC

CONSTANTS i1, i2

\* Two units on the first installment, so that it can be paid in parts.
MCDue == [i \in Installments |-> IF i = i1 THEN 2 ELSE 1]

\* Requests are interchangeable.
Symmetry == Permutations(Requests)
=============================================================================
