---------------------------- MODULE MCPayrollB2C ----------------------------
(* PayrollB2C on small instances: TLC's symmetry and nothing else.           *)
EXTENDS PayrollB2C, TLC

\* Handlers and rows are interchangeable (createdAt order is in `created`).
Symmetry == Permutations(Handlers) \cup Permutations(Rows)
=============================================================================
