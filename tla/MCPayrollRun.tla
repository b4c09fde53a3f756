---------------------------- MODULE MCPayrollRun ----------------------------
(* PayrollRun on small instances.                                            *)
EXTENDS PayrollRun, TLC

\* Owners hold the same rights and requests are interchangeable.
Symmetry == Permutations(Users) \cup Permutations(Requests)
=============================================================================
