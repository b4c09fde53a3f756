---------------------------- MODULE MCStkPayment ----------------------------
(* StkPayment on small instances.                                            *)
EXTENDS StkPayment, TLC

\* Simultaneous cashiers are interchangeable.
Symmetry == Permutations(Cashiers)
=============================================================================
