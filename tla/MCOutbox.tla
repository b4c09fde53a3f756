------------------------------ MODULE MCOutbox ------------------------------
(* Outbox on small instances: TLC's symmetry and nothing else.               *)
EXTENDS Outbox, TLC

\* Pumps are interchangeable.
Symmetry == Permutations(Pumps)
=============================================================================
