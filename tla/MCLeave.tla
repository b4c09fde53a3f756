------------------------------ MODULE MCLeave -------------------------------
(* Leave on small instances: one type with a balance, one without.           *)
EXTENDS Leave, TLC

CONSTANTS annual, sick

MCEntitled == annual :> 2
MCSteps == {-1, 1}
\* A grant is whatever number was sent.
MCGrants == {-2, 1}
MCListed == <<annual, sick>>

\* Calls are interchangeable, and so are requests.
Symmetry == Permutations(Calls) \cup Permutations(Leaves)
=============================================================================
