--------------------------- MODULE MCOfflineSale ---------------------------
(* OfflineSale on small instances.                                          *)
EXTENDS OfflineSale, TLC

\* Calls of syncQueue are interchangeable, and so are POSTs.
Symmetry == Permutations(Syncs) \cup Permutations(Posts)
=============================================================================
