--------------------------- MODULE MCStoreTransfer --------------------------
(* StoreTransfer on small instances: quantities of the lines, symmetry.      *)
EXTENDS StoreTransfer, TLC

CONSTANTS t1, t2, p1, p2

\* The first transfer has two lines, the second competes for one of them.
MCOrdered == [t \in Transfers |-> [p \in Products |->
                IF p = p1 THEN (IF t = t1 THEN 2 ELSE 1)
                          ELSE (IF t = t1 THEN 1 ELSE 0)]]
MCStock == [p \in Products |-> IF p = p1 THEN 3 ELSE 1]

\* Requests are interchangeable.
Symmetry == Permutations(Requests)
=============================================================================
