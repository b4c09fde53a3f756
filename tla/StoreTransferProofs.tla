------------------------ MODULE StoreTransferProofs -------------------------
(***************************************************************************)
(* Proofs about StoreTransfer for any transfers, products, quantities and   *)
(* requests. The argument: what a request has loaded is bounded by what was *)
(* ordered whether or not it is outdated, the claims tie the stages of a    *)
(* transfer to shippedAt and to its lines, and where the loaded lines are   *)
(* those of the row, movements and lines grow by the same batch. Units are  *)
(* counted as a sum over the transfers, of which a step changes one term.   *)
(***************************************************************************)
EXTENDS StoreTransfer, Sums, TLAPS

\* What a request has loaded fits the order, and shippedAt is never unset.
Loaded ==
    \A r \in Requests :
        /\ pc[r] # "idle" => on[r] \in Transfers
        /\ pc[r] # "idle" => \A p \in Products :
              sawReceived[r][p] + batch[r][p] <= Ordered[on[r]][p]
        /\ sawShipped[r] => pc[r] # "idle" /\ shippedAt[on[r]]
        /\ pc[r] # "receive" => \A p \in Products : batch[r][p] = 0

\* The stage of a transfer tells whether it has left and whether it arrived.
Stages ==
    \A t \in Transfers :
        /\ status[t] \in {"NONE", "PENDING"} => ~shippedAt[t]
        /\ status[t] \in {"PARTIAL", "RECEIVED"} => shippedAt[t]
        /\ status[t] \in {"NONE", "PENDING", "IN_TRANSIT"}
              => \A p \in Products : receivedQty[t][p] = 0

IInv ==
    /\ TypeOK
    /\ Loaded
    /\ Stages
    /\ NothingMovesUnshipped
    /\ StatusFollowsLines
    /\ MovementsMatchLines

-----------------------------------------------------------------------------
\* Adding quantities gives quantities, product by product.
LEMMA PlusType ==
    ASSUME NEW f \in Quantities, NEW g \in Quantities
    PROVE  Plus(f, g) \in Quantities /\ \A p \in Products : Plus(f, g)[p] = f[p] + g[p]
BY DEF Quantities, Plus

\* An empty list of items is a list of quantities.
LEMMA NoItemsType == NoItems \in Quantities /\ \A p \in Products : NoItems[p] = 0
BY DEF Quantities, NoItems

\* No transfer is created complete: every transfer has a line.
LEMMA NotCompleteAtFirst ==
    ASSUME NEW t \in Transfers, NEW q \in Quantities, \A p \in Products : q[p] = 0
    PROVE  q # Ordered[t]
BY TransferAssumption DEF Quantities

\* What a receipt writes, line by line, and when it completes the transfer.
LEMMA ReceiptLines ==
    ASSUME TypeOK, Loaded, StatusFollowsLines,
           NEW r \in Requests, Receive(r)
    PROVE  \E lines \in Quantities :
              /\ receivedQty' = [receivedQty EXCEPT ![on[r]] = lines]
              /\ status' = [status EXCEPT ![on[r]] =
                              IF lines = Ordered[on[r]] THEN "RECEIVED" ELSE "PARTIAL"]
              /\ \A p \in Products :
                    /\ lines[p] <= Ordered[on[r]][p]
                    /\ sawReceived[r] = receivedQty[on[r]]
                          => lines[p] = receivedQty[on[r]][p] + batch[r][p]
<1>. USE DEF TypeOK, Quantities
<1>. DEFINE t == on[r]
            lines == [p \in Products |->
                        IF batch[r][p] = 0 THEN receivedQty[t][p]
                        ELSE NewTotals(sawReceived[r], batch[r])[p]]
<1>1. pc[r] = "receive" /\ t \in Transfers BY DEF Receive, Loaded
<1>2. /\ receivedQty[t] \in Quantities /\ sawReceived[r] \in Quantities
      /\ batch[r] \in Quantities /\ Ordered[t] \in Quantities
  BY <1>1, TransferAssumption
<1>3. \A p \in Products :
         lines[p] = IF batch[r][p] = 0 THEN receivedQty[t][p]
                                       ELSE sawReceived[r][p] + batch[r][p]
  BY DEF NewTotals
<1>4. lines \in Quantities BY <1>2, <1>3
<1>5. ASSUME NEW p \in Products
      PROVE  /\ lines[p] \in Nat /\ Ordered[t][p] \in Nat
             /\ lines[p] <= Ordered[t][p]
  <2>1. /\ receivedQty[t][p] \in Nat /\ sawReceived[r][p] \in Nat
        /\ batch[r][p] \in Nat /\ Ordered[t][p] \in Nat
    BY <1>2
  <2>2. sawReceived[r][p] + batch[r][p] <= Ordered[t][p] BY <1>1 DEF Loaded
  <2>3. receivedQty[t][p] <= Ordered[t][p] BY <1>1 DEF StatusFollowsLines
  <2>4. lines[p] = IF batch[r][p] = 0 THEN receivedQty[t][p]
                                      ELSE sawReceived[r][p] + batch[r][p]
    BY <1>3
  <2>. HIDE DEF lines, t
  <2>. QED BY ONLY <2>1, <2>2, <2>3, <2>4
<1>6. Complete(t, lines) <=> lines = Ordered[t]
  <2>. HIDE DEF lines, t
  <2>1. ASSUME Complete(t, lines) PROVE lines = Ordered[t]
    <3>1. ASSUME NEW p \in Products PROVE lines[p] = Ordered[t][p]
      <4>1. lines[p] >= Ordered[t][p] BY <2>1 DEF Complete
      <4>. QED BY ONLY <4>1, <1>5
    <3>. QED BY <1>2, <1>4, <3>1
  <2>2. ASSUME lines = Ordered[t] PROVE Complete(t, lines)
    BY <2>2, <1>2 DEF Complete
  <2>. QED BY <2>1, <2>2
<1>7. /\ receivedQty' = [receivedQty EXCEPT ![t] = lines]
      /\ status' = [status EXCEPT ![t] = IF Complete(t, lines) THEN "RECEIVED" ELSE "PARTIAL"]
  BY DEF Receive
<1>8. ASSUME sawReceived[r] = receivedQty[t], NEW p \in Products
      PROVE  lines[p] = receivedQty[t][p] + batch[r][p]
  BY <1>2, <1>3, <1>8
<1>. HIDE DEF lines
<1>. QED BY <1>4, <1>5, <1>6, <1>7, <1>8

\* What a cancel puts on record as returned: nothing, or what was outstanding.
LEMMA CancelReturns ==
    ASSUME TypeOK, Loaded, NEW r \in Requests, Cancel(r)
    PROVE  /\ on[r] \in Transfers
           /\ \A t \in Transfers \ {on[r]} : returned'[t] = returned[t]
           /\ returned' \in [Transfers -> Quantities]
           /\ \A p \in Products :
                 returned'[on[r]][p] = returned[on[r]][p] +
                    (IF sawShipped[r] THEN Ordered[on[r]][p] - sawReceived[r][p] ELSE 0)
<1>. USE DEF TypeOK
<1>. DEFINE back == [p \in Products |-> Outstanding(r, p)]
<1>1. pc[r] = "cancel" /\ on[r] \in Transfers BY DEF Cancel, Loaded
<1>2. back \in Quantities /\ \A p \in Products : back[p] = Ordered[on[r]][p] - sawReceived[r][p]
  <2>1. ASSUME NEW p \in Products PROVE Outstanding(r, p) \in Nat
    <3>1. /\ sawReceived[r][p] \in Nat /\ batch[r][p] \in Nat /\ Ordered[on[r]][p] \in Nat
      BY <1>1, TransferAssumption DEF Quantities
    <3>2. sawReceived[r][p] + batch[r][p] <= Ordered[on[r]][p] BY <1>1 DEF Loaded
    <3>. QED BY ONLY <3>1, <3>2 DEF Outstanding
  <2>. QED BY <2>1 DEF Outstanding, Quantities
<1>3. returned[on[r]] \in Quantities BY <1>1
<1>4. CASE sawShipped[r]
  <2>1. returned' = [returned EXCEPT ![on[r]] = Plus(@, back)] BY <1>4 DEF Cancel
  <2>. HIDE DEF back
  <2>2. /\ Plus(returned[on[r]], back) \in Quantities
        /\ \A p \in Products : Plus(returned[on[r]], back)[p] = returned[on[r]][p] + back[p]
    BY <1>2, <1>3, PlusType
  <2>. QED BY <1>1, <1>2, <1>4, <2>1, <2>2
<1>5. CASE ~sawShipped[r]
  <2>1. returned' = returned BY <1>5 DEF Cancel
  <2>. QED BY <1>1, <1>3, <1>5, <2>1 DEF Quantities
<1>. QED BY <1>4, <1>5

\* The batch of a receipt is bounded by what is still to come.
LEMMA BatchType ==
    ASSUME NEW t \in Transfers,
           NEW b \in [Products -> UNION {0..Ordered[t][p] : p \in Products}]
    PROVE  b \in Quantities
<1>1. ASSUME NEW p \in Products PROVE b[p] \in Nat
  <2>1. PICK q \in Products : b[p] \in 0..Ordered[t][q] OBVIOUS
  <2>2. Ordered[t][q] \in Nat BY TransferAssumption
  <2>. QED BY <2>1, <2>2
<1>. QED BY <1>1 DEF Quantities

-----------------------------------------------------------------------------
\* The initial state has all parts of the invariant.
LEMMA InitInv == Init => IInv
<1>. SUFFICES ASSUME Init PROVE IInv OBVIOUS
<1>. USE TransferAssumption, NoItemsType DEF Init
<1>1. TypeOK
  <2>1. origin \in Quantities BY DEF Quantities
  <2>2. inventory \in [Products -> Int] OBVIOUS
  <2>. QED BY <2>1, <2>2 DEF TypeOK, Statuses
<1>2. Loaded BY DEF Loaded
<1>3. Stages BY DEF Stages
<1>4. NothingMovesUnshipped BY DEF NothingMovesUnshipped
<1>5. StatusFollowsLines
  <2>1. ASSUME NEW t \in Transfers PROVE receivedQty[t] # Ordered[t]
    BY NotCompleteAtFirst
  <2>2. \A t \in Transfers, p \in Products : Ordered[t][p] \in Nat OBVIOUS
  <2>. QED BY <2>1, <2>2 DEF StatusFollowsLines
<1>6. MovementsMatchLines BY DEF MovementsMatchLines
<1>. QED BY <1>1, <1>2, <1>3, <1>4, <1>5, <1>6 DEF IInv

\* No step breaks a type; stock does not go below zero because the guarded
\* decrement fails first.
LEMMA NextType == ASSUME IInv, [Next]_vars PROVE TypeOK'
<1>. USE DEF IInv, TypeOK, transfer, stock, movement, request
<1>0. \A t \in Transfers, p \in Products : Ordered[t][p] \in Nat BY TransferAssumption
<1>1. ASSUME NEW t \in Transfers, Create(t) \/ Approve(t) PROVE TypeOK'
  BY <1>1 DEF Create, Approve, Statuses
<1>2. ASSUME NEW t \in Transfers, Ship(t) PROVE TypeOK'
  <2>1. origin' \in Quantities
    <3>1. ASSUME NEW p \in Products PROVE origin[p] - Ordered[t][p] \in Nat
      <4>1. origin[p] \in Nat /\ origin[p] >= Ordered[t][p]
        BY <1>2 DEF Ship, InStock, Quantities
      <4>. QED BY <1>0, <4>1
    <3>. QED BY <1>2, <3>1 DEF Ship, Quantities
  <2>2. inventory' \in [Products -> Int]
    <3>1. ASSUME NEW p \in Products
          PROVE (IF p \in LegacyRows THEN inventory[p] - Ordered[t][p] ELSE inventory[p]) \in Int
      BY <1>0
    <3>. QED BY <1>2, <3>1 DEF Ship
  <2>3. shippedAt' \in [Transfers -> BOOLEAN] BY <1>2 DEF Ship
  <2>. QED BY <1>2, <2>1, <2>2, <2>3 DEF Ship
<1>3. ASSUME NEW r \in Requests, NEW t \in Transfers, LoadReceive(r, t) PROVE TypeOK'
  <2>1. batch' \in [Requests -> Quantities]
    <3>1. PICK b \in [Products -> UNION {0..Ordered[t][p] : p \in Products}] :
             batch' = [batch EXCEPT ![r] = b]
      BY <1>3 DEF LoadReceive
    <3>2. b \in Quantities BY BatchType
    <3>. QED BY <3>1, <3>2
  <2>2. /\ on' \in [Requests -> Transfers \cup {None}]
        /\ sawReceived' \in [Requests -> Quantities]
        /\ sawShipped' \in [Requests -> BOOLEAN]
        /\ UNCHANGED <<transfer, stock, movement, outdated>>
    BY <1>3 DEF LoadReceive, Load
  <2>3. pc' \in [Requests -> {"idle", "receive", "cancel"}] BY <1>3 DEF LoadReceive
  <2>. QED BY <2>1, <2>2, <2>3
<1>4. ASSUME NEW r \in Requests, NEW t \in Transfers, LoadCancel(r, t) PROVE TypeOK'
  BY <1>4 DEF LoadCancel, Load
<1>5. ASSUME NEW r \in Requests, End(r)
      PROVE  /\ pc' \in [Requests -> {"idle", "receive", "cancel"}]
             /\ on' \in [Requests -> Transfers \cup {None}]
             /\ sawReceived' \in [Requests -> Quantities]
             /\ sawShipped' \in [Requests -> BOOLEAN]
             /\ batch' \in [Requests -> Quantities]
  BY <1>5, NoItemsType DEF End
<1>6. ASSUME NEW r \in Requests, Receive(r) PROVE TypeOK'
  <2>1. on[r] \in Transfers BY <1>6 DEF Receive, Loaded
  <2>2. PICK lines \in Quantities :
           /\ receivedQty' = [receivedQty EXCEPT ![on[r]] = lines]
           /\ status' = [status EXCEPT ![on[r]] =
                           IF lines = Ordered[on[r]] THEN "RECEIVED" ELSE "PARTIAL"]
    BY <1>6, ReceiptLines
  <2>3. Plus(dest, batch[r]) \in Quantities /\ Plus(credited[on[r]], batch[r]) \in Quantities
    BY <2>1, PlusType
  <2>4. /\ dest' = Plus(dest, batch[r])
        /\ credited' = [credited EXCEPT ![on[r]] = Plus(@, batch[r])]
        /\ UNCHANGED <<shippedAt, origin, inventory, sold, returned>>
        /\ End(r) /\ Outgrown(r)
    BY <1>6 DEF Receive
  <2>5. status' \in [Transfers -> Statuses] BY <2>2 DEF Statuses
  <2>6. outdated' \in SUBSET Transfers BY <2>1, <2>4 DEF Outgrown
  <2>7. receivedQty' \in [Transfers -> Quantities] BY <2>2
  <2>8. credited' \in [Transfers -> Quantities] BY <2>3, <2>4
  <2>. QED BY <1>5, <2>3, <2>4, <2>5, <2>6, <2>7, <2>8
<1>7. ASSUME NEW r \in Requests, Cancel(r) PROVE TypeOK'
  <2>1. on[r] \in Transfers /\ returned' \in [Transfers -> Quantities]
    BY <1>7, CancelReturns
  <2>2. inventory' \in [Products -> Int]
    <3>1. ASSUME NEW p \in Products PROVE inventory[p] + Outstanding(r, p) \in Int
      BY <1>0, <2>1 DEF Outstanding, Quantities
    <3>2. CASE ~sawShipped[r] BY <1>7, <3>2 DEF Cancel
    <3>3. CASE sawShipped[r]
      <4>1. inventory' = [p \in Products |->
                IF p \in LegacyRows THEN inventory[p] + Outstanding(r, p) ELSE inventory[p]]
        BY <1>7, <3>3 DEF Cancel
      <4>. QED BY <3>1, <4>1
    <3>. QED BY <3>2, <3>3
  <2>3. /\ status' = [status EXCEPT ![on[r]] = "CANCELLED"]
        /\ UNCHANGED <<shippedAt, receivedQty, origin, dest, sold, credited>>
        /\ End(r) /\ Outgrown(r)
    BY <1>7 DEF Cancel
  <2>4. status' \in [Transfers -> Statuses] BY <2>3 DEF Statuses
  <2>5. outdated' \in SUBSET Transfers BY <2>1, <2>3 DEF Outgrown
  <2>. QED BY <1>5, <2>1, <2>2, <2>3, <2>4, <2>5
<1>8. ASSUME NEW r \in Requests, GiveUp(r) PROVE TypeOK'
  BY <1>5, <1>8 DEF GiveUp
<1>9. ASSUME NEW p \in Products, Sell(p) PROVE TypeOK'
  <2>1. origin' \in Quantities /\ sold' \in Quantities BY <1>9 DEF Sell, Quantities
  <2>. QED BY <1>9, <2>1 DEF Sell
<1>10. CASE UNCHANGED vars BY <1>10 DEF vars
<1>. QED BY <1>1, <1>2, <1>3, <1>4, <1>6, <1>7, <1>8, <1>9, <1>10 DEF Next

\* What was loaded stays within the order: orders do not change, and a
\* transfer that has left has left for good.
LEMMA NextLoaded == ASSUME IInv, [Next]_vars PROVE Loaded'
<1>. USE DEF IInv, TypeOK, transfer, stock, movement, request, Loaded
<1>1. ASSUME NEW t \in Transfers, Create(t) \/ Approve(t) PROVE Loaded'
  BY <1>1 DEF Create, Approve
<1>2. ASSUME NEW t \in Transfers, Ship(t) PROVE Loaded'
  BY <1>2 DEF Ship
<1>3. ASSUME NEW r \in Requests, NEW t \in Transfers, LoadReceive(r, t) PROVE Loaded'
  <2>1. PICK b \in [Products -> UNION {0..Ordered[t][p] : p \in Products}] :
           /\ \A p \in Products : receivedQty[t][p] + b[p] <= Ordered[t][p]
           /\ batch' = [batch EXCEPT ![r] = b]
    BY <1>3 DEF LoadReceive
  <2>2. /\ pc' = [pc EXCEPT ![r] = "receive"] /\ on' = [on EXCEPT ![r] = t]
        /\ sawReceived' = [sawReceived EXCEPT ![r] = receivedQty[t]]
        /\ sawShipped' = [sawShipped EXCEPT ![r] = shippedAt[t]]
        /\ UNCHANGED shippedAt
    BY <1>3 DEF LoadReceive, Load
  <2>. QED BY <2>1, <2>2
<1>4. ASSUME NEW r \in Requests, NEW t \in Transfers, LoadCancel(r, t) PROVE Loaded'
  <2>1. /\ pc[r] = "idle"
        /\ pc' = [pc EXCEPT ![r] = "cancel"] /\ on' = [on EXCEPT ![r] = t]
        /\ sawReceived' = [sawReceived EXCEPT ![r] = receivedQty[t]]
        /\ sawShipped' = [sawShipped EXCEPT ![r] = shippedAt[t]]
        /\ UNCHANGED <<shippedAt, batch>>
    BY <1>4 DEF LoadCancel, Load
  <2>2. \A p \in Products : receivedQty[t][p] + batch[r][p] <= Ordered[t][p]
    <3>1. ASSUME NEW p \in Products PROVE receivedQty[t][p] + batch[r][p] <= Ordered[t][p]
      <4>1. batch[r][p] = 0 BY <2>1
      <4>2. receivedQty[t][p] <= Ordered[t][p] /\ receivedQty[t][p] \in Nat
        BY DEF StatusFollowsLines, Quantities
      <4>. QED BY ONLY <4>1, <4>2, TransferAssumption
    <3>. QED BY <3>1
  <2>. QED BY <2>1, <2>2
<1>5. ASSUME NEW r \in Requests, End(r), UNCHANGED shippedAt PROVE Loaded'
  <2>1. /\ pc'[r] = "idle" /\ sawShipped'[r] = FALSE
        /\ \A p \in Products : batch'[r][p] = 0
    BY <1>5, NoItemsType DEF End
  <2>2. ASSUME NEW v \in Requests \ {r}
        PROVE  /\ pc'[v] = pc[v] /\ on'[v] = on[v] /\ sawShipped'[v] = sawShipped[v]
               /\ sawReceived'[v] = sawReceived[v] /\ batch'[v] = batch[v]
    BY <1>5 DEF End
  <2>. QED BY ONLY <1>5, <2>1, <2>2, Loaded DEF Loaded
<1>6. ASSUME NEW r \in Requests, Receive(r) \/ Cancel(r) \/ GiveUp(r)
      PROVE End(r) /\ UNCHANGED shippedAt
  BY <1>6 DEF Receive, Cancel, GiveUp
<1>7. ASSUME NEW p \in Products, Sell(p) PROVE Loaded'
  BY <1>7 DEF Sell
<1>8. CASE UNCHANGED vars BY <1>8 DEF vars
<1>. QED BY <1>1, <1>2, <1>3, <1>4, <1>5, <1>6, <1>7, <1>8 DEF Next

-----------------------------------------------------------------------------
(* The rows of the transfers. A step of a till, a load or a give-up leaves  *)
(* them alone.                                                              *)

Rows == Stages /\ NothingMovesUnshipped /\ StatusFollowsLines /\ MovementsMatchLines

\* The parts of the invariant that are about rows only look at these.
LEMMA RowsUnchanged ==
    ASSUME Rows, UNCHANGED <<transfer, movement, outdated>>
    PROVE  Rows'
BY DEF Rows, Stages, NothingMovesUnshipped, StatusFollowsLines, MovementsMatchLines,
       transfer, movement

\* What one transfer has to satisfy.
Row(t) ==
    /\ status[t] \in {"NONE", "PENDING"} => ~shippedAt[t]
    /\ status[t] \in {"PARTIAL", "RECEIVED"} => shippedAt[t]
    /\ status[t] \in {"NONE", "PENDING", "IN_TRANSIT"}
          => \A p \in Products : receivedQty[t][p] = 0
    /\ ~shippedAt[t] => \A p \in Products : credited[t][p] = 0 /\ returned[t][p] = 0
    /\ status[t] = "RECEIVED" <=> receivedQty[t] = Ordered[t]
    /\ \A p \in Products : receivedQty[t][p] <= Ordered[t][p]
    /\ t \notin outdated => \A p \in Products :
          /\ credited[t][p] = receivedQty[t][p]
          /\ returned[t][p] = IF status[t] = "CANCELLED" /\ shippedAt[t]
                              THEN Ordered[t][p] - receivedQty[t][p] ELSE 0

\* The row invariant, one transfer at a time.
LEMMA RowByRow == Rows <=> \A t \in Transfers : Row(t)
<1>1. ASSUME Rows PROVE \A t \in Transfers : Row(t)
  BY <1>1 DEF Rows, Row, Stages, NothingMovesUnshipped, StatusFollowsLines, MovementsMatchLines
<1>2. ASSUME \A t \in Transfers : Row(t) PROVE Rows
  <2>1. Stages /\ NothingMovesUnshipped BY <1>2 DEF Row, Stages, NothingMovesUnshipped
  <2>2. StatusFollowsLines BY <1>2 DEF Row, StatusFollowsLines
  <2>3. MovementsMatchLines BY <1>2 DEF Row, MovementsMatchLines
  <2>. QED BY <2>1, <2>2, <2>3 DEF Rows
<1>. QED BY <1>1, <1>2

\* A step that changes one transfer leaves the rows of the others alone.
LEMMA OtherRows ==
    ASSUME Rows, NEW t \in Transfers,
           outdated' \subseteq outdated \cup {t}, outdated \subseteq outdated',
           \A u \in Transfers \ {t} :
              /\ status'[u] = status[u] /\ shippedAt'[u] = shippedAt[u]
              /\ receivedQty'[u] = receivedQty[u]
              /\ credited'[u] = credited[u] /\ returned'[u] = returned[u],
           Row(t)'
    PROVE  Rows'
<1>1. ASSUME NEW u \in Transfers \ {t} PROVE Row(u)'
  <2>1. Row(u) BY RowByRow
  <2>2. u \in outdated' <=> u \in outdated OBVIOUS
  <2>. QED BY ONLY <2>1, <2>2,
          \A v \in Transfers \ {t} :
              /\ status'[v] = status[v] /\ shippedAt'[v] = shippedAt[v]
              /\ receivedQty'[v] = receivedQty[v]
              /\ credited'[v] = credited[v] /\ returned'[v] = returned[v]
       DEF Row
<1>2. \A u \in Transfers : Row(u)' BY <1>1
<1>3. Stages' /\ NothingMovesUnshipped'
  BY ONLY <1>2 DEF Row, Stages, NothingMovesUnshipped
<1>4. StatusFollowsLines' BY ONLY <1>2 DEF Row, StatusFollowsLines
<1>5. MovementsMatchLines' BY ONLY <1>2 DEF Row, MovementsMatchLines
<1>. QED BY <1>3, <1>4, <1>5 DEF Rows

\* Every step keeps the rows right.
LEMMA NextRows == ASSUME IInv, [Next]_vars PROVE Rows'
<1>0. Rows BY DEF IInv, Rows
<1>. USE DEF IInv, TypeOK
<1>. DEFINE Others(t) ==
              /\ outdated' \subseteq outdated \cup {t} /\ outdated \subseteq outdated'
              /\ \A u \in Transfers \ {t} :
                    /\ status'[u] = status[u] /\ shippedAt'[u] = shippedAt[u]
                    /\ receivedQty'[u] = receivedQty[u]
                    /\ credited'[u] = credited[u] /\ returned'[u] = returned[u]
<1>1. ASSUME NEW t \in Transfers, Create(t) \/ Approve(t) PROVE Rows'
  <2>1. Row(t) BY <1>0, RowByRow
  <2>2. /\ status[t] \in {"NONE", "PENDING"} /\ status'[t] \in {"PENDING", "IN_TRANSIT"}
        /\ UNCHANGED <<shippedAt, receivedQty, movement, outdated>>
        /\ \A u \in Transfers \ {t} : status'[u] = status[u]
    BY <1>1 DEF Create, Approve, ApproveClaims
  <2>3. Row(t)' BY ONLY <2>1, <2>2 DEF Row, movement
  <2>4. Others(t) BY <2>2 DEF movement
  <2>. QED BY <1>0, <2>3, <2>4, OtherRows
<1>2. ASSUME NEW t \in Transfers, Ship(t) PROVE Rows'
  <2>1. Row(t) BY <1>0, RowByRow
  <2>2. /\ status[t] = "IN_TRANSIT" /\ shippedAt'[t] = TRUE
        /\ UNCHANGED <<status, receivedQty, movement, outdated>>
        /\ \A u \in Transfers \ {t} : shippedAt'[u] = shippedAt[u]
    BY <1>2 DEF Ship, ShipClaims
  <2>3. Row(t)' BY ONLY <2>1, <2>2 DEF Row, movement
  <2>4. Others(t) BY <2>2 DEF movement
  <2>. QED BY <1>0, <2>3, <2>4, OtherRows
<1>3. ASSUME NEW r \in Requests, Receive(r) PROVE Rows'
  <2>0. PICK t \in Transfers : t = on[r] BY <1>3 DEF Receive, Loaded
  <2>1. t \in Transfers /\ status[t] \in {"IN_TRANSIT", "PARTIAL"} /\ shippedAt[t]
    BY <1>3, <2>0 DEF Receive, ReceiveClaims
  <2>2. PICK lines \in Quantities :
           /\ receivedQty' = [receivedQty EXCEPT ![t] = lines]
           /\ status' = [status EXCEPT ![t] =
                           IF lines = Ordered[t] THEN "RECEIVED" ELSE "PARTIAL"]
           /\ \A p \in Products :
                 /\ lines[p] <= Ordered[t][p]
                 /\ sawReceived[r] = receivedQty[t]
                       => lines[p] = receivedQty[t][p] + batch[r][p]
    BY <1>3, <2>0, ReceiptLines
  <2>3. /\ UNCHANGED <<shippedAt, returned>>
        /\ credited' = [credited EXCEPT ![t] = Plus(@, batch[r])]
        /\ outdated' = outdated \cup {u \in {t} :
              sawReceived[r] # receivedQty[u] \/ sawShipped[r] # shippedAt[u]}
    BY <1>3, <2>0 DEF Receive, Outgrown
  <2>4. \A p \in Products : credited'[t][p] = credited[t][p] + batch[r][p]
    BY <2>1, <2>3, PlusType
  <2>5. Row(t) BY <1>0, <2>1, RowByRow
  <2>6. /\ receivedQty'[t] = lines /\ shippedAt'[t] = shippedAt[t]
        /\ status'[t] = IF lines = Ordered[t] THEN "RECEIVED" ELSE "PARTIAL"
        /\ returned'[t] = returned[t]
        /\ t \notin outdated' => t \notin outdated /\ sawReceived[r] = receivedQty[t]
    BY <2>1, <2>2, <2>3
  <2>7. Row(t)' BY ONLY <2>1, <2>2, <2>4, <2>5, <2>6 DEF Row
  <2>8. Others(t) BY <2>1, <2>2, <2>3
  <2>. QED BY <1>0, <2>1, <2>7, <2>8, OtherRows
<1>4. ASSUME NEW r \in Requests, Cancel(r) PROVE Rows'
  <2>0. PICK t \in Transfers : t = on[r] BY <1>4 DEF Cancel, Loaded
  <2>1. /\ t \in Transfers /\ status[t] \in {"PENDING", "IN_TRANSIT", "PARTIAL"}
        /\ sawShipped[r] => shippedAt[t]
    BY <1>4, <2>0 DEF Cancel, CancelClaims, Loaded
  <2>2. /\ \A u \in Transfers \ {t} : returned'[u] = returned[u]
        /\ \A p \in Products :
              returned'[t][p] = returned[t][p] +
                 (IF sawShipped[r] THEN Ordered[t][p] - sawReceived[r][p] ELSE 0)
    BY <1>4, <2>0, CancelReturns
  <2>3. /\ UNCHANGED <<shippedAt, receivedQty, credited>>
        /\ status' = [status EXCEPT ![t] = "CANCELLED"]
        /\ outdated' = outdated \cup {u \in {t} :
              sawReceived[r] # receivedQty[u] \/ sawShipped[r] # shippedAt[u]}
    BY <1>4, <2>0 DEF Cancel, Outgrown
  <2>4. Row(t) BY <1>0, <2>1, RowByRow
  <2>5. /\ status'[t] = "CANCELLED"
        /\ t \notin outdated' => /\ t \notin outdated /\ sawReceived[r] = receivedQty[t]
                                 /\ sawShipped[r] = shippedAt[t]
    BY <2>1, <2>3
  <2>6. \A p \in Products :
           returned[t][p] \in Nat /\ Ordered[t][p] \in Nat /\ receivedQty[t][p] \in Nat
    BY <2>1, TransferAssumption DEF Quantities
  <2>7. Row(t)' BY ONLY <2>1, <2>2, <2>3, <2>4, <2>5, <2>6 DEF Row
  <2>8. Others(t) BY <2>1, <2>2, <2>3
  <2>. QED BY <1>0, <2>1, <2>7, <2>8, OtherRows
<1>5. ASSUME NEW r \in Requests, NEW t \in Transfers,
             LoadReceive(r, t) \/ LoadCancel(r, t) \/ GiveUp(r)
      PROVE  UNCHANGED <<transfer, movement, outdated>>
  BY <1>5 DEF LoadReceive, LoadCancel, Load, GiveUp, transfer, movement
<1>6. ASSUME NEW p \in Products, Sell(p)
      PROVE  UNCHANGED <<transfer, movement, outdated>>
  BY <1>6 DEF Sell, transfer, movement
<1>7. ASSUME NEW r \in Requests, GiveUp(r)
      PROVE  UNCHANGED <<transfer, movement, outdated>>
  BY <1>7 DEF GiveUp, transfer, movement
<1>8. CASE UNCHANGED vars BY <1>0, <1>8, RowsUnchanged DEF vars
<1>. QED BY <1>0, <1>1, <1>2, <1>3, <1>4, <1>5, <1>6, <1>7, <1>8, RowsUnchanged DEF Next

-----------------------------------------------------------------------------
\* All parts together are preserved by every step.
THEOREM Inductive == Spec => []IInv
<1>1. ASSUME IInv, [Next]_vars PROVE IInv'
  <2>1. TypeOK' /\ Loaded' /\ Rows' BY <1>1, NextType, NextLoaded, NextRows
  <2>. QED BY <2>1 DEF IInv, Rows
<1>. QED BY InitInv, <1>1, PTL DEF Spec

\* The variables keep their types; the origin is never short of stock.
THEOREM TypeCorrect == Spec => []TypeOK
<1>1. IInv => TypeOK BY DEF IInv
<1>. QED BY <1>1, Inductive, PTL

\* Movements and lines agree unless an outdated read was written.
THEOREM MovementsAreLines == Spec => []MovementsMatchLines
<1>1. IInv => MovementsMatchLines BY DEF IInv
<1>. QED BY <1>1, Inductive, PTL

\* Nothing arrives or comes back that never left.
THEOREM OnlyShippedMoves == Spec => []NothingMovesUnshipped
<1>1. IInv => NothingMovesUnshipped BY DEF IInv
<1>. QED BY <1>1, Inductive, PTL

\* RECEIVED means that no line is short, and no line exceeds its order.
THEOREM StatusIsReceipt == Spec => []StatusFollowsLines
<1>1. IInv => StatusFollowsLines BY DEF IInv
<1>. QED BY <1>1, Inductive, PTL

\* A closed transfer stays as it is.
THEOREM ClosedStays == Spec => ClosedIsFinal
<1>. DEFINE Final == \A t \in Transfers :
              status[t] \in {"RECEIVED", "CANCELLED"}
                => /\ status'[t] = status[t]
                   /\ receivedQty'[t] = receivedQty[t]
                   /\ credited'[t] = credited[t] /\ returned'[t] = returned[t]
<1>1. ASSUME IInv, [Next]_vars PROVE Final
  <2>. USE <1>1 DEF IInv, TypeOK, transfer, stock, movement, request
  <2>1. ASSUME NEW t \in Transfers, Create(t) \/ Approve(t) \/ Ship(t) PROVE Final
    BY <2>1 DEF Create, Approve, Ship, ApproveClaims, ShipClaims
  <2>2. ASSUME NEW r \in Requests, Receive(r) PROVE Final
    <3>1. /\ status[on[r]] \in {"IN_TRANSIT", "PARTIAL"}
          /\ \A t \in Transfers \ {on[r]} :
                status'[t] = status[t] /\ receivedQty'[t] = receivedQty[t]
                /\ credited'[t] = credited[t] /\ returned'[t] = returned[t]
      BY <2>2 DEF Receive, ReceiveClaims
    <3>. QED BY <3>1
  <2>3. ASSUME NEW r \in Requests, Cancel(r) PROVE Final
    <3>1. /\ status[on[r]] \in {"PENDING", "IN_TRANSIT", "PARTIAL"}
          /\ \A t \in Transfers \ {on[r]} : status'[t] = status[t]
          /\ UNCHANGED <<receivedQty, credited>>
      BY <2>3 DEF Cancel, CancelClaims
    <3>2. \A t \in Transfers \ {on[r]} : returned'[t] = returned[t]
      BY <2>3, CancelReturns
    <3>. QED BY <3>1, <3>2
  <2>4. ASSUME NEW r \in Requests, NEW t \in Transfers,
               LoadReceive(r, t) \/ LoadCancel(r, t)
        PROVE  Final
    BY <2>4 DEF LoadReceive, LoadCancel, Load
  <2>5. ASSUME NEW r \in Requests, GiveUp(r) PROVE Final BY <2>5 DEF GiveUp
  <2>6. ASSUME NEW p \in Products, Sell(p) PROVE Final BY <2>6 DEF Sell
  <2>7. CASE UNCHANGED vars BY <2>7 DEF vars
  <2>. QED BY <2>1, <2>2, <2>3, <2>4, <2>5, <2>6, <2>7 DEF Next
<1>2. IInv /\ [Next]_vars => [Final]_vars BY <1>1
<1>. QED BY <1>2, Inductive, PTL DEF Spec, ClosedIsFinal
-----------------------------------------------------------------------------
(* The stock.                                                               *)

\* What is on its way from the origin, of one product.
Underway(p) == [t \in Transfers |->
                  IF shippedAt[t] THEN Ordered[t][p] - receivedQty[t][p] ELSE 0]

\* Every unit is in one of the four places.
UnitsOf(p) == origin[p] + sold[p] + dest[p] + SumOver(Underway(p), Transfers)
StockSum == outdated = {} => \A p \in Products : UnitsOf(p) = Stock[p]

\* The sum the property states is the sum of what is on its way.
LEMMA UnderwaySum ==
    ASSUME NEW p \in Products
    PROVE  MapThenSumSet(LAMBDA t : IF shippedAt[t]
                                    THEN Ordered[t][p] - receivedQty[t][p]
                                    ELSE 0, Transfers)
             = SumOver(Underway(p), Transfers)
<1>. DEFINE pick(T) == CHOOSE x \in T : TRUE
            value(t) == IF shippedAt[t] THEN Ordered[t][p] - receivedQty[t][p] ELSE 0
            F(iter) == [T \in SUBSET Transfers |->
                          IF T = {} THEN 0 ELSE value(pick(T)) + iter[T \ {pick(T)}]]
            G(iter) == [T \in SUBSET Transfers |->
                          IF T = {} THEN 0
                          ELSE Underway(p)[pick(T)] + iter[T \ {pick(T)}]]
<1>1. ASSUME NEW iter PROVE F(iter) = G(iter)
  <2>1. ASSUME NEW T \in SUBSET Transfers, T # {}
        PROVE  Underway(p)[pick(T)] = value(pick(T))
    <3>1. pick(T) \in Transfers BY <2>1
    <3>. HIDE DEF pick
    <3>. QED BY <3>1 DEF Underway
  <2>. HIDE DEF pick, value
  <2>. QED BY <2>1
<1>2. (CHOOSE iter : iter = F(iter)) = (CHOOSE iter : iter = G(iter))
  <2>. HIDE DEF F, G
  <2>. QED BY <1>1
<1>3. MapThenSumSet(LAMBDA t : value(t), Transfers) = (CHOOSE iter : iter = F(iter))[Transfers]
  BY DEF MapThenSumSet, MapThenFoldSet
<1>4. SumOver(Underway(p), Transfers) = (CHOOSE iter : iter = G(iter))[Transfers]
  BY DEF SumOver, MapThenSumSet, MapThenFoldSet
<1>. QED BY <1>2, <1>3, <1>4
\* What is on its way are integers, and a transfer changes its own part only.
LEMMA UnderwayType ==
    ASSUME TypeOK, NEW p \in Products
    PROVE  \A t \in Transfers :
              /\ Underway(p)[t] = IF shippedAt[t]
                                  THEN Ordered[t][p] - receivedQty[t][p] ELSE 0
              /\ Underway(p)[t] \in Int
<1>1. ASSUME NEW t \in Transfers
      PROVE  Ordered[t][p] \in Nat /\ receivedQty[t][p] \in Nat
  BY TransferAssumption DEF TypeOK, Quantities
<1>. QED BY <1>1 DEF Underway

\* A shipment moves units from the origin onto the way, a receipt from the way
\* to the destination; nothing else that touches the lines touches the stock.
LEMMA UnitsMove ==
    ASSUME TypeOK, TypeOK', NEW p \in Products, NEW t \in Transfers,
           \A u \in Transfers \ {t} : /\ shippedAt'[u] = shippedAt[u]
                                      /\ receivedQty'[u] = receivedQty[u],
           origin'[p] + sold'[p] + dest'[p] + Underway(p)'[t]
             = origin[p] + sold[p] + dest[p] + Underway(p)[t]
    PROVE  UnitsOf(p)' = UnitsOf(p)
<1>. DEFINE f == Underway(p)
            g == Underway(p)'
<1>0. IsFiniteSet(Transfers) BY TransferAssumption
<1>1. \A u \in Transfers : f[u] \in Int BY UnderwayType
<1>2. g[t] \in Int
  <2>1. Ordered[t][p] \in Nat /\ receivedQty'[t][p] \in Nat
    BY TransferAssumption DEF TypeOK, Quantities
  <2>. QED BY <2>1 DEF Underway
<1>3. \A u \in Transfers \ {t} : g[u] = f[u] BY DEF Underway
<1>4. SumOver(f, Transfers) \in Int
  <2>. HIDE DEF f
  <2>. QED BY <1>0, <1>1, SumIsInt
<1>5. SumOver(g, Transfers) = SumOver(f, Transfers) - f[t] + g[t]
  <2>. HIDE DEF f, g
  <2>. QED BY <1>0, <1>1, <1>2, <1>3, SumChanged
<1>6. /\ origin[p] \in Int /\ sold[p] \in Int /\ dest[p] \in Int
      /\ origin'[p] \in Int /\ sold'[p] \in Int /\ dest'[p] \in Int /\ f[t] \in Int
  BY <1>1 DEF TypeOK, Quantities
<1>7. /\ UnitsOf(p) = origin[p] + sold[p] + dest[p] + SumOver(f, Transfers)
      /\ UnitsOf(p)' = origin'[p] + sold'[p] + dest'[p] + SumOver(g, Transfers)
  BY DEF UnitsOf
<1>. HIDE DEF f, g
<1>. QED BY <1>2, <1>4, <1>5, <1>6, <1>7 DEF f, g

\* No unit is lost or doubled in any step that writes what it has just read.
LEMMA NextUnits ==
    ASSUME IInv, TypeOK', [Next]_vars, outdated' = {}, NEW p \in Products
    PROVE  UnitsOf(p)' = UnitsOf(p)
<1>. USE DEF IInv
<1>1. ASSUME UNCHANGED <<origin, sold, dest, shippedAt, receivedQty>>
      PROVE  UnitsOf(p)' = UnitsOf(p)
  BY <1>1 DEF UnitsOf, Underway
<1>2. ASSUME NEW t \in Transfers, Create(t) \/ Approve(t) PROVE UnitsOf(p)' = UnitsOf(p)
  BY <1>1, <1>2 DEF Create, Approve, stock
<1>3. ASSUME NEW t \in Transfers, Ship(t) PROVE UnitsOf(p)' = UnitsOf(p)
  <2>1. /\ ~shippedAt[t] /\ shippedAt'[t] /\ UNCHANGED <<receivedQty, sold, dest>>
        /\ \A u \in Transfers \ {t} : shippedAt'[u] = shippedAt[u]
        /\ origin'[p] = origin[p] - Ordered[t][p]
    BY <1>3 DEF Ship, ShipClaims, TypeOK
  <2>2. receivedQty[t][p] = 0 BY <1>3 DEF Ship, ShipClaims, Stages
  <2>3. Underway(p)[t] = 0 /\ Underway(p)'[t] = Ordered[t][p] - 0
    BY <2>1, <2>2 DEF Underway
  <2>4. /\ Ordered[t][p] \in Nat /\ origin[p] \in Nat /\ sold[p] \in Nat /\ dest[p] \in Nat
    BY TransferAssumption DEF TypeOK, Quantities
  <2>5. origin'[p] + sold'[p] + dest'[p] + Underway(p)'[t]
          = origin[p] + sold[p] + dest[p] + Underway(p)[t]
    BY <2>1, <2>3, <2>4
  <2>. QED BY <2>1, <2>5, UnitsMove
<1>4. ASSUME NEW r \in Requests, Receive(r) PROVE UnitsOf(p)' = UnitsOf(p)
  <2>0. PICK t \in Transfers : t = on[r] BY <1>4 DEF Receive, Loaded
  <2>1. shippedAt[t] BY <1>4, <2>0 DEF Receive, ReceiveClaims
  <2>2. sawReceived[r] = receivedQty[t] BY <1>4, <2>0 DEF Receive, Outgrown
  <2>3. PICK lines \in Quantities :
           /\ receivedQty' = [receivedQty EXCEPT ![t] = lines]
           /\ \A q \in Products : sawReceived[r] = receivedQty[t]
                 => lines[q] = receivedQty[t][q] + batch[r][q]
    BY <1>4, <2>0, ReceiptLines
  <2>4. /\ UNCHANGED <<origin, sold, shippedAt>>
        /\ dest' = Plus(dest, batch[r])
    BY <1>4 DEF Receive
  <2>5. dest'[p] = dest[p] + batch[r][p] BY <2>4, PlusType DEF TypeOK
  <2>6. /\ receivedQty'[t][p] = receivedQty[t][p] + batch[r][p]
        /\ \A u \in Transfers \ {t} : receivedQty'[u] = receivedQty[u]
    BY <2>2, <2>3 DEF TypeOK
  <2>7. /\ Underway(p)[t] = Ordered[t][p] - receivedQty[t][p]
        /\ Underway(p)'[t] = Ordered[t][p] - receivedQty'[t][p]
    BY <2>1, <2>4 DEF Underway
  <2>8. /\ Ordered[t][p] \in Nat /\ receivedQty[t][p] \in Nat /\ batch[r][p] \in Nat
        /\ origin[p] \in Nat /\ sold[p] \in Nat /\ dest[p] \in Nat
    BY TransferAssumption DEF TypeOK, Quantities
  <2>9. origin'[p] + sold'[p] + dest'[p] + Underway(p)'[t]
          = origin[p] + sold[p] + dest[p] + Underway(p)[t]
    BY <2>4, <2>5, <2>6, <2>7, <2>8
  <2>. QED BY <2>4, <2>6, <2>9, UnitsMove
<1>5. ASSUME NEW r \in Requests, Cancel(r) \/ GiveUp(r) PROVE UnitsOf(p)' = UnitsOf(p)
  BY <1>1, <1>5 DEF Cancel, GiveUp, transfer, stock
<1>6. ASSUME NEW r \in Requests, NEW t \in Transfers, LoadReceive(r, t) \/ LoadCancel(r, t)
      PROVE  UnitsOf(p)' = UnitsOf(p)
  BY <1>1, <1>6 DEF LoadReceive, LoadCancel, Load, transfer, stock
<1>7. ASSUME NEW q \in Products, Sell(q) PROVE UnitsOf(p)' = UnitsOf(p)
  <2>1. /\ origin' = [origin EXCEPT ![q] = @ - 1] /\ sold' = [sold EXCEPT ![q] = @ + 1]
        /\ UNCHANGED <<dest, shippedAt, receivedQty>>
    BY <1>7 DEF Sell, transfer
  <2>2. origin[p] \in Nat /\ sold[p] \in Nat /\ dest[p] \in Nat BY DEF TypeOK, Quantities
  <2>3. origin'[p] + sold'[p] = origin[p] + sold[p]
    BY <2>1, <2>2 DEF TypeOK, Quantities
  <2>4. SumOver(Underway(p), Transfers)' = SumOver(Underway(p), Transfers)
    BY <2>1 DEF Underway
  <2>. QED BY <2>1, <2>3, <2>4 DEF UnitsOf
<1>8. CASE UNCHANGED vars BY <1>1, <1>8 DEF vars, transfer, stock
<1>. QED BY <1>2, <1>3, <1>4, <1>5, <1>6, <1>7, <1>8 DEF Next

\* No unit is lost or doubled between origin, tills, shipments and destination.
THEOREM StockIsConserved == Spec => []StockAddsUp
<1>1. Init => StockSum
  <2>. SUFFICES ASSUME Init, NEW p \in Products PROVE UnitsOf(p) = Stock[p]
    BY DEF StockSum
  <2>1. \A t \in Transfers : Underway(p)[t] = 0 BY DEF Init, Underway
  <2>2. SumOver(Underway(p), Transfers) = 0 BY <2>1, SumOfZeros, TransferAssumption
  <2>3. origin[p] = Stock[p] /\ sold[p] = 0 /\ dest[p] = 0 /\ Stock[p] \in Nat
    BY NoItemsType, TransferAssumption DEF Init
  <2>. QED BY <2>2, <2>3 DEF UnitsOf
<1>2. ASSUME IInv, IInv', StockSum, [Next]_vars PROVE StockSum'
  <2>. SUFFICES ASSUME outdated' = {}, NEW p \in Products PROVE UnitsOf(p)' = Stock[p]
    BY DEF StockSum
  <2>1. outdated = {}
    <3>1. outdated \subseteq outdated'
      BY <1>2 DEF Next, Create, Approve, Ship, LoadReceive, LoadCancel, Load, Receive,
         Cancel, Outgrown, GiveUp, Sell, vars
    <3>. QED BY <3>1
  <2>2. UnitsOf(p) = Stock[p] BY <1>2, <2>1 DEF StockSum
  <2>. QED BY <1>2, <2>2, NextUnits DEF IInv
<1>3. StockSum => StockAddsUp
  <2>. SUFFICES ASSUME StockSum, outdated = {}, NEW p \in Products
                PROVE  origin[p] + sold[p] + dest[p]
                         + MapThenSumSet(LAMBDA t : IF shippedAt[t]
                                                    THEN Ordered[t][p] - receivedQty[t][p]
                                                    ELSE 0, Transfers) = Stock[p]
    BY DEF StockAddsUp
  <2>. QED BY UnderwaySum DEF StockSum, UnitsOf
<1>. QED BY <1>1, <1>2, <1>3, Inductive, PTL DEF Spec

=============================================================================
