--------------------------- MODULE StoreTransfer ----------------------------
(***************************************************************************)
(* Moving stock from one store to another:                                  *)
(*   api/store-transfers/route.ts       create                              *)
(*   api/store-transfers/[id]/route.ts  approve, ship, receive, cancel      *)
(*                                                                         *)
(* Each step is one database transaction that first claims the status of    *)
(* the transfer, so two of them never overlap. What receive and cancel write *)
(* they compute from the transfer as the request loaded it before: that     *)
(* read and the transaction are separate actions here. Stock is kept twice, *)
(* in Product.quantityInStock, which is what the tills sell from, and in    *)
(* the older Inventory table; at the destination both are credited alike,   *)
(* and the model keeps the first.                                           *)
(***************************************************************************)
EXTENDS Integers, FiniteSets, FiniteSetsExt

CONSTANTS
    Transfers,      \* the transfers that may be created
    Products,       \* the products of the origin store
    Requests,       \* receive and cancel requests in progress
    Ordered,        \* item.quantity, per transfer and product; 0: not a line
    Stock,          \* quantityInStock of each product at the start
    LegacyRows,     \* products that have a row in the Inventory table
    None            \* no transfer

ASSUME TransferAssumption ==
    /\ IsFiniteSet(Transfers)
    /\ Ordered \in [Transfers -> [Products -> Nat]]
    /\ \A t \in Transfers : \E p \in Products : Ordered[t][p] > 0
    /\ Stock \in [Products -> Nat]
    /\ LegacyRows \subseteq Products
    /\ None \notin Transfers

VARIABLES
    status,         \* storeTransfer.status, "NONE" before the create
    shippedAt,      \* storeTransfer.shippedAt is set
    receivedQty,    \* storeTransferItem.receivedQty
    origin,         \* Product.quantityInStock at the origin
    inventory,      \* Inventory.quantityInStock at the origin
    dest,           \* Product.quantityInStock of the copies at the destination
    credited,       \* movements of a transfer at the destination, summed up
    returned,       \* compensating movements at the origin, summed up
    sold,           \* what the tills of the origin store sold
    pc,             \* what a request is about to do
    on,             \* the transfer it is about
    sawReceived,    \* receivedQty when it was loaded
    sawShipped,     \* shippedAt when it was loaded
    batch,          \* the quantities of a receipt
    outdated        \* history: transfers written from a read they had outgrown

transfer == <<status, shippedAt, receivedQty>>
stock    == <<origin, inventory, dest, sold>>
movement == <<credited, returned>>
request  == <<pc, on, sawReceived, sawShipped, batch>>
vars     == <<transfer, stock, movement, request, outdated>>

-----------------------------------------------------------------------------
Statuses == {"NONE", "PENDING", "IN_TRANSIT", "PARTIAL", "RECEIVED", "CANCELLED"}
Quantities == [Products -> Nat]
NoItems == [p \in Products |-> 0]

TypeOK ==
    /\ status \in [Transfers -> Statuses]
    /\ shippedAt \in [Transfers -> BOOLEAN]
    /\ receivedQty \in [Transfers -> Quantities]
    /\ origin \in Quantities
    /\ inventory \in [Products -> Int]
    /\ dest \in Quantities
    /\ credited \in [Transfers -> Quantities]
    /\ returned \in [Transfers -> Quantities]
    /\ sold \in Quantities
    /\ pc \in [Requests -> {"idle", "receive", "cancel"}]
    /\ on \in [Requests -> Transfers \cup {None}]
    /\ sawReceived \in [Requests -> Quantities]
    /\ sawShipped \in [Requests -> BOOLEAN]
    /\ batch \in [Requests -> Quantities]
    /\ outdated \in SUBSET Transfers

Init ==
    /\ status = [t \in Transfers |-> "NONE"]
    /\ shippedAt = [t \in Transfers |-> FALSE]
    /\ receivedQty = [t \in Transfers |-> NoItems]
    /\ origin = Stock
    /\ inventory = [p \in Products |-> IF p \in LegacyRows THEN Stock[p] ELSE 0]
    /\ dest = NoItems /\ sold = NoItems
    /\ credited = [t \in Transfers |-> NoItems]
    /\ returned = [t \in Transfers |-> NoItems]
    /\ pc = [r \in Requests |-> "idle"]
    /\ on = [r \in Requests |-> None]
    /\ sawReceived = [r \in Requests |-> NoItems]
    /\ sawShipped = [r \in Requests |-> FALSE]
    /\ batch = [r \in Requests |-> NoItems]
    /\ outdated = {}

-----------------------------------------------------------------------------
(* Mutated forms of the definitions below, one plausible bug each; the      *)
(* specification uses none of them.                                         *)

\* the ship claim forgets shippedAt: null
ShipClaimsTwice(t) == status[t] = "IN_TRANSIT"
\* the decrement of the origin's stock has no guard
ShipsRegardless(t) == TRUE
\* the cancel claim goes by id alone, the status was checked before
CancelClaimsAnything(t) == TRUE
\* a transfer counts as received once anything has arrived
CompleteOnFirst(t, q) == \E p \in Products : q[p] > 0
\* a cancel returns what was ordered, whatever has arrived
ReturnsAll(r, p) == Ordered[on[r]][p]

-----------------------------------------------------------------------------
(* The claims, and what is computed from the loaded transfer.               *)

ApproveClaims(t) == status[t] = "PENDING"
ShipClaims(t) == status[t] = "IN_TRANSIT" /\ ~shippedAt[t]
InStock(t) == \A p \in Products : origin[p] >= Ordered[t][p]
ReceiveClaims(t) == status[t] \in {"IN_TRANSIT", "PARTIAL"} /\ shippedAt[t]
CancelClaims(t) == status[t] \in {"PENDING", "IN_TRANSIT", "PARTIAL"}

\* No line is short any more.
Complete(t, q) == \A p \in Products : q[p] >= Ordered[t][p]

\* The line totals a receipt writes: what was loaded plus the batch.
NewTotals(seen, b) == [p \in Products |-> seen[p] + b[p]]

\* The remainder a cancel returns: what was not received when it was loaded.
Outstanding(r, p) == Ordered[on[r]][p] - sawReceived[r][p]

Plus(f, g) == [p \in Products |-> f[p] + g[p]]

-----------------------------------------------------------------------------
Create(t) ==
    /\ status[t] = "NONE"
    /\ status' = [status EXCEPT ![t] = "PENDING"]
    /\ UNCHANGED <<shippedAt, receivedQty, stock, movement, request, outdated>>

Approve(t) ==
    /\ ApproveClaims(t)
    /\ status' = [status EXCEPT ![t] = "IN_TRANSIT"]
    /\ UNCHANGED <<shippedAt, receivedQty, stock, movement, request, outdated>>

\* One line short of stock aborts the whole shipment.
Ship(t) ==
    /\ ShipClaims(t)
    /\ InStock(t)
    /\ shippedAt' = [shippedAt EXCEPT ![t] = TRUE]
    /\ origin' = [p \in Products |-> origin[p] - Ordered[t][p]]
    /\ inventory' = [p \in Products |->
          IF p \in LegacyRows THEN inventory[p] - Ordered[t][p] ELSE inventory[p]]
    /\ UNCHANGED <<status, receivedQty, dest, sold, movement, request, outdated>>

\* A request loads the transfer and checks it: a receipt, by its status and
\* by what is still to come on each line.
Load(r, t) ==
    /\ pc[r] = "idle"
    /\ on' = [on EXCEPT ![r] = t]
    /\ sawReceived' = [sawReceived EXCEPT ![r] = receivedQty[t]]
    /\ sawShipped' = [sawShipped EXCEPT ![r] = shippedAt[t]]
    /\ UNCHANGED <<transfer, stock, movement, outdated>>

LoadReceive(r, t) ==
    /\ status[t] \in {"IN_TRANSIT", "PARTIAL"}
    /\ \E b \in [Products -> UNION {0..Ordered[t][p] : p \in Products}] :
          /\ \A p \in Products : receivedQty[t][p] + b[p] <= Ordered[t][p]
          /\ batch' = [batch EXCEPT ![r] = b]
    /\ pc' = [pc EXCEPT ![r] = "receive"]
    /\ Load(r, t)

LoadCancel(r, t) ==
    /\ status[t] \in {"PENDING", "IN_TRANSIT", "PARTIAL"}
    /\ pc' = [pc EXCEPT ![r] = "cancel"]
    /\ Load(r, t)
    /\ UNCHANGED batch

\* The request is over, answered or dead.
End(r) ==
    /\ pc' = [pc EXCEPT ![r] = "idle"]
    /\ on' = [on EXCEPT ![r] = None]
    /\ sawReceived' = [sawReceived EXCEPT ![r] = NoItems]
    /\ sawShipped' = [sawShipped EXCEPT ![r] = FALSE]
    /\ batch' = [batch EXCEPT ![r] = NoItems]

Outgrown(r) ==
    outdated' = outdated \cup {t \in {on[r]} :
        sawReceived[r] # receivedQty[t] \/ sawShipped[r] # shippedAt[t]}

\* Lines without a quantity in the batch are not written.
Receive(r) ==
    /\ pc[r] = "receive"
    /\ ReceiveClaims(on[r])
    /\ LET t == on[r]
           totals == NewTotals(sawReceived[r], batch[r])
           lines == [p \in Products |->
                       IF batch[r][p] = 0 THEN receivedQty[t][p] ELSE totals[p]]
       IN  /\ receivedQty' = [receivedQty EXCEPT ![t] = lines]
           /\ status' = [status EXCEPT ![t] =
                           IF Complete(t, lines) THEN "RECEIVED" ELSE "PARTIAL"]
           /\ dest' = Plus(dest, batch[r])
           /\ credited' = [credited EXCEPT ![t] = Plus(@, batch[r])]
    /\ Outgrown(r)
    /\ End(r)
    /\ UNCHANGED <<shippedAt, origin, inventory, sold, returned>>

\* The remainder goes to the Inventory row, where there is one.
Cancel(r) ==
    /\ pc[r] = "cancel"
    /\ CancelClaims(on[r])
    /\ status' = [status EXCEPT ![on[r]] = "CANCELLED"]
    /\ IF sawShipped[r]
       THEN LET back == [p \in Products |-> Outstanding(r, p)]
            IN  /\ inventory' = [p \in Products |->
                      IF p \in LegacyRows THEN inventory[p] + back[p]
                                          ELSE inventory[p]]
                /\ returned' = [returned EXCEPT ![on[r]] = Plus(@, back)]
       ELSE UNCHANGED <<inventory, returned>>
    /\ Outgrown(r)
    /\ End(r)
    /\ UNCHANGED <<shippedAt, receivedQty, origin, dest, sold, credited>>

\* The claim finds the transfer moved on, or the process dies before it.
GiveUp(r) ==
    /\ pc[r] # "idle"
    /\ End(r)
    /\ UNCHANGED <<transfer, stock, movement, outdated>>

\* A till of the origin store sells a unit: the checkout's guarded decrement.
Sell(p) ==
    /\ origin[p] >= 1
    /\ origin' = [origin EXCEPT ![p] = @ - 1]
    /\ sold' = [sold EXCEPT ![p] = @ + 1]
    /\ UNCHANGED <<transfer, inventory, dest, movement, request, outdated>>

Next ==
    \/ \E t \in Transfers : Create(t) \/ Approve(t) \/ Ship(t)
    \/ \E r \in Requests, t \in Transfers : LoadReceive(r, t) \/ LoadCancel(r, t)
    \/ \E r \in Requests : Receive(r) \/ Cancel(r) \/ GiveUp(r)
    \/ \E p \in Products : Sell(p)

Spec == Init /\ [][Next]_vars

-----------------------------------------------------------------------------
(* Safety.                                                                  *)

\* What moved agrees with what the lines say, unless the transfer was written
\* from a read it had outgrown: the destination was credited with what was
\* received, never more than was ordered, and a cancelled shipment has the
\* rest on record as returned.
MovementsMatchLines ==
    \A t \in Transfers \ outdated, p \in Products :
        /\ credited[t][p] = receivedQty[t][p]
        /\ returned[t][p] = IF status[t] = "CANCELLED" /\ shippedAt[t]
                            THEN Ordered[t][p] - receivedQty[t][p] ELSE 0

\* Nothing arrives, and nothing is returned, that never left the origin.
NothingMovesUnshipped ==
    \A t \in Transfers, p \in Products :
        ~shippedAt[t] => credited[t][p] = 0 /\ returned[t][p] = 0

\* The status follows the lines also when receipts overlap: RECEIVED exactly
\* when no line is short, and a complete transfer is never cancelled.
StatusFollowsLines ==
    \A t \in Transfers :
        /\ status[t] = "RECEIVED" <=> receivedQty[t] = Ordered[t]
        /\ \A p \in Products : receivedQty[t][p] <= Ordered[t][p]

\* Every unit is in the origin, sold there, in the destination, or on a
\* shipment that has not delivered it, as long as no outdated read was
\* written: shipping twice, or receiving what was cancelled, would show here.
StockAddsUp ==
    outdated = {} =>
        \A p \in Products :
            origin[p] + sold[p] + dest[p]
              + MapThenSumSet(LAMBDA t : IF shippedAt[t]
                                         THEN Ordered[t][p] - receivedQty[t][p]
                                         ELSE 0, Transfers)
            = Stock[p]

\* A closed transfer moves nothing any more, whatever a request that loaded
\* it earlier has in mind.
ClosedIsFinal ==
    [][\A t \in Transfers :
          status[t] \in {"RECEIVED", "CANCELLED"}
              => /\ status'[t] = status[t]
                 /\ receivedQty'[t] = receivedQty[t]
                 /\ credited'[t] = credited[t] /\ returned'[t] = returned[t]]_vars

-----------------------------------------------------------------------------
(* What the comments of the code claim.                                     *)

\* "cancelled - with the un-received remainder restored to origin"
\* ([id]/route.ts:17), where the origin sells from Product.quantityInStock.
\* Cancels of a transfer that moved on since it was loaded are left aside.
CancelRestoresStock ==
    [][\A t \in Transfers :
          status[t] # "CANCELLED" /\ status'[t] = "CANCELLED" /\ shippedAt[t]
            /\ t \notin outdated'
              => \A p \in Products :
                    origin'[p] = origin[p] + Ordered[t][p] - receivedQty[t][p]]_vars

=============================================================================
