----------------------------- MODULE StkPayment -----------------------------
(***************************************************************************)
(* M-Pesa STK payment of one sale:                                          *)
(*   app/api/transactions/route.ts            the MPESA checkout            *)
(*   lib/outbox-handlers.ts                   the push after the commit     *)
(*   lib/mpesa-daraja.ts                      initiateStkPush               *)
(*   app/api/payments/mpesa/stkpush           a push a cashier asks for     *)
(*   app/api/payments/mpesa/callback          Safaricom's result            *)
(*   app/api/payments/mpesa/status            the client's poll             *)
(*   app/api/cron/payments-sweeper            expiry of rows without a push *)
(*                                                                         *)
(* A push is known by its CheckoutRequestID, a number from 1 on; a row that *)
(* has none of Safaricom's (null, empty or simulated) holds 0. Rows are     *)
(* numbered in the order of their creation, 0 stands for no row.            *)
(***************************************************************************)
EXTENDS Naturals, FiniteSets

CONSTANTS
    Pump,        \* the loop that delivers the sale's MPESA_STK_PUSH event
    Cashiers,    \* concurrent calls of POST /payments/mpesa/stkpush
    MaxRows,     \* bound: mpesaTransaction rows
    MaxPushes,   \* bound: pushes Safaricom accepts
    Mismatched,  \* pushes for which Safaricom reports another amount
    MaxInHand,   \* bound: callbacks and status queries in hand at a time
    MaxFaults    \* bound: deaths, lost responses and lost updates

Senders == Cashiers \cup {Pump}
Rows    == 1..MaxRows
Pushes  == 1..MaxPushes
NoRow   == 0
NoPush  == 0

ASSUME StkAssumption ==
    /\ Pump \notin Cashiers
    /\ MaxRows \in Nat \ {0}
    /\ MaxPushes \in Nat \ {0}
    /\ Mismatched \subseteq Pushes
    /\ MaxInHand \in Nat
    /\ MaxFaults \in Nat

VARIABLES
    sale,         \* salesTransaction.paymentStatus, "none" before checkout
    restocked,    \* the automatic restock was written
    journal,      \* the sale's journal entry: "pending", "posted", "voided"
    event,        \* the outbox event's status, "none" before checkout
    status,       \* mpesaTransaction.status, "none" before the create
    checkoutId,   \* mpesaTransaction.checkoutRequestId
    callback,     \* mpesaTransaction.callbackReceived
    linked,       \* rows with the sale's transactionId
    aged,         \* rows older than STALE_AFTER_MINUTES
    push,         \* Safaricom's view of a push
    results,      \* pushes whose result is posted, not lost, not acknowledged
    applying,     \* callbacks past the terminal-state gate, with their row
    polling,      \* status queries: the row and the status they will write
    pc, forSale, found, sent,  \* per sender: next step, whether it names the
                  \*   sale, the row it found, the id it was given
    sweeping,     \* rows a sweep read and has not claimed yet
    flipping,     \* a sweep claimed a row, its sale is not updated yet
    swept,        \* history: rows a sweep claimed
    forgotten,    \* history: pushes whose id was lost before it was written
    overwritten,  \* history: pushes whose id another push replaced on the row
    halfSwept,    \* history: a sweep died between its two updates
    faults        \* how often a fault happened, bounded

saleVars   == <<sale, restocked, journal, event>>
rowVars    == <<status, checkoutId, callback, linked, aged>>
netVars    == <<push, results, applying, polling>>
senderVars == <<pc, forSale, found, sent>>
sweepVars  == <<sweeping, flipping, swept>>
history    == <<forgotten, overwritten, halfSwept>>
vars == <<saleVars, rowVars, netVars, senderVars, sweepVars, history, faults>>

-----------------------------------------------------------------------------
Created == {r \in Rows : status[r] # "none"}
NewRow == Cardinality(Created) + 1
NewPush == Cardinality({p \in Pushes : push[p] # "none"}) + 1
InHand == Cardinality(applying) + Cardinality(polling)
Paid(p) == push[p] = "paid"

(* Mutated forms of the definitions below, one plausible bug each; the      *)
(* specification uses none of them.                                         *)

\* a simulated row is given a status of its own
MarksSimulated(s) == IF sent[s] = NoPush THEN "SIMULATED" ELSE "PROCESSING"
\* a row that has an id keeps it
KeepsFirstId(s) ==
    IF checkoutId[found[s]] # NoPush THEN checkoutId[found[s]] ELSE sent[s]
\* the sweep expires only rows that carry an id
RowsWithId ==
    {r \in linked \cap aged : status[r] = "PENDING" /\ sale = "PENDING"
                              /\ checkoutId[r] # NoPush}
\* the sweep's claim goes by id alone
ClaimsById(r) == TRUE

-----------------------------------------------------------------------------
Statuses == {"none", "PENDING", "PROCESSING", "COMPLETED", "FAILED", "CANCELLED"}

TypeOK ==
    /\ sale \in {"none", "PENDING", "COMPLETED", "FAILED"}
    /\ restocked \in BOOLEAN
    /\ journal \in {"pending", "posted", "voided"}
    /\ event \in {"none", "PENDING", "PROCESSING", "COMPLETED"}
    /\ status \in [Rows -> Statuses]
    /\ checkoutId \in [Rows -> Pushes \cup {NoPush}]
    /\ callback \in [Rows -> BOOLEAN]
    /\ linked \in SUBSET Rows
    /\ aged \in SUBSET Rows
    /\ push \in [Pushes -> {"none", "prompted", "paid", "declined"}]
    /\ results \in SUBSET Pushes
    /\ applying \in SUBSET (Pushes \X Rows)
    /\ polling \in SUBSET (Rows \X Statuses)
    /\ pc \in [Senders -> {"idle", "find", "send", "record", "complete"}]
    /\ forSale \in [Senders -> BOOLEAN]
    /\ found \in [Senders -> Rows \cup {NoRow}]
    /\ sent \in [Senders -> Pushes \cup {NoPush}]
    /\ sweeping \in SUBSET Rows
    /\ flipping \in BOOLEAN
    /\ swept \in SUBSET Rows
    /\ forgotten \in SUBSET Pushes
    /\ overwritten \in SUBSET Pushes
    /\ halfSwept \in BOOLEAN
    /\ faults \in 0..MaxFaults

Init ==
    /\ sale = "none" /\ restocked = FALSE /\ journal = "pending"
    /\ event = "none"
    /\ status = [r \in Rows |-> "none"]
    /\ checkoutId = [r \in Rows |-> NoPush]
    /\ callback = [r \in Rows |-> FALSE]
    /\ linked = {} /\ aged = {}
    /\ push = [p \in Pushes |-> "none"]
    /\ results = {} /\ applying = {} /\ polling = {}
    /\ pc = [s \in Senders |-> "idle"]
    /\ forSale = [s \in Senders |-> FALSE]
    /\ found = [s \in Senders |-> NoRow]
    /\ sent = [s \in Senders |-> NoPush]
    /\ sweeping = {} /\ flipping = FALSE /\ swept = {}
    /\ forgotten = {} /\ overwritten = {} /\ halfSwept = FALSE
    /\ faults = 0

Fault == faults < MaxFaults /\ faults' = faults + 1

-----------------------------------------------------------------------------
(* Checkout and initiateStkPush.                                            *)

\* The checkout transaction: sale, unposted journal, PENDING row and event.
Checkout ==
    /\ sale = "none"
    /\ NewRow \in Rows
    /\ sale' = "PENDING"
    /\ event' = "PENDING"
    /\ status' = [status EXCEPT ![NewRow] = "PENDING"]
    /\ linked' = linked \cup {NewRow}
    /\ UNCHANGED <<restocked, journal, checkoutId, callback, aged, netVars,
                   senderVars, sweepVars, history, faults>>

Begin(s, names) ==
    /\ pc[s] = "idle"
    /\ pc' = [pc EXCEPT ![s] = "find"]
    /\ forSale' = [forSale EXCEPT ![s] = names]
    /\ UNCHANGED <<found, sent>>

\* The pump claims the event and calls its handler.
PumpClaims ==
    /\ event = "PENDING"
    /\ event' = "PROCESSING"
    /\ Begin(Pump, TRUE)
    /\ UNCHANGED <<sale, restocked, journal, rowVars, netVars, sweepVars,
                   history, faults>>

\* A cashier asks for a push, for the sale or (as the till does) for none.
\* The client sends no idempotencyKey, so nothing is looked up first. Calls
\* are bounded by the rows left for them.
CashierAsks(c) ==
    /\ \E names \in BOOLEAN : (names => sale # "none") /\ Begin(c, names)
    /\ Cardinality(Created) + Cardinality({s \in Senders : pc[s] # "idle"})
          + (IF sale = "none" THEN 2 ELSE 1) < MaxRows
    /\ UNCHANGED <<saleVars, rowVars, netVars, sweepVars, history, faults>>

\* The PENDING row checkout created for the sale, if the call names the sale.
PendingRows(s) ==
    {r \in linked : forSale[s] /\ status[r] = "PENDING"}

FindRow(s) ==
    /\ pc[s] = "find"
    /\ pc' = [pc EXCEPT ![s] = "send"]
    /\ \/ \E r \in PendingRows(s) : found' = [found EXCEPT ![s] = r]
       \/ PendingRows(s) = {} /\ found' = [found EXCEPT ![s] = NoRow]
    /\ UNCHANGED <<saleVars, rowVars, netVars, forSale, sent, sweepVars,
                   history, faults>>

Prompt(s, id) ==
    /\ pc[s] = "send"
    /\ NewPush \in Pushes
    /\ push' = [push EXCEPT ![NewPush] = "prompted"]
    /\ sent' = [sent EXCEPT ![s] = id]
    /\ pc' = [pc EXCEPT ![s] = "record"]
    /\ UNCHANGED <<saleVars, rowVars, results, applying, polling,
                   forSale, found, sweepVars, overwritten, halfSwept>>

\* Safaricom prompts the customer and the response arrives.
SendAccepted(s) == Prompt(s, NewPush) /\ UNCHANGED <<forgotten, faults>>

\* ... or the response is lost: the code falls back to a simulated id.
SendUnacknowledged(s) ==
    /\ Prompt(s, NoPush)
    /\ forgotten' = forgotten \cup {NewPush}
    /\ Fault

\* Unreachable, refused, or not configured: a simulated or an empty id.
SendFails(s) ==
    /\ pc[s] = "send"
    /\ sent' = [sent EXCEPT ![s] = NoPush]
    /\ pc' = [pc EXCEPT ![s] = "record"]
    /\ UNCHANGED <<saleVars, rowVars, netVars, forSale, found, sweepVars,
                   history, faults>>

Return(s) ==
    /\ pc' = [pc EXCEPT ![s] = IF s = Pump THEN "complete" ELSE "idle"]
    /\ found' = [found EXCEPT ![s] = NoRow]
    /\ sent' = [sent EXCEPT ![s] = NoPush]
    /\ forSale' = [forSale EXCEPT ![s] = FALSE]

SentStatus(s) == "PROCESSING"
WrittenId(s) == sent[s]

\* The row found is updated by id, whatever has become of it since.
RecordOnRow(s) ==
    /\ pc[s] = "record" /\ found[s] # NoRow
    /\ status' = [status EXCEPT ![found[s]] = SentStatus(s)]
    /\ checkoutId' = [checkoutId EXCEPT ![found[s]] = WrittenId(s)]
    /\ overwritten' = overwritten \cup ({checkoutId[found[s]]} \cap Pushes)
    /\ Return(s)
    /\ UNCHANGED <<saleVars, callback, linked, aged, netVars, sweepVars,
                   forgotten, halfSwept, faults>>

RecordOnNewRow(s) ==
    /\ pc[s] = "record" /\ found[s] = NoRow
    /\ NewRow \in Rows
    /\ status' = [status EXCEPT ![NewRow] = SentStatus(s)]
    /\ checkoutId' = [checkoutId EXCEPT ![NewRow] = sent[s]]
    /\ linked' = IF forSale[s] THEN linked \cup {NewRow} ELSE linked
    /\ Return(s)
    /\ UNCHANGED <<saleVars, callback, aged, netVars, sweepVars, history,
                   faults>>

\* The update after the push throws inside the try: simulated id instead.
RecordLost(s) ==
    /\ pc[s] = "record" /\ sent[s] # NoPush
    /\ Fault
    /\ forgotten' = forgotten \cup {sent[s]}
    /\ sent' = [sent EXCEPT ![s] = NoPush]
    /\ UNCHANGED <<saleVars, rowVars, netVars, pc, forSale, found, sweepVars,
                   overwritten, halfSwept>>

CompleteEvent ==
    /\ pc[Pump] = "complete"
    /\ pc' = [pc EXCEPT ![Pump] = "idle"]
    /\ event' = "COMPLETED"
    /\ UNCHANGED <<sale, restocked, journal, rowVars, netVars, forSale, found,
                   sent, sweepVars, history, faults>>

\* COMPLETED cannot be written: the delivered event goes back to the queue.
EventRequeued ==
    /\ pc[Pump] = "complete"
    /\ Fault
    /\ NewRow \in Rows
    /\ pc' = [pc EXCEPT ![Pump] = "idle"]
    /\ event' = "PENDING"
    /\ UNCHANGED <<sale, restocked, journal, rowVars, netVars, forSale, found,
                   sent, sweepVars, history>>

SenderDies(s) ==
    /\ pc[s] # "idle"
    /\ Fault
    /\ forgotten' = forgotten \cup ({sent[s]} \cap Pushes)
    /\ pc' = [pc EXCEPT ![s] = "idle"]
    /\ found' = [found EXCEPT ![s] = NoRow]
    /\ sent' = [sent EXCEPT ![s] = NoPush]
    /\ forSale' = [forSale EXCEPT ![s] = FALSE]
    /\ UNCHANGED <<saleVars, rowVars, netVars, sweepVars, overwritten,
                   halfSwept>>

-----------------------------------------------------------------------------
(* The customer, Safaricom, and the result callback.                        *)

\* The customer answers, or the prompt expires; Safaricom posts the result. A
\* lost result is one that is never read.
CustomerAnswers(p) ==
    /\ push[p] = "prompted"
    /\ \E outcome \in {"paid", "declined"} :
          push' = [push EXCEPT ![p] = outcome]
    /\ results' = results \cup {p}
    /\ UNCHANGED <<saleVars, rowVars, applying, polling, senderVars,
                   sweepVars, history, faults>>

RowsOf(p) == {r \in Created : checkoutId[r] = p}

\* No row has the id (yet): answered with 200, so Safaricom stops posting.
CallbackUnmatched(p) ==
    /\ p \in results /\ RowsOf(p) = {}
    /\ results' = results \ {p}
    /\ UNCHANGED <<saleVars, rowVars, push, applying, polling,
                   senderVars, sweepVars, history, faults>>

\* The read, and the gate on what was read. A result posted several times may
\* pass the gate several times before one of them is applied.
CallbackRead(p, r) ==
    /\ InHand < MaxInHand
    /\ p \in results /\ r \in RowsOf(p)
    /\ ~callback[r] /\ status[r] \notin {"COMPLETED", "FAILED"}
    /\ applying' = applying \cup {<<p, r>>}
    /\ UNCHANGED <<saleVars, rowVars, push, results, polling, senderVars,
                   sweepVars, history, faults>>

\* The atomic claim at the head of both transactions.
Claims(r) == status[r] = "PENDING" /\ ~callback[r]

\* The settlement and the compensation of the sale behind a claimed row.
SettleSale(p, r) ==
    IF r \in linked
    THEN /\ sale' = IF sale # "PENDING" THEN sale
                    ELSE IF Paid(p) THEN "COMPLETED" ELSE "FAILED"
         /\ restocked' = (restocked \/ ~Paid(p))
         /\ journal' = IF journal = "posted" THEN journal
                       ELSE IF Paid(p) THEN "posted" ELSE "voided"
         /\ UNCHANGED event
    ELSE UNCHANGED saleVars

\* Routed to reconciliation, settled or compensated, or already claimed. The
\* delivery is over, or another one that passed the gate with it follows.
CallbackApply(p, r) ==
    /\ <<p, r>> \in applying
    /\ IF Paid(p) /\ p \in Mismatched
       THEN /\ status' = [status EXCEPT ![r] = "PROCESSING"]
            /\ callback' = [callback EXCEPT ![r] = TRUE]
            /\ UNCHANGED saleVars
       ELSE IF Claims(r)
       THEN /\ status' = [status EXCEPT ![r] =
                            IF Paid(p) THEN "COMPLETED" ELSE "FAILED"]
            /\ callback' = [callback EXCEPT ![r] = TRUE]
            /\ SettleSale(p, r)
       ELSE UNCHANGED <<status, callback, saleVars>>
    /\ applying' \in {applying, applying \ {<<p, r>>}}
    /\ UNCHANGED <<checkoutId, linked, aged, push, results, polling, senderVars,
                   sweepVars, history, faults>>

-----------------------------------------------------------------------------
(* The status poll, the sweep and time.                                     *)

\* What the poll makes of Safaricom's answer: an unfinished push has no code.
PolledStatus(r) ==
    CASE Paid(checkoutId[r])                  -> {"COMPLETED"}
      [] push[checkoutId[r]] = "declined"     -> {"CANCELLED", "FAILED"}
      [] OTHER                                -> {status[r]}

StatusQuery(r) ==
    /\ InHand < MaxInHand
    /\ checkoutId[r] # NoPush
    /\ status[r] \notin {"COMPLETED", "FAILED", "CANCELLED"}
    /\ \E next \in PolledStatus(r) : polling' = polling \cup {<<r, next>>}
    /\ UNCHANGED <<saleVars, rowVars, push, results, applying, senderVars,
                   sweepVars, history, faults>>

\* ... written without looking at the row again; the sale is not touched.
StatusWrite(r, next) ==
    /\ <<r, next>> \in polling
    /\ status' = [status EXCEPT ![r] = next]
    /\ polling' = polling \ {<<r, next>>}
    /\ UNCHANGED <<saleVars, checkoutId, callback, linked, aged, push, results,
                   applying, senderVars, sweepVars, history, faults>>

\* Ten minutes since the row's createdAt; no other row's age is looked at.
Age(r) ==
    /\ r \in linked \ aged /\ status[r] = "PENDING"
    /\ aged' = aged \cup {r}
    /\ UNCHANGED <<saleVars, status, checkoutId, callback, linked, netVars,
                   senderVars, sweepVars, history, faults>>

\* Stale PENDING rows whose sale is still PENDING.
Expirable == {r \in linked \cap aged : status[r] = "PENDING" /\ sale = "PENDING"}

SweepReads ==
    /\ sweeping = {} /\ ~flipping
    /\ Expirable # {}
    /\ sweeping' = Expirable
    /\ UNCHANGED <<saleVars, rowVars, netVars, senderVars, flipping, swept,
                   history, faults>>

SweepMayClaim(r) == status[r] = "PENDING"

SweepClaims(r) ==
    /\ r \in sweeping /\ ~flipping
    /\ sweeping' = sweeping \ {r}
    /\ IF SweepMayClaim(r)
       THEN /\ status' = [status EXCEPT ![r] = "CANCELLED"]
            /\ swept' = swept \cup {r}
            /\ flipping' = TRUE
       ELSE UNCHANGED <<status, swept, flipping>>
    /\ UNCHANGED <<saleVars, checkoutId, callback, linked, aged, netVars,
                   senderVars, history, faults>>

SaleStillPending == sale = "PENDING"

SweepFailsSale ==
    /\ flipping
    /\ flipping' = FALSE
    /\ sale' = IF SaleStillPending THEN "FAILED" ELSE sale
    /\ UNCHANGED <<restocked, journal, event, rowVars, netVars, senderVars,
                   sweeping, swept, history, faults>>

SweepDies ==
    /\ sweeping # {} \/ flipping
    /\ Fault
    /\ sweeping' = {} /\ flipping' = FALSE
    /\ halfSwept' = (halfSwept \/ flipping)
    /\ UNCHANGED <<saleVars, rowVars, netVars, senderVars, swept, forgotten,
                   overwritten>>

-----------------------------------------------------------------------------
Initiate(s) ==
    \/ FindRow(s) \/ SendAccepted(s) \/ SendUnacknowledged(s) \/ SendFails(s)
    \/ RecordOnRow(s) \/ RecordOnNewRow(s) \/ RecordLost(s)

PumpEnds == CompleteEvent \/ EventRequeued

Sweep == \/ SweepReads \/ SweepFailsSale
         \/ \E r \in Rows : SweepClaims(r)

Next ==
    \/ Checkout \/ PumpClaims \/ PumpEnds
    \/ \E c \in Cashiers : CashierAsks(c)
    \/ \E s \in Senders : Initiate(s) \/ SenderDies(s)
    \/ \E p \in Pushes :
          \/ CustomerAnswers(p) \/ CallbackUnmatched(p)
          \/ \E r \in Rows : CallbackRead(p, r) \/ CallbackApply(p, r)
    \/ \E r \in Rows : \/ StatusQuery(r) \/ Age(r)
                       \/ \E next \in Statuses : StatusWrite(r, next)
    \/ Sweep \/ SweepDies

Spec == Init /\ [][Next]_vars

\* Time passes and the hourly sweep keeps being dispatched; the pump and
\* every other actor may be late for ever.
Fairness == WF_vars(Sweep) /\ WF_vars(\E r \in Rows : Age(r))

FairSpec == Spec /\ Fairness

-----------------------------------------------------------------------------
(* Safety.                                                                  *)

\* Money a customer paid can be traced by its CheckoutRequestID, except when
\* the id was lost before it was written, or when two calls pushed for the
\* same PENDING row and the later one replaced the id.
PaidPushIsOnRecord ==
    \A p \in Pushes : Paid(p) =>
        \/ RowsOf(p) # {}
        \/ \E s \in Senders : sent[s] = p
        \/ p \in forgotten \cup overwritten

\* A sweep never cancels a row whose push was recorded, however long its
\* snapshot is outdated when it gets to the row.
SweepSparesSentRows ==
    [][\A r \in swept' \ swept : checkoutId[r] = NoPush]_vars

\* Once its row is swept the sale is FAILED: nothing looks at the row again,
\* so a sale left PENDING here would stay so. Only a sweep that dies in between can do that.
SweptSaleFails ==
    swept # {} => sale = "FAILED" \/ flipping \/ halfSwept

\* The sweep closes the sale with the row, and only where no push is on record.
\* That is less than that nobody was prompted: Safaricom may have accepted a push
\* whose sender died before it wrote the id, and its row is swept like any other.
\* It is not what the route says of itself either, which is to close the rows of
\* pushes that were never answered (payments-sweeper/route.ts:4-18): those are
\* PROCESSING, and no sweep reads them.
SweepIsSafe == SweepSparesSentRows /\ []SweptSaleFails

\* A row no push is on record for does not stay PENDING for ever: it is pushed or
\* expired, whatever the pump does. Nothing of the kind holds of a row whose push
\* was recorded and never answered.
UnsentRowCloses ==
    \A r \in Rows : status[r] = "PENDING" ~> status[r] # "PENDING"

-----------------------------------------------------------------------------
(* What the documentation claims.                                           *)

\* "The handler matches the row by `CheckoutRequestID`, applies the atomic
\* PENDING claim, settles the sale" (docs/tunnel-development.md:52).
PaidSaleSettles ==
    [][\A p \in Pushes, r \in Rows :
          /\ <<p, r>> \in applying \ applying'
          /\ Paid(p) /\ p \notin Mismatched /\ r \in linked
              => sale' = "COMPLETED"]_vars

=============================================================================
