-------------------------- MODULE StkPaymentProofs --------------------------
(***************************************************************************)
(* Proofs about StkPayment for any number of cashiers, rows, pushes,        *)
(* callbacks in hand and faults. The argument: a row that was never sent    *)
(* has no id of Safaricom's, and once sent it is never PENDING again; so    *)
(* what callbacks and polls hold is about rows that the sweep leaves alone, *)
(* and the callbacks' claim, which asks for PENDING, never succeeds.        *)
(***************************************************************************)
EXTENDS StkPayment, FiniteSetTheorems, TLAPS

Known == {p \in Pushes : push[p] # "none"}

\* Rows and pushes are numbered without gaps, so the next number is free.
Numbered ==
    /\ \E n \in 0..MaxRows : Created = 1..n
    /\ \E n \in 0..MaxPushes : Known = 1..n

Unsent == {"none", "PENDING"}

\* A row that was never sent has no id.
RowsHold == \A r \in Rows : status[r] \in Unsent => checkoutId[r] = NoPush

\* A sender has an id only between push and record, and finds existing rows.
SendersHold ==
    \A s \in Senders :
        /\ pc[s] # "record" => sent[s] = NoPush
        /\ found[s] # NoRow => found[s] \in Created

\* Callbacks and polls in hand are about rows that were sent.
HandsHold ==
    /\ \A p \in Pushes, r \in Rows : <<p, r>> \in applying => status[r] \notin Unsent
    /\ \A r \in Rows, next \in Statuses : <<r, next>> \in polling
          => status[r] \notin Unsent /\ next \notin Unsent

\* The sale is at the sweep's mercy alone.
SaleHolds ==
    /\ sale # "COMPLETED"
    /\ sweeping # {} \/ flipping => sale # "none"
    /\ SweptSaleFails

\* Where the id of a push is, whether or not it was paid.
Traced(p) ==
    \/ RowsOf(p) # {}
    \/ \E s \in Senders : sent[s] = p
    \/ p \in forgotten \cup overwritten

AllTraced == \A p \in Known : Traced(p)

IInv ==
    /\ TypeOK
    /\ Numbered
    /\ RowsHold
    /\ SendersHold
    /\ HandsHold
    /\ SaleHolds
    /\ AllTraced

\* The number after the last row belongs to no row.
LEMMA NextRowNumber ==
    ASSUME IInv, NewRow \in Rows
    PROVE  NewRow \notin Created /\ Created \cup {NewRow} = 1..NewRow /\ NewRow \in 0..MaxRows
<1>1. PICK n \in 0..MaxRows : Created = 1..n BY DEF IInv, Numbered
<1>2. Cardinality(1..n) = n BY FS_Interval, StkAssumption
<1>3. NewRow = n + 1 BY <1>1, <1>2 DEF NewRow
<1>. QED BY <1>1, <1>3, StkAssumption DEF Rows

\* The number after the last push belongs to no push.
LEMMA NextPushNumber ==
    ASSUME IInv, NewPush \in Pushes
    PROVE  NewPush \notin Known /\ Known \cup {NewPush} = 1..NewPush /\ NewPush \in 0..MaxPushes
<1>1. PICK n \in 0..MaxPushes : Known = 1..n BY DEF IInv, Numbered
<1>2. Cardinality(1..n) = n BY FS_Interval, StkAssumption
<1>3. NewPush = n + 1 BY <1>1, <1>2 DEF NewPush, Known
<1>. QED BY <1>1, <1>3, StkAssumption DEF Pushes

\* The invariant holds before anything has happened.
LEMMA InitInv == Init => IInv
<1>. SUFFICES ASSUME Init PROVE IInv OBVIOUS
<1>1. TypeOK
  <2>1. 0 \in 0..MaxFaults BY StkAssumption
  <2>. QED BY <2>1 DEF Init, TypeOK, NoRow, NoPush, Statuses
<1>2. Created = {} /\ Known = {} BY DEF Init, Created, Known
<1>3. Numbered BY <1>2, StkAssumption DEF Numbered
<1>. QED
  BY <1>1, <1>2, <1>3 DEF Init, IInv, RowsHold, SendersHold, HandsHold, SaleHolds,
     SweptSaleFails, AllTraced

-----------------------------------------------------------------------------
\* No step breaks a type.
LEMMA NextType == ASSUME IInv, [Next]_vars PROVE TypeOK'
<1>. USE StkAssumption DEF IInv, Senders, NoRow, NoPush
<1>1. CASE Checkout
  BY <1>1 DEF Checkout, TypeOK, Statuses, netVars, senderVars, sweepVars, history
<1>2. CASE PumpClaims
  BY <1>2 DEF PumpClaims, Begin, TypeOK, rowVars, netVars, sweepVars, history
<1>3. CASE PumpEnds
  BY <1>3 DEF PumpEnds, CompleteEvent, EventRequeued, Fault, TypeOK, rowVars, netVars,
     sweepVars, history
<1>4. ASSUME NEW c \in Cashiers, CashierAsks(c) PROVE TypeOK'
  BY <1>4 DEF CashierAsks, Begin, TypeOK, saleVars, rowVars, netVars, sweepVars, history
<1>5. ASSUME NEW s \in Senders, FindRow(s) PROVE TypeOK'
  BY <1>5 DEF FindRow, PendingRows, TypeOK, saleVars, rowVars, netVars, sweepVars, history
<1>6. ASSUME NEW s \in Senders, SendAccepted(s) \/ SendUnacknowledged(s) PROVE TypeOK'
  BY <1>6 DEF SendAccepted, SendUnacknowledged, Prompt, Fault, TypeOK, saleVars, rowVars,
     sweepVars
<1>7. ASSUME NEW s \in Senders, SendFails(s) PROVE TypeOK'
  BY <1>7 DEF SendFails, TypeOK, saleVars, rowVars, netVars, sweepVars, history
<1>8. ASSUME NEW s \in Senders, RecordOnRow(s) PROVE TypeOK'
  BY <1>8 DEF RecordOnRow, Return, SentStatus, WrittenId, TypeOK, Statuses, saleVars, netVars,
     sweepVars
<1>9. ASSUME NEW s \in Senders, RecordOnNewRow(s) PROVE TypeOK'
  BY <1>9 DEF RecordOnNewRow, Return, SentStatus, TypeOK, Statuses, saleVars, netVars,
     sweepVars, history
<1>10. ASSUME NEW s \in Senders, RecordLost(s) PROVE TypeOK'
  BY <1>10 DEF RecordLost, Fault, TypeOK, saleVars, rowVars, netVars, sweepVars
<1>11. ASSUME NEW s \in Senders, SenderDies(s) PROVE TypeOK'
  BY <1>11 DEF SenderDies, Fault, TypeOK, saleVars, rowVars, netVars, sweepVars
<1>12. ASSUME NEW p \in Pushes, CustomerAnswers(p) \/ CallbackUnmatched(p) PROVE TypeOK'
  BY <1>12 DEF CustomerAnswers, CallbackUnmatched, TypeOK, saleVars, rowVars, senderVars,
     sweepVars, history
<1>13. ASSUME NEW p \in Pushes, NEW r \in Rows, CallbackRead(p, r) PROVE TypeOK'
  BY <1>13 DEF CallbackRead, TypeOK, saleVars, rowVars, senderVars, sweepVars, history
<1>14. ASSUME NEW p \in Pushes, NEW r \in Rows, CallbackApply(p, r) PROVE TypeOK'
  <2>. USE DEF TypeOK
  <2>1. applying' \in SUBSET (Pushes \X Rows)
        /\ UNCHANGED <<checkoutId, linked, aged, push, results, polling, senderVars,
                       sweepVars, history, faults>>
    BY <1>14 DEF CallbackApply
  <2>2. status' \in [Rows -> Statuses] /\ callback' \in [Rows -> BOOLEAN]
    BY <1>14 DEF CallbackApply, Statuses
  <2>3. /\ sale' \in {"none", "PENDING", "COMPLETED", "FAILED"} /\ restocked' \in BOOLEAN
        /\ journal' \in {"pending", "posted", "voided"}
        /\ event' \in {"none", "PENDING", "PROCESSING", "COMPLETED"}
    BY <1>14 DEF CallbackApply, SettleSale, saleVars
  <2>. QED BY <2>1, <2>2, <2>3 DEF senderVars, sweepVars, history
<1>15. ASSUME NEW r \in Rows, StatusQuery(r) PROVE TypeOK'
  <2>1. PolledStatus(r) \subseteq Statuses BY DEF PolledStatus, TypeOK, Statuses
  <2>. QED BY <1>15, <2>1 DEF StatusQuery, TypeOK, saleVars, rowVars, senderVars,
          sweepVars, history
<1>16. ASSUME NEW r \in Rows, NEW next \in Statuses, StatusWrite(r, next) PROVE TypeOK'
  BY <1>16 DEF StatusWrite, TypeOK, saleVars, senderVars, sweepVars, history
<1>17. ASSUME NEW r \in Rows, Age(r) PROVE TypeOK'
  BY <1>17 DEF Age, TypeOK, saleVars, netVars, senderVars, sweepVars, history
<1>18. ASSUME NEW r \in Rows, SweepClaims(r) PROVE TypeOK'
  <2>1. status' \in [Rows -> Statuses] /\ swept' \in SUBSET Rows /\ sweeping' \in SUBSET Rows
    BY <1>18 DEF SweepClaims, TypeOK, Statuses
  <2>2. flipping' \in BOOLEAN BY <1>18 DEF SweepClaims, TypeOK
  <2>. QED BY <1>18, <2>1, <2>2 DEF SweepClaims, TypeOK, saleVars, netVars, senderVars, history
<1>19. CASE SweepReads
  BY <1>19 DEF SweepReads, Expirable, TypeOK, saleVars, rowVars, netVars, senderVars, history
<1>20. CASE SweepFailsSale
  BY <1>20 DEF SweepFailsSale, TypeOK, rowVars, netVars, senderVars, history
<1>21. CASE SweepDies
  <2>1. faults' \in 0..MaxFaults BY <1>21 DEF SweepDies, Fault, TypeOK
  <2>2. halfSwept' \in BOOLEAN BY <1>21 DEF SweepDies, TypeOK
  <2>. QED BY <1>21, <2>1, <2>2 DEF SweepDies, TypeOK, saleVars, rowVars, netVars, senderVars
<1>22. CASE UNCHANGED vars
  BY <1>22 DEF vars, TypeOK, saleVars, rowVars, netVars, senderVars, sweepVars, history
<1>. QED
  BY <1>1, <1>2, <1>3, <1>4, <1>5, <1>6, <1>7, <1>8, <1>9, <1>10, <1>11, <1>12, <1>13,
     <1>14, <1>15, <1>16, <1>17, <1>18, <1>19, <1>20, <1>21, <1>22
     DEF Next, Initiate, Sweep
-----------------------------------------------------------------------------
(* What a step does to the rows: it leaves them alone, or writes one of them *)
(* that exists or is the next, and makes none PENDING but a new one.         *)
RowWritten ==
    \E r \in Rows, st \in Statuses \ {"none"}, id \in Pushes \cup {NoPush} :
        /\ r \in Created \/ r = NewRow
        /\ st = "PENDING" => status[r] = "none" /\ id = checkoutId[r]
        /\ status' = [status EXCEPT ![r] = st]
        /\ checkoutId' = [checkoutId EXCEPT ![r] = id]

RowsLeft == UNCHANGED <<status, checkoutId>>

\* Steps of the senders write the row they found, or the next one.
LEMMA SenderSteps ==
    ASSUME IInv, NEW s \in Senders, Initiate(s) \/ SenderDies(s)
    PROVE  RowsLeft \/ RowWritten
<1>1. CASE RecordOnRow(s)
  <2>1. found[s] \in Created /\ found[s] \in Rows
    BY <1>1 DEF RecordOnRow, IInv, SendersHold, Created
  <2>2. sent[s] \in Pushes \cup {NoPush} BY DEF IInv, TypeOK
  <2>. QED BY <1>1, <2>1, <2>2 DEF RecordOnRow, SentStatus, WrittenId, RowWritten, Statuses
<1>2. CASE RecordOnNewRow(s)
  <2>1. sent[s] \in Pushes \cup {NoPush} BY DEF IInv, TypeOK
  <2>. QED BY <1>2, <2>1 DEF RecordOnNewRow, SentStatus, RowWritten, Statuses
<1>3. CASE FindRow(s) \/ SendAccepted(s) \/ SendUnacknowledged(s) \/ SendFails(s)
           \/ RecordLost(s) \/ SenderDies(s)
  BY <1>3 DEF FindRow, SendAccepted, SendUnacknowledged, SendFails, RecordLost, SenderDies,
     Prompt, rowVars, RowsLeft
<1>. QED BY <1>1, <1>2, <1>3 DEF Initiate

\* A callback applied finds no PENDING row, so its claim fails.
LEMMA ApplySteps ==
    ASSUME IInv, NEW p \in Pushes, NEW r \in Rows, CallbackApply(p, r)
    PROVE  (RowsLeft \/ RowWritten) /\ UNCHANGED saleVars
<1>1. status[r] \notin Unsent BY DEF CallbackApply, IInv, HandsHold
<1>2. ~Claims(r) BY <1>1 DEF Claims, Unsent
<1>3. UNCHANGED <<checkoutId, saleVars>> BY <1>2 DEF CallbackApply
<1>4. CASE status' = [status EXCEPT ![r] = "PROCESSING"]
  <2>1. checkoutId[r] \in Pushes \cup {NoPush} /\ checkoutId' = [checkoutId EXCEPT ![r] = @]
    BY <1>3 DEF IInv, TypeOK
  <2>2. r \in Created BY <1>1 DEF Created, Unsent
  <2>. QED BY <1>3, <1>4, <2>1, <2>2 DEF RowWritten, Statuses
<1>5. CASE status' = status BY <1>3, <1>5 DEF RowsLeft
<1>. QED BY <1>2, <1>4, <1>5 DEF CallbackApply

\* A step leaves the rows as they are or writes one of them.
LEMMA RowSteps == ASSUME IInv, [Next]_vars PROVE RowsLeft \/ RowWritten
<1>1. CASE Checkout
  <2>1. NewRow \in Rows /\ status[NewRow] = "none"
    BY <1>1, NextRowNumber DEF Checkout, Created
  <2>2. checkoutId[NewRow] \in Pushes \cup {NoPush}
        /\ checkoutId' = [checkoutId EXCEPT ![NewRow] = @]
    BY <1>1, <2>1 DEF Checkout, IInv, TypeOK
  <2>. QED BY <1>1, <2>1, <2>2 DEF Checkout, RowWritten, Statuses
<1>2. ASSUME NEW r \in Rows, NEW next \in Statuses, StatusWrite(r, next)
      PROVE  RowsLeft \/ RowWritten
  <2>1. status[r] \notin Unsent /\ next \notin Unsent
    BY <1>2 DEF StatusWrite, IInv, HandsHold
  <2>2. checkoutId[r] \in Pushes \cup {NoPush} /\ checkoutId' = [checkoutId EXCEPT ![r] = @]
    BY <1>2 DEF StatusWrite, IInv, TypeOK
  <2>. QED BY <1>2, <2>1, <2>2 DEF StatusWrite, RowWritten, Unsent, Created
<1>3. ASSUME NEW r \in Rows, SweepClaims(r) PROVE RowsLeft \/ RowWritten
  <2>1. CASE SweepMayClaim(r)
    <3>1. checkoutId[r] \in Pushes \cup {NoPush} /\ checkoutId' = [checkoutId EXCEPT ![r] = @]
      BY <1>3 DEF SweepClaims, IInv, TypeOK
    <3>. QED BY <1>3, <2>1, <3>1 DEF SweepClaims, SweepMayClaim, RowWritten, Created, Statuses
  <2>2. CASE ~SweepMayClaim(r) BY <1>3, <2>2 DEF SweepClaims, RowsLeft
  <2>. QED BY <2>1, <2>2
<1>4. CASE \/ PumpClaims \/ PumpEnds \/ SweepReads \/ SweepFailsSale \/ SweepDies
           \/ \E c \in Cashiers : CashierAsks(c)
           \/ \E p \in Pushes : CustomerAnswers(p) \/ CallbackUnmatched(p)
           \/ \E p \in Pushes, r \in Rows : CallbackRead(p, r)
           \/ \E r \in Rows : StatusQuery(r) \/ Age(r)
           \/ UNCHANGED vars
  BY <1>4 DEF PumpClaims, PumpEnds, CompleteEvent, EventRequeued, SweepReads, SweepFailsSale,
     SweepDies, CashierAsks, CustomerAnswers, CallbackUnmatched, CallbackRead, StatusQuery,
     Age, rowVars, vars, RowsLeft
<1>. QED BY <1>1, <1>2, <1>3, <1>4, SenderSteps, ApplySteps DEF Next, Sweep

\* A row that was sent stays sent, and rows are not deleted.
LEMMA SentStaysSent ==
    ASSUME IInv, [Next]_vars, NEW r \in Rows
    PROVE  /\ status[r] \notin Unsent => status'[r] \notin Unsent
           /\ r \in Created => r \in Created'
BY RowSteps DEF RowsLeft, RowWritten, Unsent, Created, IInv, TypeOK

-----------------------------------------------------------------------------
\* The claims about rows and numbers survive every step.
LEMMA NextRowsHold == ASSUME IInv, [Next]_vars PROVE RowsHold'
<1>1. CASE RowsLeft BY <1>1 DEF RowsLeft, RowsHold, IInv, Unsent
<1>2. CASE RowWritten
  BY <1>2 DEF RowWritten, RowsHold, IInv, TypeOK, Unsent
<1>. QED BY <1>1, <1>2, RowSteps

\* Every step keeps the pushes numbered without gaps.
LEMMA NextNumbered == ASSUME IInv, [Next]_vars PROVE Numbered'
<1>1. \E n \in 0..MaxRows : Created' = 1..n
  <2>1. CASE RowsLeft BY <2>1 DEF RowsLeft, IInv, Numbered, Created
  <2>2. CASE RowWritten
    <3>1. PICK r \in Rows : /\ r \in Created \/ r = NewRow
                            /\ Created' = Created \cup {r}
      BY <2>2 DEF RowWritten, Created, IInv, TypeOK
    <3>2. CASE r \in Created BY <3>1, <3>2 DEF IInv, Numbered
    <3>3. CASE r = NewRow BY <3>1, <3>3, NextRowNumber
    <3>. QED BY <3>1, <3>2, <3>3
  <2>. QED BY <2>1, <2>2, RowSteps
<1>2. \E n \in 0..MaxPushes : Known' = 1..n
  <2>1. CASE UNCHANGED push BY <2>1 DEF IInv, Numbered, Known
  <2>2. ASSUME NEW s \in Senders, SendAccepted(s) \/ SendUnacknowledged(s)
        PROVE  \E n \in 0..MaxPushes : Known' = 1..n
    <3>1. NewPush \in Pushes /\ Known' = Known \cup {NewPush}
      BY <2>2 DEF SendAccepted, SendUnacknowledged, Prompt, Known, IInv, TypeOK
    <3>. QED BY <3>1, NextPushNumber
  <2>3. ASSUME NEW p \in Pushes, CustomerAnswers(p) PROVE \E n \in 0..MaxPushes : Known' = 1..n
    <3>1. Known' = Known BY <2>3 DEF CustomerAnswers, Known, IInv, TypeOK
    <3>. QED BY <3>1 DEF IInv, Numbered
  <2>4. \/ UNCHANGED push
        \/ \E s \in Senders : SendAccepted(s) \/ SendUnacknowledged(s)
        \/ \E p \in Pushes : CustomerAnswers(p)
    BY DEF Next, Checkout, PumpClaims, PumpEnds, CompleteEvent, EventRequeued, CashierAsks,
       Initiate, FindRow, SendFails, RecordOnRow, RecordOnNewRow, RecordLost, SenderDies,
       CallbackUnmatched, CallbackRead, CallbackApply, StatusQuery, StatusWrite, Age, Sweep,
       SweepReads, SweepClaims, SweepFailsSale, SweepDies, netVars, vars
  <2>. QED BY <2>1, <2>2, <2>3, <2>4
<1>. QED BY <1>1, <1>2 DEF Numbered
\* A row that is found stays, and an id that was written is forgotten.
LEMMA NextSenders == ASSUME IInv, [Next]_vars PROVE SendersHold'
<1>. SUFFICES ASSUME NEW s \in Senders
              PROVE  /\ pc'[s] # "record" => sent'[s] = NoPush
                     /\ found'[s] # NoRow => found'[s] \in Created'
  BY DEF SendersHold
<1>1. found[s] \in Created => found[s] \in Created' BY SentStaysSent DEF Created
<1>2. ASSUME NEW q \in Senders, FindRow(q)
      PROVE  /\ pc'[s] # "record" => sent'[s] = NoPush
             /\ found'[s] # NoRow => found'[s] \in Created'
  <2>1. \A r \in PendingRows(q) : r \in Created
    BY DEF PendingRows, Created, IInv, TypeOK
  <2>2. found'[s] = found[s] \/ found'[s] = NoRow \/ found'[s] \in Created
    BY <1>2, <2>1 DEF FindRow, IInv, TypeOK
  <2>3. Created' = Created BY <1>2 DEF FindRow, rowVars, Created
  <2>. QED BY <1>2, <2>2, <2>3 DEF FindRow, IInv, TypeOK, SendersHold
<1>3. CASE UNCHANGED senderVars BY <1>1, <1>3 DEF senderVars, IInv, SendersHold
<1>4. CASE PumpClaims \/ PumpEnds \/ \E c \in Cashiers : CashierAsks(c)
  BY <1>1, <1>4 DEF PumpClaims, PumpEnds, CompleteEvent, EventRequeued, CashierAsks, Begin,
     IInv, TypeOK, SendersHold, Senders
<1>5. ASSUME NEW q \in Senders, \/ SendAccepted(q) \/ SendUnacknowledged(q) \/ SendFails(q)
                                \/ RecordOnRow(q) \/ RecordOnNewRow(q) \/ RecordLost(q)
                                \/ SenderDies(q)
      PROVE  /\ pc'[s] # "record" => sent'[s] = NoPush
             /\ found'[s] # NoRow => found'[s] \in Created'
  BY <1>1, <1>5 DEF SendAccepted, SendUnacknowledged, Prompt, SendFails, RecordOnRow,
     RecordOnNewRow, RecordLost, SenderDies, Return, IInv, TypeOK, SendersHold
<1>6. CASE \/ Checkout \/ Sweep \/ SweepDies \/ UNCHANGED vars
           \/ \E p \in Pushes : \/ CustomerAnswers(p) \/ CallbackUnmatched(p)
                                \/ \E r \in Rows : CallbackRead(p, r) \/ CallbackApply(p, r)
           \/ \E r \in Rows : \/ StatusQuery(r) \/ Age(r)
                              \/ \E next \in Statuses : StatusWrite(r, next)
  <2>1. UNCHANGED senderVars
    BY <1>6 DEF Checkout, Sweep, SweepReads, SweepClaims, SweepFailsSale, SweepDies,
       CustomerAnswers, CallbackUnmatched, CallbackRead, CallbackApply, StatusQuery, Age,
       StatusWrite, vars
  <2>. QED BY <1>3, <2>1
<1>. QED BY <1>2, <1>4, <1>5, <1>6 DEF Next, Initiate

\* What is taken in hand is about a row that carries an id.
LEMMA NextHands == ASSUME IInv, [Next]_vars PROVE HandsHold'
<1>1. CASE UNCHANGED <<applying, polling>>
  BY <1>1, SentStaysSent DEF IInv, HandsHold
<1>2. ASSUME NEW p \in Pushes, NEW r \in Rows, CallbackRead(p, r) PROVE HandsHold'
  <2>1. checkoutId[r] # NoPush
    BY <1>2, StkAssumption DEF CallbackRead, RowsOf, NoPush, Pushes
  <2>2. status[r] \notin Unsent BY <2>1 DEF IInv, RowsHold
  <2>. QED BY <1>2, <2>2 DEF CallbackRead, rowVars, IInv, HandsHold
<1>3. ASSUME NEW r \in Rows, StatusQuery(r) PROVE HandsHold'
  <2>1. status[r] \notin Unsent BY <1>3 DEF StatusQuery, IInv, RowsHold
  <2>2. \A next \in PolledStatus(r) : next \notin Unsent BY <2>1 DEF PolledStatus, Unsent
  <2>. QED BY <1>3, <2>1, <2>2 DEF StatusQuery, rowVars, IInv, HandsHold
<1>4. ASSUME NEW p \in Pushes, NEW r \in Rows, CallbackApply(p, r) PROVE HandsHold'
  <2>1. applying' \subseteq applying /\ polling' = polling BY <1>4 DEF CallbackApply
  <2>. QED BY <2>1, SentStaysSent DEF IInv, HandsHold
<1>5. ASSUME NEW r \in Rows, NEW next \in Statuses, StatusWrite(r, next) PROVE HandsHold'
  <2>1. polling' \subseteq polling /\ applying' = applying BY <1>5 DEF StatusWrite
  <2>. QED BY <2>1, SentStaysSent DEF IInv, HandsHold
<1>6. CASE \/ Checkout \/ PumpClaims \/ PumpEnds \/ Sweep \/ SweepDies \/ UNCHANGED vars
           \/ \E c \in Cashiers : CashierAsks(c)
           \/ \E s \in Senders : Initiate(s) \/ SenderDies(s)
           \/ \E p \in Pushes : CustomerAnswers(p) \/ CallbackUnmatched(p)
           \/ \E r \in Rows : Age(r)
  <2>1. UNCHANGED <<applying, polling>>
    BY <1>6 DEF Checkout, PumpClaims, PumpEnds, CompleteEvent, EventRequeued, Sweep,
       SweepReads, SweepClaims, SweepFailsSale, SweepDies, CashierAsks, Initiate, FindRow,
       SendAccepted, SendUnacknowledged, Prompt, SendFails, RecordOnRow, RecordOnNewRow,
       RecordLost, SenderDies, CustomerAnswers, CallbackUnmatched, Age, netVars, vars
  <2>. QED BY <1>1, <2>1
<1>. QED BY <1>2, <1>3, <1>4, <1>5, <1>6 DEF Next

\* Only the sweep ends the sale, since the callback's claim always fails.
LEMMA NextSale == ASSUME IInv, [Next]_vars PROVE SaleHolds'
<1>. USE DEF SaleHolds, SweptSaleFails
<1>1. CASE Checkout BY <1>1 DEF Checkout, IInv, sweepVars, history
<1>2. CASE SweepReads BY <1>2 DEF SweepReads, Expirable, IInv, saleVars, history
<1>3. ASSUME NEW r \in Rows, SweepClaims(r) PROVE SaleHolds'
  <2>1. sale # "none" /\ sale' = sale /\ halfSwept' = halfSwept
    BY <1>3 DEF SweepClaims, IInv, saleVars, history
  <2>2. flipping' = TRUE \/ (swept' = swept /\ flipping' = flipping)
    BY <1>3 DEF SweepClaims
  <2>. QED BY <2>1, <2>2 DEF IInv
<1>4. CASE SweepFailsSale
  <2>1. sale \in {"PENDING", "FAILED"} BY <1>4 DEF SweepFailsSale, IInv, TypeOK
  <2>2. sale' = "FAILED" BY <1>4, <2>1 DEF SweepFailsSale, SaleStillPending
  <2>. QED BY <2>2
<1>5. CASE SweepDies
  <2>1. sweeping' = {} /\ ~flipping' /\ swept' = swept /\ sale' = sale
        /\ (flipping \/ halfSwept => halfSwept')
    BY <1>5 DEF SweepDies, saleVars
  <2>. QED BY <2>1 DEF IInv
<1>6. CASE UNCHANGED <<sale, sweepVars, halfSwept>> BY <1>6 DEF IInv, sweepVars
<1>7. ASSUME NEW p \in Pushes, NEW r \in Rows, CallbackApply(p, r) PROVE SaleHolds'
  BY <1>6, <1>7, ApplySteps DEF CallbackApply, saleVars, history
<1>8. CASE \/ PumpClaims \/ PumpEnds \/ UNCHANGED vars
           \/ \E c \in Cashiers : CashierAsks(c)
           \/ \E s \in Senders : Initiate(s) \/ SenderDies(s)
           \/ \E p \in Pushes : \/ CustomerAnswers(p) \/ CallbackUnmatched(p)
                                \/ \E r \in Rows : CallbackRead(p, r)
           \/ \E r \in Rows : \/ StatusQuery(r) \/ Age(r)
                              \/ \E next \in Statuses : StatusWrite(r, next)
  <2>1. UNCHANGED <<sale, sweepVars, halfSwept>>
    BY <1>8 DEF PumpClaims, PumpEnds, CompleteEvent, EventRequeued, CashierAsks, Initiate,
       FindRow, SendAccepted, SendUnacknowledged, Prompt, SendFails, RecordOnRow,
       RecordOnNewRow, RecordLost, SenderDies, CustomerAnswers, CallbackUnmatched,
       CallbackRead, StatusQuery, StatusWrite, Age, saleVars, history, vars
  <2>. QED BY <1>6, <2>1
<1>. QED BY <1>1, <1>2, <1>3, <1>4, <1>5, <1>7, <1>8 DEF Next, Sweep

-----------------------------------------------------------------------------
\* An id is on the row that carries it, with the sender that will write it, or
\* among those that were lost or replaced.
LEMMA NextTraced == ASSUME IInv, [Next]_vars PROVE AllTraced'
<1>1. ASSUME NEW s \in Senders, RecordOnRow(s) PROVE AllTraced'
  <2>1. /\ found[s] \in Rows /\ checkoutId'[found[s]] = sent[s] /\ sent[s] \in Pushes \cup {NoPush}
        /\ \A r \in Rows \ {found[s]} : checkoutId'[r] = checkoutId[r] /\ status'[r] = status[r]
        /\ status'[found[s]] = "PROCESSING"
        /\ \A q \in Senders \ {s} : sent'[q] = sent[q]
        /\ overwritten' = overwritten \cup ({checkoutId[found[s]]} \cap Pushes)
        /\ forgotten' = forgotten /\ push' = push
    BY <1>1 DEF RecordOnRow, WrittenId, SentStatus, Return, IInv, TypeOK, netVars
  <2>2. ASSUME NEW p \in Pushes, Traced(p) PROVE Traced(p)'
    <3>1. CASE sent[s] = p BY <2>1, <3>1 DEF Traced, RowsOf, Created
    <3>2. CASE checkoutId[found[s]] = p BY <2>1, <3>2 DEF Traced
    <3>3. CASE sent[s] # p /\ checkoutId[found[s]] # p
      BY <2>1, <2>2, <3>3 DEF Traced, RowsOf, Created
    <3>. QED BY <3>1, <3>2, <3>3
  <2>. QED BY <2>1, <2>2 DEF IInv, AllTraced, Known
<1>2. ASSUME NEW s \in Senders, RecordOnNewRow(s) PROVE AllTraced'
  <2>1. NewRow \in Rows /\ NewRow \notin Created BY <1>2, NextRowNumber DEF RecordOnNewRow
  <2>2. /\ checkoutId'[NewRow] = sent[s] /\ sent[s] \in Pushes \cup {NoPush}
        /\ \A r \in Rows \ {NewRow} : checkoutId'[r] = checkoutId[r] /\ status'[r] = status[r]
        /\ status'[NewRow] = "PROCESSING"
        /\ \A q \in Senders \ {s} : sent'[q] = sent[q]
        /\ overwritten' = overwritten /\ forgotten' = forgotten /\ push' = push
    BY <1>2, <2>1 DEF RecordOnNewRow, SentStatus, Return, IInv, TypeOK, netVars, history
  <2>3. ASSUME NEW p \in Pushes, Traced(p) PROVE Traced(p)'
    <3>1. CASE sent[s] = p BY <2>1, <2>2, <3>1 DEF Traced, RowsOf, Created
    <3>2. CASE sent[s] # p BY <2>1, <2>2, <2>3, <3>2 DEF Traced, RowsOf, Created
    <3>. QED BY <3>1, <3>2
  <2>. QED BY <2>2, <2>3 DEF IInv, AllTraced, Known
<1>3. ASSUME NEW s \in Senders, RecordLost(s) \/ SenderDies(s) PROVE AllTraced'
  <2>1. /\ \A q \in Senders \ {s} : sent'[q] = sent[q]
        /\ sent[s] \in Pushes => sent[s] \in forgotten'
        /\ forgotten \subseteq forgotten'
        /\ UNCHANGED <<checkoutId, status, overwritten, push>>
    BY <1>3 DEF RecordLost, SenderDies, IInv, TypeOK, rowVars, netVars
  <2>. QED BY <2>1 DEF IInv, AllTraced, Traced, Known, RowsOf, Created
<1>4. ASSUME NEW s \in Senders, SendAccepted(s) PROVE AllTraced'
  <2>1. /\ sent[s] = NoPush /\ sent'[s] = NewPush
        /\ \A q \in Senders \ {s} : sent'[q] = sent[q]
        /\ Known' = Known \cup {NewPush}
        /\ UNCHANGED <<checkoutId, status, forgotten, overwritten>>
    BY <1>4 DEF SendAccepted, Prompt, IInv, TypeOK, SendersHold, rowVars, Known
  <2>2. \A p \in Pushes : p # NoPush BY StkAssumption DEF Pushes, NoPush
  <2>. QED BY <2>1, <2>2 DEF IInv, AllTraced, Traced, RowsOf, Created, Known
<1>5. ASSUME NEW s \in Senders, SendUnacknowledged(s) PROVE AllTraced'
  <2>1. /\ sent[s] = NoPush /\ forgotten' = forgotten \cup {NewPush}
        /\ \A q \in Senders \ {s} : sent'[q] = sent[q]
        /\ Known' = Known \cup {NewPush}
        /\ UNCHANGED <<checkoutId, status, overwritten>>
    BY <1>5 DEF SendUnacknowledged, Prompt, IInv, TypeOK, SendersHold, rowVars, Known
  <2>2. \A p \in Pushes : p # NoPush BY StkAssumption DEF Pushes, NoPush
  <2>. QED BY <2>1, <2>2 DEF IInv, AllTraced, Traced, RowsOf, Created, Known
<1>6. ASSUME NEW s \in Senders, SendFails(s) PROVE AllTraced'
  <2>1. sent' = sent /\ UNCHANGED <<checkoutId, status, forgotten, overwritten, push>>
    BY <1>6 DEF SendFails, IInv, TypeOK, SendersHold, rowVars, netVars, history
  <2>. QED BY <2>1 DEF IInv, AllTraced, Traced, RowsOf, Created, Known
<1>7. CASE /\ UNCHANGED <<checkoutId, sent, forgotten, overwritten>> /\ Known' = Known
  <2>1. \A p \in Pushes : RowsOf(p) \subseteq RowsOf(p)'
    BY <1>7, SentStaysSent DEF RowsOf, Created
  <2>. QED BY <1>7, <2>1 DEF IInv, AllTraced, Traced, Known
<1>8. ASSUME NEW p \in Pushes, CustomerAnswers(p) PROVE AllTraced'
  BY <1>7, <1>8 DEF CustomerAnswers, Known, IInv, TypeOK, rowVars, senderVars, history
<1>9. CASE \/ Checkout \/ PumpClaims \/ PumpEnds \/ Sweep \/ SweepDies \/ UNCHANGED vars
           \/ \E c \in Cashiers : CashierAsks(c)
           \/ \E s \in Senders : FindRow(s)
           \/ \E p \in Pushes : \/ CallbackUnmatched(p)
                                \/ \E r \in Rows : CallbackRead(p, r) \/ CallbackApply(p, r)
           \/ \E r \in Rows : \/ StatusQuery(r) \/ Age(r)
                              \/ \E next \in Statuses : StatusWrite(r, next)
  <2>1. UNCHANGED <<checkoutId, sent, forgotten, overwritten, push>>
    BY <1>9 DEF Checkout, PumpClaims, PumpEnds, CompleteEvent, EventRequeued, Begin, Sweep,
       SweepReads, SweepClaims, SweepFailsSale, SweepDies, CashierAsks, FindRow,
       CallbackUnmatched, CallbackRead, CallbackApply, StatusQuery, StatusWrite, Age,
       rowVars, netVars, senderVars, history, vars
  <2>2. Known' = Known BY <2>1 DEF Known
  <2>. QED BY <1>7, <2>1, <2>2
<1>. QED BY <1>1, <1>2, <1>3, <1>4, <1>5, <1>6, <1>8, <1>9 DEF Next, Initiate

-----------------------------------------------------------------------------
\* The invariant is inductive.
THEOREM Inductive == Spec => []IInv
<1>1. IInv /\ [Next]_vars => IInv'
  BY NextType, NextNumbered, NextRowsHold, NextSenders, NextHands, NextSale, NextTraced
     DEF IInv
<1>. QED BY InitInv, <1>1, PTL DEF Spec

\* The state keeps its types, whatever interleaves.
THEOREM TypeCorrect == Spec => []TypeOK
<1>1. IInv => TypeOK BY DEF IInv
<1>. QED BY Inductive, <1>1, PTL

\* Money a customer paid can be traced, but for the two ways to lose an id.
THEOREM PaidIsTraced == Spec => []PaidPushIsOnRecord
<1>1. IInv => PaidPushIsOnRecord
  BY DEF IInv, AllTraced, Traced, Known, PaidPushIsOnRecord, Paid
<1>. QED BY Inductive, <1>1, PTL

\* A sweep that claims a row finds no push on it: it is PENDING at the claim.
LEMMA ClaimSparesSentRows ==
    ASSUME IInv, [Next]_vars, NEW r \in swept' \ swept PROVE checkoutId[r] = NoPush
<1>1. ASSUME NEW q \in Rows, SweepClaims(q) PROVE checkoutId[r] = NoPush
  <2>1. SweepMayClaim(q) /\ r = q BY <1>1 DEF SweepClaims
  <2>. QED BY <2>1 DEF SweepMayClaim, IInv, RowsHold, Unsent
<1>2. CASE UNCHANGED swept BY <1>2
<1>3. (\E q \in Rows : SweepClaims(q)) \/ UNCHANGED swept
  BY DEF Next, Checkout, PumpClaims, PumpEnds, CompleteEvent, EventRequeued, CashierAsks,
     Initiate, FindRow, SendAccepted, SendUnacknowledged, Prompt, SendFails, RecordOnRow,
     RecordOnNewRow, RecordLost, SenderDies, CustomerAnswers, CallbackUnmatched, CallbackRead,
     CallbackApply, StatusQuery, StatusWrite, Age, Sweep, SweepReads, SweepFailsSale,
     SweepDies, sweepVars, vars
<1>. QED BY <1>1, <1>2, <1>3

\* The sweep cancels no row with a push on record, and closes the sale with it.
THEOREM SweepHolds == Spec => SweepIsSafe
<1>1. IInv /\ [Next]_vars => [\A r \in swept' \ swept : checkoutId[r] = NoPush]_vars
  BY ClaimSparesSentRows
<1>2. IInv => SweptSaleFails BY DEF IInv, SaleHolds
<1>. QED BY Inductive, <1>1, <1>2, PTL DEF Spec, SweepIsSafe, SweepSparesSentRows

\* However often the customer pays and the callback is delivered, the sale is
\* never settled: the claim of the callback asks for a status that no row with
\* an id has.
THEOREM NeverSettled == Spec => [](sale # "COMPLETED")
<1>1. IInv => sale # "COMPLETED" BY DEF IInv, SaleHolds
<1>. QED BY Inductive, <1>1, PTL

=============================================================================
