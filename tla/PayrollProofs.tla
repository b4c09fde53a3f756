---------------------------- MODULE PayrollProofs ---------------------------
(***************************************************************************)
(* Proofs about PayrollB2C for every number of payslips, handlers, rows,   *)
(* crashes and losses. The argument: a row is `Open` while Safaricom has,  *)
(* or may still be sent, its payment. An open row that was acknowledged is *)
(* in an active status, so the idempotency check sees it; a handler that   *)
(* passed the check can only miss a row created after it looked, and that  *)
(* row is recorded in raced. A result is settled once because its receipt  *)
(* is written by the webhook that claimed the row, which is then through.  *)
(* The proofs about PayrollRun follow in a second part.                    *)
(***************************************************************************)
EXTENDS PayrollB2C, PayrollRun, FiniteSetTheorems, TLAPS

\* A handler in the middle of an initiation holds a row, or a payslip.
LocalsOK ==
    \A h \in Handlers :
        /\ pc[h] \in {"send", "record", "fail", "settle"} => row[h] \in Rows
        /\ pc[h] \in {"create", "settle"} => slip[h] \in AllSlips

TypeInv == TypeOK /\ LocalsOK

\* The failed attempts of a payslip are a number: there are finitely many rows.
LEMMA FailedCountNat ==
    ASSUME NEW p PROVE FailedCount(p) \in Nat
<1>1. {r \in RowsOf(p) : status[r] = "FAILED"} \subseteq Rows
  BY DEF RowsOf, Created
<1>2. IsFiniteSet({r \in RowsOf(p) : status[r] = "FAILED"})
  BY <1>1, ConstAssumption, FS_Subset
<1>. QED BY <1>2, FS_CardinalityType DEF FailedCount

\* The initial states have the types.
LEMMA InitTypeInv == Init => TypeInv
<1>. SUFFICES ASSUME Init PROVE TypeInv OBVIOUS
<1>. USE ConstAssumption DEF Init, AllSlips, ActiveStatuses
<1>1. created \in Seq(Rows) OBVIOUS
<1>2. crashes \in 0..MaxCrashes /\ losses \in 0..MaxLosses OBVIOUS
<1>3. attempts \in [Handlers -> [AllSlips -> Nat]] BY DEF NoAttempts
<1>5. LocalsOK BY DEF LocalsOK
<1>6. pc \in [Handlers -> Pcs] BY DEF Pcs
<1>. QED BY <1>1, <1>2, <1>3, <1>5, <1>6 DEF TypeInv, TypeOK

\* The start of a request or a cron tick keeps the types.
LEMMA StartTypeInv ==
    ASSUME TypeInv, NEW h \in Handlers, Start(h) PROVE TypeInv'
<1>. USE ConstAssumption DEF TypeInv, TypeOK, LocalsOK, Goto, Pcs, slipVars,
         rowVars, netVars, history, faults, tally
<1>1. CASE StartDisburse(h) BY <1>1 DEF StartDisburse, Unpaid, AllSlips
<1>2. CASE StartRetry(h) BY <1>2 DEF StartRetry
<1>3. CASE StartRefresh(h) BY <1>3 DEF StartRefresh
<1>4. CASE StartSweep(h)
  <2>1. Retryable \subseteq AllSlips BY DEF Retryable, Unpaid, AllSlips
  <2>. QED BY <1>4, <2>1 DEF StartSweep
<1>. QED BY <1>1, <1>2, <1>3, <1>4 DEF Start

\* A handler that returns, is stuck or crashes is left with typed locals.
LEMMA LeaveTypes ==
    ASSUME TypeInv, NEW h \in Handlers, NEW l \in {"idle", "stuck"}, Leave(h, l)
    PROVE  /\ pc' \in [Handlers -> Pcs]
           /\ gated' \in [Handlers -> BOOLEAN]
           /\ target' \in [Handlers -> SUBSET AllSlips]
           /\ attempts' \in [Handlers -> [AllSlips -> Nat]]
           /\ todo' \in [Handlers -> SUBSET AllSlips]
           /\ stuck' \in [Handlers -> SUBSET Rows]
           /\ slip' \in [Handlers -> AllSlips \cup {NoOne}]
           /\ row' \in [Handlers -> Rows \cup {NoOne}]
           /\ refreshNext' \in [Handlers -> BOOLEAN]
           /\ initiated' \in [Handlers -> BOOLEAN]
           /\ failed' \in [Handlers -> BOOLEAN]
           /\ LocalsOK'
BY DEF TypeInv, TypeOK, LocalsOK, Leave, Goto, Pcs, NoAttempts

\* Nor does a step inside the loops and queries break a type.
LEMMA ContinueTypeInv ==
    ASSUME TypeInv, NEW h \in Handlers, Continue(h) PROVE TypeInv'
<1>. USE ConstAssumption DEF TypeInv, TypeOK, LocalsOK, Goto, Pcs, slipVars,
         rowVars, netVars, history, faults, tally, NextPayslip
<1>1. CASE RetrySnapshot(h)
  <2>1. CASE Return(h)
    BY <1>1, <2>1, LeaveTypes DEF RetrySnapshot, Return
  <2>2. CASE ~Return(h)
    <3>1. {p \in Payslips : LatestStatus(p) = "FAILED"} \subseteq AllSlips
      BY DEF AllSlips
    <3>2. [p \in AllSlips |-> IF p \in Payslips THEN FailedCount(p) ELSE 0]
            \in [AllSlips -> Nat]
      BY FailedCountNat
    <3>3. /\ Goto(h, "details")
          /\ target' = [target EXCEPT ![h] =
               IF target[h] = {} THEN {p \in Payslips : LatestStatus(p) = "FAILED"}
                                 ELSE target[h]]
          /\ attempts' = [attempts EXCEPT ![h] =
               [p \in AllSlips |-> IF p \in Payslips THEN FailedCount(p) ELSE 0]]
          /\ UNCHANGED <<gated, todo, stuck, slip, row, refreshNext, tally>>
          /\ UNCHANGED <<mode, slipVars, rowVars, netVars, marking, stamping,
                         history, faults>>
      BY <1>1, <2>2, Zenon DEF RetrySnapshot
    <3>4. target' \in [Handlers -> SUBSET AllSlips] BY <3>1, <3>3
    <3>5. attempts' \in [Handlers -> [AllSlips -> Nat]] BY <3>2, <3>3
    <3>. QED BY <3>3, <3>4, <3>5
  <2>. QED BY <2>1, <2>2
<1>2. CASE RetryDetails(h) BY <1>2 DEF RetryDetails
<1>3. CASE SkipPayslip(h) BY <1>3 DEF SkipPayslip
<1>4. CASE CheckPayslip(h) BY <1>4 DEF CheckPayslip
<1>5. CASE CreateRow(h)
  <2>1. PICK r \in Rows \ Created :
          /\ status' = [status EXCEPT ![r] =
                          IF mode = "mock" THEN "COMPLETED" ELSE "PENDING"]
          /\ callback' = [callback EXCEPT ![r] = mode = "mock"]
          /\ payslip' = [payslip EXCEPT ![r] = slip[h]]
          /\ created' = Append(created, r)
          /\ row' = [row EXCEPT ![h] = r]
          /\ raced' = raced \cup {s \in {r} : \E g \in Handlers \ {h} :
                                  pc[g] = "create" /\ slip[g] = slip[h]}
    BY <1>5 DEF CreateRow
  <2>2. created' \in Seq(Rows) BY <2>1
  <2>. QED BY <1>5, <2>1, <2>2 DEF CreateRow, ActiveStatuses
<1>6. CASE CreateFails(h)
  <2>1. failed' \in [Handlers -> BOOLEAN] BY <1>6 DEF CreateFails
  <2>. QED BY <1>6, <2>1 DEF CreateFails
<1>7. CASE SendAccepted(h) BY <1>7 DEF SendAccepted
<1>8. CASE SendRejected(h) BY <1>8 DEF SendRejected
<1>9. CASE SendUnacknowledged(h) BY <1>9 DEF SendUnacknowledged
<1>10. CASE RecordAccepted(h) BY <1>10 DEF RecordAccepted, ActiveStatuses
<1>11. CASE RecordFailure(h) BY <1>11 DEF RecordFailure, MarkRowFailed
<1>12. CASE SettleMock(h) BY <1>12 DEF SettleMock
<1>13. CASE FinishLoop(h)
  <2>1. paidAt' \in BOOLEAN
    BY <1>13 DEF FinishLoop
  <2>2. PICK l \in {"idle", "stuck"} : Leave(h, l) BY <1>13 DEF FinishLoop
  <2>. QED BY <1>13, <2>1, <2>2, LeaveTypes DEF FinishLoop
<1>14. CASE ReadStuck(h)
  <2>1. StuckRows \subseteq Rows BY DEF StuckRows
  <2>. QED BY <1>14, <2>1 DEF ReadStuck
<1>15. CASE QueryStatus(h) BY <1>15 DEF QueryStatus
<1>16. CASE QueryFails(h) BY <1>16 DEF QueryFails
<1>17. CASE FinishQuery(h) BY <1>17, LeaveTypes DEF FinishQuery, Return
<1>. QED BY <1>1, <1>2, <1>3, <1>4, <1>5, <1>6, <1>7, <1>8, <1>9, <1>10, <1>11,
            <1>12, <1>13, <1>14, <1>15, <1>16, <1>17 DEF Continue

\* So do crashes, Safaricom, the webhook, the clock and the manual disbursement.
LEMMA OtherTypeInv ==
    ASSUME TypeInv,
           \/ \E h \in Handlers : CrashHandler(h)
           \/ \E r \in Rows : \/ ProviderDecides(r) \/ LoseResult(r) \/ Age(r)
                              \/ Webhook(r) \/ WebhookCrash(r)
           \/ ManualMark \/ ManualStamp \/ ManualCrash
    PROVE  TypeInv'
<1>. USE ConstAssumption DEF TypeInv, TypeOK, LocalsOK, slipVars, rowVars,
         netVars, history, faults, handlerVars, tally
<1>1. ASSUME NEW h \in Handlers, CrashHandler(h) PROVE TypeInv'
  BY <1>1, LeaveTypes DEF CrashHandler, Return
<1>2. ASSUME NEW r \in Rows, ProviderDecides(r) PROVE TypeInv'
  BY <1>2 DEF ProviderDecides
<1>3. ASSUME NEW r \in Rows, LoseResult(r) PROVE TypeInv'
  BY <1>3 DEF LoseResult
<1>4. ASSUME NEW r \in Rows, Age(r) PROVE TypeInv' BY <1>4 DEF Age, Created
<1>5. ASSUME NEW r \in Rows, WebhookClaim(r) PROVE TypeInv'
  BY <1>5 DEF WebhookClaim, ActiveStatuses
<1>6. ASSUME NEW r \in Rows, WebhookMarkPaid(r) PROVE TypeInv'
  BY <1>6 DEF WebhookMarkPaid
<1>7. ASSUME NEW r \in Rows, WebhookCrash(r) PROVE TypeInv'
  BY <1>7 DEF WebhookCrash
<1>8. CASE ManualMark BY <1>8 DEF ManualMark
<1>9. CASE ManualStamp BY <1>9 DEF ManualStamp
<1>10. CASE ManualCrash
  <2>1. crashes' \in 0..MaxCrashes BY <1>10 DEF ManualCrash
  <2>. QED BY <1>10, <2>1 DEF ManualCrash
<1>. QED BY <1>1, <1>2, <1>3, <1>4, <1>5, <1>6, <1>7, <1>8, <1>9, <1>10
         DEF Webhook

\* All steps together, and stuttering.
LEMMA NextTypeInv == TypeInv /\ [Next]_vars => TypeInv'
<1>. SUFFICES ASSUME TypeInv, [Next]_vars PROVE TypeInv' OBVIOUS
<1>1. CASE UNCHANGED vars
  BY <1>1 DEF vars, TypeInv, TypeOK, LocalsOK, slipVars, rowVars, netVars,
              handlerVars, history, faults, tally
<1>2. CASE Next
  BY <1>2, StartTypeInv, ContinueTypeInv, OtherTypeInv DEF Next
<1>. QED BY <1>1, <1>2

\* The type invariant of the disbursement model, for every instance.
THEOREM TypeCorrect == Spec => []TypeOK
<1>1. Spec => []TypeInv BY InitTypeInv, NextTypeInv, PTL DEF Spec
<1>. QED BY <1>1, PTL DEF TypeInv

-----------------------------------------------------------------------------
(* Safety: the inductive invariant.                                         *)

\* The row's payment is out, or a handler is about to send it.
Open(r) == MoneyOut(r) \/ \E h \in Handlers : pc[h] = "send" /\ row[h] = r

\* A handler between the create and the end of an initiation.
Holding(h) == pc[h] \in {"send", "record", "fail", "settle"}

\* Only a created row can be known to Safaricom or to a payslip.
FreshInv ==
    /\ \A r \in Rows : status[r] = "NONE" => provider[r] = "none"
    /\ \A p \in AllSlips :
          paymentRef[p] \in Rows => status[paymentRef[p]] # "NONE"

\* What each position in initiatePayrollB2C knows about its row.
HoldingInv ==
    \A h \in Handlers :
        /\ Holding(h) => status[row[h]] # "NONE"
        /\ pc[h] = "send" =>
              provider[row[h]] = "none" /\ status[row[h]] = "PENDING"
        /\ pc[h] = "fail" => provider[row[h]] = "none" \/ row[h] \in unacked
        /\ pc[h] = "settle" => mode = "mock" /\ payslip[row[h]] = slip[h]

\* Two handlers never hold the same row.
ExclusiveInv ==
    \A g, h \in Handlers : Holding(g) /\ Holding(h) /\ row[g] = row[h] => g = h

\* An acknowledged payment keeps its row in an active status.
AckedInv ==
    \A r \in Rows : MoneyOut(r) /\ r \notin unacked => status[r] \in ActiveStatuses

\* Results and settlements follow Safaricom's decision.
DecidedInv ==
    /\ \A r \in results : provider[r] \in {"paid", "failed"}
    /\ \A r \in marking : provider[r] = "paid"

\* A handler past the idempotency check can only have missed a raced row.
WindowInv ==
    \A h \in Handlers : \A r \in Rows :
        pc[h] = "create" /\ payslip[r] = slip[h] /\ Open(r)
            => r \in raced \cup unacked

\* Two open rows of one payslip.
NoDoubleInv ==
    \A r, s \in Rows :
        r # s /\ payslip[r] = payslip[s] /\ Open(r) /\ Open(s)
            => {r, s} \cap (raced \cup unacked) # {}

SafeInv == /\ FreshInv /\ HoldingInv /\ ExclusiveInv /\ AckedInv
           /\ DecidedInv /\ WindowInv /\ NoDoubleInv /\ PaidSlipHasMoney

IInv == TypeInv /\ SafeInv

\* Nothing is sent, open or held at the start.
LEMMA InitSafe == Init => SafeInv
<1>. SUFFICES ASSUME Init PROVE SafeInv OBVIOUS
<1>1. \A r \in Rows : provider[r] = "none" /\ status[r] = "NONE" BY DEF Init
<1>2. \A h \in Handlers : pc[h] = "idle" BY DEF Init
<1>3. \A p \in AllSlips : paymentRef[p] \notin Rows
  BY ConstAssumption DEF Init
<1>4. results = {} /\ marking = {} BY DEF Init
<1>. QED
  BY <1>1, <1>2, <1>3, <1>4
     DEF SafeInv, FreshInv, HoldingInv, ExclusiveInv, AckedInv, DecidedInv,
         WindowInv, NoDoubleInv, PaidSlipHasMoney, Open, MoneyOut, Holding

\* A step that touches no row's status, payment or history, brings no handler
\* into an initiation and writes no receipt.
QuietStep ==
    /\ UNCHANGED <<mode, status, payslip, provider, raced, unacked>>
    /\ \A r \in results' : provider[r] \in {"paid", "failed"}
    /\ marking' \subseteq marking
    /\ \A h \in Handlers :
          pc'[h] \in {"create", "send", "record", "fail", "settle"} =>
             pc'[h] = pc[h] /\ slip'[h] = slip[h] /\ row'[h] = row[h]
    /\ \A p \in AllSlips : paymentRef'[p] \in Rows =>
          /\ paymentRef'[p] = paymentRef[p]
          /\ paymentStatus[p] = "PAID" => paymentStatus'[p] = "PAID"

\* A step that touches no row, no payment and no receipt, and lets no handler
\* enter the initiation, keeps the invariant.
LEMMA QuietSafe == ASSUME IInv, QuietStep PROVE SafeInv'
<1>. USE DEF IInv, SafeInv, QuietStep
<1>1. \A r \in Rows : MoneyOut(r)' = MoneyOut(r) BY DEF MoneyOut
<1>2. \A r \in Rows : Open(r)' => Open(r) BY <1>1 DEF Open
<1>3. FreshInv' BY DEF FreshInv
<1>4. HoldingInv' BY DEF HoldingInv, Holding
<1>5. ExclusiveInv' BY DEF ExclusiveInv, Holding
<1>6. AckedInv' BY <1>1 DEF AckedInv
<1>7. DecidedInv' BY DEF DecidedInv
<1>8. WindowInv' BY <1>2 DEF WindowInv
<1>9. NoDoubleInv' BY <1>2 DEF NoDoubleInv
<1>10. PaidSlipHasMoney' BY DEF PaidSlipHasMoney
<1>. QED BY <1>3, <1>4, <1>5, <1>6, <1>7, <1>8, <1>9, <1>10

\* Leaving a loop is such a step.
LEMMA LeaveQuiet ==
    ASSUME IInv, NEW h \in Handlers, NEW l \in {"idle", "stuck"}, Leave(h, l),
           UNCHANGED <<mode, status, payslip, provider, results, marking, raced,
                       unacked, paymentStatus, paymentRef>>
    PROVE  SafeInv'
<1>1. QuietStep
  BY DEF IInv, SafeInv, DecidedInv, QuietStep, Leave, Goto, TypeInv, TypeOK
<1>. QED BY <1>1, QuietSafe

\* The steps of a handler outside an initiation.
LEMMA QuietHandlerSteps ==
    ASSUME IInv, NEW h \in Handlers,
           \/ StartDisburse(h) \/ StartRetry(h) \/ StartRefresh(h)
           \/ StartSweep(h) \/ RetryDetails(h) \/ SkipPayslip(h)
           \/ CreateFails(h) \/ ReadStuck(h) \/ QueryStatus(h) \/ QueryFails(h)
    PROVE  SafeInv'
<1>. USE DEF IInv, SafeInv, DecidedInv, QuietStep, Goto, TypeInv, TypeOK,
         slipVars, rowVars, netVars, history
<1>1. CASE StartDisburse(h) BY <1>1, QuietSafe DEF StartDisburse
<1>2. CASE StartRetry(h) BY <1>2, QuietSafe DEF StartRetry
<1>3. CASE StartRefresh(h) BY <1>3, QuietSafe DEF StartRefresh
<1>4. CASE StartSweep(h) BY <1>4, QuietSafe DEF StartSweep
<1>5. CASE RetryDetails(h) BY <1>5, QuietSafe DEF RetryDetails
<1>6. CASE SkipPayslip(h) BY <1>6, QuietSafe DEF SkipPayslip
<1>7. CASE CreateFails(h) BY <1>7, QuietSafe DEF CreateFails, NextPayslip
<1>8. CASE ReadStuck(h) BY <1>8, QuietSafe DEF ReadStuck
<1>9. CASE QueryStatus(h) BY <1>9, QuietSafe DEF QueryStatus
<1>10. CASE QueryFails(h) BY <1>10, QuietSafe DEF QueryFails
<1>. QED BY <1>1, <1>2, <1>3, <1>4, <1>5, <1>6, <1>7, <1>8, <1>9, <1>10

\* The steps after which a handler may be through, and its crash.
LEMMA LeavingSteps ==
    ASSUME IInv, NEW h \in Handlers,
           RetrySnapshot(h) \/ FinishLoop(h) \/ FinishQuery(h) \/ CrashHandler(h)
    PROVE  SafeInv'
<1>. USE DEF slipVars, rowVars, netVars, history
<1>1. CASE RetrySnapshot(h)
  <2>1. CASE Return(h) BY <1>1, <2>1, LeaveQuiet DEF RetrySnapshot, Return
  <2>2. CASE ~Return(h)
    <3>1. /\ Goto(h, "details") /\ UNCHANGED <<slip, row>>
          /\ UNCHANGED <<mode, slipVars, rowVars, netVars, marking, history>>
      BY <1>1, <2>2 DEF RetrySnapshot
    <3>2. QuietStep
      BY <3>1 DEF IInv, SafeInv, DecidedInv, QuietStep, Goto, TypeInv, TypeOK
    <3>. QED BY <3>2, QuietSafe
  <2>. QED BY <2>1, <2>2
<1>2. CASE FinishLoop(h) BY <1>2, LeaveQuiet DEF FinishLoop
<1>3. CASE FinishQuery(h) BY <1>3, LeaveQuiet DEF FinishQuery, Return
<1>4. CASE CrashHandler(h) BY <1>4, LeaveQuiet DEF CrashHandler, Return
<1>. QED BY <1>1, <1>2, <1>3, <1>4

\* Passing the check: no active row of the payslip exists, so every open one
\* was unacknowledged.
LEMMA CheckSafe ==
    ASSUME IInv, NEW h \in Handlers, CheckPayslip(h) PROVE SafeInv'
<1>. USE DEF IInv, SafeInv, TypeInv, TypeOK, slipVars, rowVars, netVars, history
<1>1. PICK p \in todo[h] : ~AlreadyInitiated(p)
                           /\ slip' = [slip EXCEPT ![h] = p]
  BY DEF CheckPayslip
<1>2. /\ pc[h] = "loop" /\ pc' = [pc EXCEPT ![h] = "create"]
      /\ UNCHANGED <<mode, status, payslip, provider, results, marking, raced,
                     unacked, paymentStatus, paymentRef, row>>
  BY DEF CheckPayslip, Goto
<1>3. \A r \in Rows : Open(r)' <=> Open(r) BY <1>2 DEF Open, MoneyOut
<1>4. ASSUME NEW r \in Rows, payslip[r] = p, Open(r)
      PROVE  r \in raced \cup unacked
  <2>1. status[r] # "NONE"
    BY <1>4 DEF Open, MoneyOut, FreshInv, HoldingInv, Holding
  <2>2. status[r] \notin ActiveStatuses
    BY <1>1, <1>4, <2>1 DEF AlreadyInitiated, Active, RowsOf, Created
  <2>3. MoneyOut(r)
    BY <1>4, <2>2 DEF Open, HoldingInv, ActiveStatuses
  <2>. QED BY <2>2, <2>3 DEF AckedInv
<1>5. WindowInv'
  BY <1>1, <1>2, <1>3, <1>4 DEF WindowInv
<1>6. HoldingInv' BY <1>1, <1>2 DEF HoldingInv, Holding
<1>7. ExclusiveInv' BY <1>2 DEF ExclusiveInv, Holding
<1>8. FreshInv' /\ DecidedInv' BY <1>2 DEF FreshInv, DecidedInv
<1>9. AckedInv' BY <1>2 DEF AckedInv, MoneyOut
<1>10. NoDoubleInv' BY <1>2, <1>3 DEF NoDoubleInv
<1>11. PaidSlipHasMoney' BY <1>2 DEF PaidSlipHasMoney
<1>. QED BY <1>5, <1>6, <1>7, <1>8, <1>9, <1>10, <1>11

\* The new row is open at once; every open row of its payslip is excused by
\* WindowInv, and every other handler in the window learns that it is raced.
LEMMA CreateSafe == ASSUME IInv, NEW h \in Handlers, CreateRow(h) PROVE SafeInv'
<1>. USE DEF IInv, SafeInv, TypeInv, TypeOK, LocalsOK, slipVars, netVars
<1>1. PICK r \in Rows \ Created :
        /\ status' = [status EXCEPT ![r] =
                        IF mode = "mock" THEN "COMPLETED" ELSE "PENDING"]
        /\ payslip' = [payslip EXCEPT ![r] = slip[h]]
        /\ row' = [row EXCEPT ![h] = r]
        /\ raced' = raced \cup {s \in {r} : \E g \in Handlers \ {h} :
                                pc[g] = "create" /\ slip[g] = slip[h]}
  BY DEF CreateRow
<1>2. /\ pc[h] = "create"
      /\ pc' = [pc EXCEPT ![h] = IF mode = "mock" THEN "settle" ELSE "send"]
      /\ UNCHANGED <<mode, provider, results, marking, slip, unacked,
                     paymentStatus, paymentRef>>
  BY DEF CreateRow, Goto
<1>3. status[r] = "NONE" BY DEF Created
<1>4. provider[r] = "none" BY <1>1, <1>3 DEF FreshInv
<1>5. \A g \in Handlers : Holding(g) => row[g] # r
  BY <1>3 DEF HoldingInv
<1>6. \A s \in Rows : s # r => (Open(s)' <=> Open(s))
  BY <1>1, <1>2, <1>5 DEF Open, MoneyOut, Holding
<1>7. ~MoneyOut(r)' BY <1>2, <1>4 DEF MoneyOut
<1>8. FreshInv' BY <1>1, <1>2, <1>3 DEF FreshInv
<1>9. HoldingInv'
  <2>1. ASSUME NEW g \in Handlers, g # h
        PROVE  pc'[g] = pc[g] /\ row'[g] = row[g] /\ slip'[g] = slip[g]
    BY <1>1, <1>2, <2>1
  <2>2. ASSUME NEW g \in Handlers, g # h, Holding(g)
        PROVE  status'[row[g]] = status[row[g]] /\ payslip'[row[g]] = payslip[row[g]]
    BY <1>1, <1>5, <2>2
  <2>3. ASSUME NEW g \in Handlers, g # h
        PROVE  /\ Holding(g)' => status'[row'[g]] # "NONE"
               /\ pc'[g] = "send" =>
                    provider'[row'[g]] = "none" /\ status'[row'[g]] = "PENDING"
               /\ pc'[g] = "fail" =>
                    provider'[row'[g]] = "none" \/ row'[g] \in unacked'
               /\ pc'[g] = "settle" =>
                    mode' = "mock" /\ payslip'[row'[g]] = slip'[g]
    BY <1>2, <2>1, <2>2, <2>3 DEF HoldingInv, Holding
  <2>4. row'[h] = r /\ status'[r] # "NONE" /\ payslip'[r] = slip[h]
    BY <1>1
  <2>5. pc'[h] = "send" => status'[r] = "PENDING" BY <1>1, <1>2
  <2>6. pc'[h] = "settle" => mode = "mock" BY <1>2
  <2>. QED BY <1>2, <1>4, <2>3, <2>4, <2>5, <2>6 DEF HoldingInv
<1>10. ExclusiveInv' BY <1>1, <1>2, <1>5 DEF ExclusiveInv, Holding
<1>11. AckedInv'
  BY <1>1, <1>2, <1>7 DEF AckedInv, MoneyOut
<1>12. DecidedInv' BY <1>2 DEF DecidedInv
<1>13. \A s \in Rows : s # r /\ payslip[s] = slip[h] /\ Open(s)
          => s \in raced \cup unacked
  BY <1>2 DEF WindowInv
<1>14. WindowInv'
  <2>. SUFFICES ASSUME NEW g \in Handlers, NEW s \in Rows, pc'[g] = "create",
                       payslip'[s] = slip'[g], Open(s)'
                PROVE  s \in raced' \cup unacked'
    BY DEF WindowInv
  <2>1. g # h /\ pc[g] = "create" BY <1>2
  <2>2. CASE s = r
    <3>1. slip[g] = slip[h] BY <1>1, <1>2, <2>2
    <3>. QED BY <1>1, <2>1, <2>2, <3>1
  <2>3. CASE s # r BY <1>1, <1>2, <1>6, <2>1, <2>3 DEF WindowInv
  <2>. QED BY <2>2, <2>3
<1>15. NoDoubleInv'
  <2>. SUFFICES ASSUME NEW s \in Rows, NEW t \in Rows, s # t,
                       payslip'[s] = payslip'[t], Open(s)', Open(t)'
                PROVE  {s, t} \cap (raced' \cup unacked') # {}
    BY DEF NoDoubleInv
  <2>1. CASE s = r
    <3>1. payslip[t] = slip[h] /\ Open(t) /\ t # r BY <1>1, <1>6, <2>1
    <3>2. t \in raced \cup unacked BY <1>13, <3>1
    <3>3. raced \cup unacked \subseteq raced' \cup unacked' BY <1>1, <1>2
    <3>. QED BY <3>2, <3>3
  <2>2. CASE t = r
    <3>1. payslip[s] = slip[h] /\ Open(s) /\ s # r BY <1>1, <1>6, <2>2
    <3>2. s \in raced \cup unacked BY <1>13, <3>1
    <3>3. raced \cup unacked \subseteq raced' \cup unacked' BY <1>1, <1>2
    <3>. QED BY <3>2, <3>3
  <2>3. CASE s # r /\ t # r
    <3>1. payslip[s] = payslip[t] /\ Open(s) /\ Open(t)
      BY <1>1, <1>6, <2>3
    <3>2. {s, t} \cap (raced \cup unacked) # {} BY <3>1 DEF NoDoubleInv
    <3>3. raced \cup unacked \subseteq raced' \cup unacked' BY <1>1, <1>2
    <3>. QED BY <3>2, <3>3
  <2>. QED BY <2>1, <2>2, <2>3
<1>16. PaidSlipHasMoney'
  BY <1>1, <1>2, <1>3 DEF PaidSlipHasMoney, FreshInv
<1>. QED BY <1>8, <1>9, <1>10, <1>11, <1>12, <1>14, <1>15, <1>16

\* The three outcomes of the payment request.
LEMMA SendSafe ==
    ASSUME IInv, NEW h \in Handlers,
           SendAccepted(h) \/ SendRejected(h) \/ SendUnacknowledged(h)
    PROVE  SafeInv'
<1>. USE DEF IInv, SafeInv, TypeInv, TypeOK, LocalsOK, slipVars, rowVars,
         netVars, history
<1>. DEFINE r == row[h]
<1>1. /\ pc[h] = "send" /\ r \in Rows
      /\ pc' = [pc EXCEPT ![h] = IF SendAccepted(h) THEN "record" ELSE "fail"]
      /\ provider' = [provider EXCEPT ![r] =
                        IF SendRejected(h) THEN "none" ELSE "accepted"]
      /\ unacked' = unacked \cup {s \in {r} : pc'[h] = "fail" /\ provider'[r] # "none"}
      /\ UNCHANGED <<mode, status, payslip, results, marking, slip, row, raced,
                     paymentStatus, paymentRef>>
  <2>1. pc[h] = "send" /\ r \in Rows
    BY DEF SendAccepted, SendRejected, SendUnacknowledged
  <2>2. provider[r] = "none" BY <2>1 DEF HoldingInv
  <2>3. CASE SendAccepted(h)
    BY <2>1, <2>3 DEF SendAccepted, SendRejected, Goto
  <2>4. CASE SendRejected(h)
    BY <2>1, <2>2, <2>4 DEF SendAccepted, SendRejected, Goto
  <2>5. CASE SendUnacknowledged(h)
    BY <2>1, <2>2, <2>5
       DEF SendAccepted, SendRejected, SendUnacknowledged, Goto
  <2>. QED BY <2>3, <2>4, <2>5
<1>2. provider[r] = "none" /\ status[r] = "PENDING" BY <1>1 DEF HoldingInv
<1>3. \A g \in Handlers : g # h /\ Holding(g) => row[g] # r
  BY <1>1 DEF ExclusiveInv, Holding
<1>4. \A s \in Rows : Open(s)' => Open(s) BY <1>1 DEF Open, MoneyOut
<1>5. FreshInv' BY <1>1, <1>2 DEF FreshInv
<1>6. HoldingInv' BY <1>1, <1>2, <1>3 DEF HoldingInv, Holding
<1>7. ExclusiveInv' BY <1>1 DEF ExclusiveInv, Holding
<1>8. AckedInv' BY <1>1, <1>2 DEF AckedInv, MoneyOut, ActiveStatuses
<1>9. DecidedInv' BY <1>1, <1>2 DEF DecidedInv
<1>10. WindowInv' BY <1>1, <1>4 DEF WindowInv
<1>11. NoDoubleInv'
  <2>. SUFFICES ASSUME NEW s \in Rows, NEW t \in Rows, s # t,
                       payslip'[s] = payslip'[t], Open(s)', Open(t)'
                PROVE  {s, t} \cap (raced' \cup unacked') # {}
    BY DEF NoDoubleInv
  <2>1. {s, t} \cap (raced \cup unacked) # {} BY <1>1, <1>4 DEF NoDoubleInv
  <2>2. raced \cup unacked \subseteq raced' \cup unacked' BY <1>1
  <2>. QED BY <2>1, <2>2
<1>12. PaidSlipHasMoney' BY <1>1, <1>2 DEF PaidSlipHasMoney
<1>. QED BY <1>5, <1>6, <1>7, <1>8, <1>9, <1>10, <1>11, <1>12

\* Recording the outcome: FAILED is only written over a row without money, or
\* over an unacknowledged one.
LEMMA RecordSafe ==
    ASSUME IInv, NEW h \in Handlers, RecordAccepted(h) \/ RecordFailure(h)
    PROVE  SafeInv'
<1>. USE DEF IInv, SafeInv, TypeInv, TypeOK, LocalsOK, slipVars, netVars, history
<1>. DEFINE r == row[h]
<1>1. /\ pc[h] \in {"record", "fail"} /\ r \in Rows
      /\ pc' = [pc EXCEPT ![h] = "loop"]
      /\ slip' = [slip EXCEPT ![h] = NoOne] /\ row' = [row EXCEPT ![h] = NoOne]
      /\ status' = [status EXCEPT ![r] =
                      IF pc[h] = "record" THEN "PROCESSING" ELSE "FAILED"]
      /\ UNCHANGED <<mode, payslip, provider, results, marking, raced, unacked,
                     paymentStatus, paymentRef>>
  BY DEF RecordAccepted, RecordFailure, MarkRowFailed, NextPayslip, Goto
<1>2. \A g \in Handlers : g # h /\ Holding(g) => row[g] # r
  BY <1>1 DEF ExclusiveInv, Holding
<1>3. pc[h] = "fail" => provider[r] = "none" \/ r \in unacked
  BY DEF HoldingInv
<1>4. \A s \in Rows : Open(s)' => Open(s) BY <1>1 DEF Open, MoneyOut
<1>5. FreshInv' BY <1>1 DEF FreshInv
<1>6. HoldingInv' BY <1>1, <1>2 DEF HoldingInv, Holding
<1>7. ExclusiveInv' BY <1>1 DEF ExclusiveInv, Holding
<1>8. AckedInv' BY <1>1, <1>3 DEF AckedInv, MoneyOut, ActiveStatuses
<1>9. DecidedInv' BY <1>1 DEF DecidedInv
<1>10. WindowInv' BY <1>1, <1>4 DEF WindowInv
<1>11. NoDoubleInv' BY <1>1, <1>4 DEF NoDoubleInv
<1>12. PaidSlipHasMoney' BY <1>1 DEF PaidSlipHasMoney
<1>. QED BY <1>5, <1>6, <1>7, <1>8, <1>9, <1>10, <1>11, <1>12

\* The mock provider's receipt belongs to a row that was paid on creation.
LEMMA SettleSafe == ASSUME IInv, NEW h \in Handlers, SettleMock(h) PROVE SafeInv'
<1>. USE DEF IInv, SafeInv, TypeInv, TypeOK, LocalsOK, rowVars, netVars, history
<1>1. /\ pc[h] = "settle" /\ row[h] \in Rows /\ slip[h] \in AllSlips
      /\ mode = "mock" /\ payslip[row[h]] = slip[h] /\ status[row[h]] # "NONE"
  BY DEF SettleMock, HoldingInv, Holding
<1>2. /\ pc' = [pc EXCEPT ![h] = "loop"]
      /\ slip' = [slip EXCEPT ![h] = NoOne] /\ row' = [row EXCEPT ![h] = NoOne]
      /\ paymentStatus' = [paymentStatus EXCEPT ![slip[h]] = "PAID"]
      /\ paymentRef' = [paymentRef EXCEPT ![slip[h]] = row[h]]
      /\ UNCHANGED <<mode, status, payslip, provider, results, marking, raced,
                     unacked>>
  BY DEF SettleMock, NextPayslip, Goto
<1>3. \A s \in Rows : Open(s)' => Open(s) BY <1>2 DEF Open, MoneyOut
<1>4. FreshInv' BY <1>1, <1>2 DEF FreshInv
<1>5. HoldingInv' BY <1>2 DEF HoldingInv, Holding
<1>6. ExclusiveInv' BY <1>2 DEF ExclusiveInv, Holding
<1>7. AckedInv' BY <1>2 DEF AckedInv, MoneyOut
<1>8. DecidedInv' BY <1>2 DEF DecidedInv
<1>9. WindowInv' BY <1>2, <1>3 DEF WindowInv
<1>10. NoDoubleInv' BY <1>2, <1>3 DEF NoDoubleInv
<1>11. PaidSlipHasMoney' BY <1>1, <1>2 DEF PaidSlipHasMoney
<1>. QED BY <1>4, <1>5, <1>6, <1>7, <1>8, <1>9, <1>10, <1>11

-----------------------------------------------------------------------------
(* Safaricom, the webhook, the clock and the manual disbursement.           *)

\* A lost result, the clock and a crashed webhook change no payment.
LEMMA QuietOtherSteps ==
    ASSUME IInv, NEW r \in Rows, LoseResult(r) \/ Age(r) \/ WebhookCrash(r)
    PROVE  SafeInv'
<1>. USE DEF IInv, SafeInv, DecidedInv, QuietStep, TypeInv, TypeOK, slipVars,
         rowVars, netVars, handlerVars, history
<1>1. CASE LoseResult(r) BY <1>1, QuietSafe DEF LoseResult
<1>2. CASE Age(r) BY <1>2, QuietSafe DEF Age
<1>3. CASE WebhookCrash(r) BY <1>3, QuietSafe DEF WebhookCrash
<1>. QED BY <1>1, <1>2, <1>3

\* Marking payslips by hand writes no M-Pesa receipt.
LEMMA ManualSafe ==
    ASSUME IInv, ManualMark \/ ManualStamp \/ ManualCrash PROVE SafeInv'
<1>. USE DEF IInv, SafeInv, DecidedInv, QuietStep, TypeInv, TypeOK, slipVars,
         rowVars, netVars, handlerVars, history
<1>1. CASE ManualMark
  <2>1. \A p \in AllSlips : paymentRef'[p] \in Rows =>
          paymentRef'[p] = paymentRef[p] /\ paymentStatus'[p] = paymentStatus[p]
    BY <1>1, ConstAssumption DEF ManualMark
  <2>2. QuietStep BY <1>1, <2>1 DEF ManualMark
  <2>. QED BY <2>2, QuietSafe
<1>2. CASE ManualStamp BY <1>2, QuietSafe DEF ManualStamp
<1>3. CASE ManualCrash BY <1>3, QuietSafe DEF ManualCrash
<1>. QED BY <1>1, <1>2, <1>3

\* Safaricom decides an accepted payment: the money stays out, or comes back.
LEMMA ProviderSafe ==
    ASSUME IInv, NEW r \in Rows, ProviderDecides(r) PROVE SafeInv'
<1>. USE DEF IInv, SafeInv, TypeInv, TypeOK, LocalsOK, slipVars, rowVars,
         handlerVars, history
<1>1. PICK outcome \in {"paid", "failed"} :
        /\ provider[r] = "accepted"
        /\ provider' = [provider EXCEPT ![r] = outcome]
        /\ results' = results \cup {r}
        /\ UNCHANGED <<mode, status, payslip, marking, pc, slip, row, raced,
                       unacked, paymentStatus, paymentRef>>
  BY DEF ProviderDecides
<1>2. \A s \in Rows : MoneyOut(s)' => MoneyOut(s) BY <1>1 DEF MoneyOut
<1>3. \A s \in Rows : Open(s)' => Open(s) BY <1>1, <1>2 DEF Open
<1>4. FreshInv' BY <1>1 DEF FreshInv
<1>5. HoldingInv' BY <1>1 DEF HoldingInv, Holding
<1>6. ExclusiveInv' BY <1>1 DEF ExclusiveInv, Holding
<1>7. AckedInv' BY <1>1, <1>2 DEF AckedInv
<1>8. DecidedInv' BY <1>1 DEF DecidedInv
<1>9. WindowInv' BY <1>1, <1>3 DEF WindowInv
<1>10. NoDoubleInv' BY <1>1, <1>3 DEF NoDoubleInv
<1>11. PaidSlipHasMoney' BY <1>1 DEF PaidSlipHasMoney
<1>. QED BY <1>4, <1>5, <1>6, <1>7, <1>8, <1>9, <1>10, <1>11

\* A claim follows Safaricom's decision, so FAILED never hides money.
LEMMA ClaimSafe == ASSUME IInv, NEW r \in Rows, WebhookClaim(r) PROVE SafeInv'
<1>. USE DEF IInv, SafeInv, TypeInv, TypeOK, LocalsOK, slipVars, netVars,
         handlerVars, history
<1>1. /\ r \in results
      /\ status' = [status EXCEPT ![r] =
                      IF provider[r] = "paid" THEN "COMPLETED" ELSE "FAILED"]
      /\ marking' \subseteq marking \cup {s \in {r} : provider[s] = "paid"}
      /\ UNCHANGED <<mode, payslip, provider, results, pc, slip, row, raced,
                     unacked, paymentStatus, paymentRef>>
  BY DEF WebhookClaim, Claimable, Succeeded
<1>2. provider[r] \in {"paid", "failed"} BY <1>1 DEF DecidedInv
<1>3. \A h \in Handlers : pc[h] = "send" => row[h] # r
  BY <1>2 DEF HoldingInv
<1>4. \A s \in Rows : Open(s)' => Open(s) BY <1>1 DEF Open, MoneyOut
<1>5. FreshInv' BY <1>1 DEF FreshInv
<1>6. HoldingInv' BY <1>1, <1>3 DEF HoldingInv, Holding
<1>7. ExclusiveInv' BY <1>1 DEF ExclusiveInv, Holding
<1>8. AckedInv' BY <1>1, <1>2 DEF AckedInv, MoneyOut, ActiveStatuses
<1>9. DecidedInv' BY <1>1, <1>2 DEF DecidedInv
<1>10. WindowInv' BY <1>1, <1>4 DEF WindowInv
<1>11. NoDoubleInv' BY <1>1, <1>4 DEF NoDoubleInv
<1>12. PaidSlipHasMoney' BY <1>1 DEF PaidSlipHasMoney
<1>. QED BY <1>5, <1>6, <1>7, <1>8, <1>9, <1>10, <1>11, <1>12

\* The webhook writes the receipt of a row it knows to be paid.
LEMMA MarkPaidSafe ==
    ASSUME IInv, NEW r \in Rows, WebhookMarkPaid(r) PROVE SafeInv'
<1>. USE DEF IInv, SafeInv, TypeInv, TypeOK, LocalsOK, rowVars, netVars,
         handlerVars, history
<1>1. /\ r \in marking /\ marking' = marking \ {r}
      /\ paymentStatus' = [paymentStatus EXCEPT ![payslip[r]] = "PAID"]
      /\ paymentRef' = [paymentRef EXCEPT ![payslip[r]] = r]
      /\ UNCHANGED <<mode, status, payslip, provider, results, pc, slip, row,
                     raced, unacked>>
  BY DEF WebhookMarkPaid
<1>2. provider[r] = "paid" /\ status[r] # "NONE"
  BY <1>1 DEF DecidedInv, FreshInv
<1>3. \A s \in Rows : Open(s)' => Open(s) BY <1>1 DEF Open, MoneyOut
<1>4. FreshInv' BY <1>1, <1>2 DEF FreshInv
<1>5. HoldingInv' BY <1>1 DEF HoldingInv, Holding
<1>6. ExclusiveInv' BY <1>1 DEF ExclusiveInv, Holding
<1>7. AckedInv' BY <1>1 DEF AckedInv, MoneyOut
<1>8. DecidedInv' BY <1>1 DEF DecidedInv
<1>9. WindowInv' BY <1>1, <1>3 DEF WindowInv
<1>10. NoDoubleInv' BY <1>1, <1>3 DEF NoDoubleInv
<1>11. PaidSlipHasMoney' BY <1>1, <1>2 DEF PaidSlipHasMoney
<1>. QED BY <1>4, <1>5, <1>6, <1>7, <1>8, <1>9, <1>10, <1>11

\* The invariant survives every step.
LEMMA NextSafe == IInv /\ [Next]_vars => SafeInv'
<1>. SUFFICES ASSUME IInv, [Next]_vars PROVE SafeInv' OBVIOUS
<1>1. CASE UNCHANGED vars
  BY <1>1, QuietSafe
     DEF vars, slipVars, rowVars, netVars, handlerVars, history, QuietStep,
         IInv, SafeInv, DecidedInv
<1>2. ASSUME NEW h \in Handlers, Start(h) PROVE SafeInv'
  BY <1>2, QuietHandlerSteps DEF Start
<1>3. ASSUME NEW h \in Handlers, Continue(h) PROVE SafeInv'
  BY <1>3, QuietHandlerSteps, LeavingSteps, CheckSafe, CreateSafe, SendSafe,
     RecordSafe, SettleSafe DEF Continue
<1>4. ASSUME NEW h \in Handlers, CrashHandler(h) PROVE SafeInv'
  BY <1>4, LeavingSteps
<1>5. ASSUME NEW r \in Rows, \/ ProviderDecides(r) \/ LoseResult(r) \/ Age(r)
                             \/ Webhook(r) \/ WebhookCrash(r)
      PROVE  SafeInv'
  BY <1>5, ProviderSafe, QuietOtherSteps, ClaimSafe, MarkPaidSafe DEF Webhook
<1>6. CASE ManualMark \/ ManualStamp \/ ManualCrash BY <1>6, ManualSafe
<1>. QED BY <1>1, <1>2, <1>3, <1>4, <1>5, <1>6 DEF Next

\* The inductive invariant holds of every behaviour.
THEOREM Inductive == Spec => []IInv
<1>1. Init => IInv BY InitTypeInv, InitSafe DEF IInv
<1>2. IInv /\ [Next]_vars => IInv' BY NextTypeInv, NextSafe DEF IInv
<1>. QED BY <1>1, <1>2, PTL DEF Spec

\* Whatever the interleaving of handlers, sweeps, webhooks and crashes, the
\* disbursement pays a payslip twice only through the two named holes.
THEOREM DoublePayHoles == Spec => []DoublePayOnlyThroughHoles
<1>1. IInv => DoublePayOnlyThroughHoles
  BY DEF IInv, SafeInv, NoDoubleInv, DoublePayOnlyThroughHoles, Open
<1>. QED BY <1>1, Inductive, PTL

\* A row the retry may pay again has no money out, unless unacknowledged.
THEOREM FailedSafe == Spec => []FailedMeansNoMoney
<1>1. IInv => FailedMeansNoMoney
  BY DEF IInv, SafeInv, AckedInv, FailedMeansNoMoney, ActiveStatuses
<1>. QED BY <1>1, Inductive, PTL

\* A receipt on a payslip is the receipt of an executed payment of its own.
THEOREM ReceiptsAreReal == Spec => []PaidSlipHasMoney
<1>1. IInv => PaidSlipHasMoney BY DEF IInv, SafeInv
<1>. QED BY <1>1, Inductive, PTL

-----------------------------------------------------------------------------
\* A run that is stamped, or about to be, owes nobody.
Stamped == paidAt \/ stamping => Unpaid = {}

\* No payslip is unpaid again, and a stamp finds none unpaid.
Pays ==
    /\ \A p \in Payslips : paymentStatus'[p] = "PENDING" => paymentStatus[p] = "PENDING"
    /\ paidAt' => paidAt \/ stamping \/ Unpaid = {}
    /\ stamping' => stamping \/ Unpaid' = {}

\* The steps of the handlers.
LEMMA HandlersPay ==
    ASSUME TypeOK, NEW h \in Handlers, Start(h) \/ Continue(h) \/ CrashHandler(h)
    PROVE  Pays
<1>. USE DEF Pays
<1>1. CASE Start(h)
  BY <1>1 DEF Start, StartDisburse, StartRetry, StartRefresh, StartSweep, slipVars
<1>2. CASE RetrySnapshot(h) \/ RetryDetails(h) \/ SkipPayslip(h) \/ CheckPayslip(h)
  BY <1>2 DEF RetrySnapshot, RetryDetails, SkipPayslip, CheckPayslip, slipVars
<1>3. CASE CreateRow(h) \/ CreateFails(h)
  BY <1>3 DEF CreateRow, CreateFails, slipVars
<1>4. CASE SendAccepted(h) \/ SendRejected(h) \/ SendUnacknowledged(h)
  BY <1>4 DEF SendAccepted, SendRejected, SendUnacknowledged, slipVars
<1>5. CASE RecordAccepted(h) \/ RecordFailure(h)
  BY <1>5 DEF RecordAccepted, RecordFailure, slipVars
<1>6. CASE SettleMock(h)
  <2>1. paymentStatus \in [AllSlips -> {"PENDING", "PAID"}] BY DEF TypeOK
  <2>2. \A p \in Payslips : paymentStatus'[p] = "PENDING" => paymentStatus[p] = "PENDING"
    BY <1>6, <2>1 DEF SettleMock, AllSlips
  <2>3. paidAt' = paidAt /\ stamping' = stamping BY <1>6 DEF SettleMock
  <2>. QED BY <2>2, <2>3
<1>7. CASE FinishLoop(h)
  <2>1. /\ paymentStatus' = paymentStatus /\ stamping' = stamping
        /\ paidAt' => paidAt \/ Unpaid = {}
    BY <1>7 DEF FinishLoop, NoneRemaining
  <2>. QED BY <2>1
<1>8. CASE ReadStuck(h) \/ QueryStatus(h) \/ QueryFails(h) \/ FinishQuery(h)
  BY <1>8 DEF ReadStuck, QueryStatus, QueryFails, FinishQuery, slipVars
<1>9. CASE CrashHandler(h) BY <1>9 DEF CrashHandler, slipVars
<1>. QED BY <1>1, <1>2, <1>3, <1>4, <1>5, <1>6, <1>7, <1>8, <1>9 DEF Continue

\* The steps of everybody else.
LEMMA OthersPay ==
    ASSUME TypeOK,
           \/ \E r \in Rows : \/ ProviderDecides(r) \/ LoseResult(r) \/ Age(r)
                              \/ Webhook(r) \/ WebhookCrash(r)
           \/ ManualMark \/ ManualStamp \/ ManualCrash
    PROVE  Pays
<1>. USE DEF Pays
<1>0. paymentStatus \in [AllSlips -> {"PENDING", "PAID"}] /\ Payslips \subseteq AllSlips
  BY DEF TypeOK, AllSlips
<1>1. ASSUME NEW r \in Rows, ProviderDecides(r) \/ LoseResult(r) \/ Age(r) \/ WebhookCrash(r)
      PROVE  Pays
  BY <1>1 DEF ProviderDecides, LoseResult, Age, WebhookCrash, slipVars
<1>2. ASSUME NEW r \in Rows, Webhook(r) PROVE Pays
  <2>1. CASE WebhookClaim(r) BY <2>1 DEF WebhookClaim, slipVars
  <2>2. CASE WebhookMarkPaid(r)
    <3>1. \A p \in Payslips : paymentStatus'[p] = "PENDING" => paymentStatus[p] = "PENDING"
      BY <1>0, <2>2 DEF WebhookMarkPaid
    <3>2. paidAt' = paidAt /\ stamping' = stamping BY <2>2 DEF WebhookMarkPaid
    <3>. QED BY <3>1, <3>2
  <2>. QED BY <1>2, <2>1, <2>2 DEF Webhook
<1>3. CASE ManualMark
  <2>1. /\ paidAt' = paidAt
        /\ \A p \in AllSlips :
              paymentStatus'[p] = IF p \in Unpaid THEN "PAID" ELSE paymentStatus[p]
    BY <1>3 DEF ManualMark
  <2>2. \A p \in Payslips : paymentStatus'[p] # "PENDING" BY <1>0, <2>1 DEF Unpaid
  <2>3. Unpaid' = {} BY <2>2 DEF Unpaid
  <2>. QED BY <2>1, <2>2, <2>3
<1>4. CASE ManualStamp BY <1>4 DEF ManualStamp
<1>5. CASE ManualCrash BY <1>5 DEF ManualCrash, slipVars
<1>. QED BY <1>1, <1>2, <1>3, <1>4, <1>5

\* A stamp says that everybody was paid.
THEOREM StampMeansPaid == Spec => []PaidAtMeansAllPaid
<1>1. Init => Stamped BY DEF Init, Stamped
<1>2. TypeOK /\ Stamped /\ [Next]_vars => Stamped'
  <2>1. ASSUME TypeOK, Stamped, Next PROVE Stamped'
    <3>1. Pays BY <2>1, HandlersPay, OthersPay DEF Next
    <3>2. Unpaid' \subseteq Unpaid BY <3>1 DEF Pays, Unpaid
    <3>. QED BY <2>1, <3>1, <3>2 DEF Pays, Stamped
  <2>2. ASSUME Stamped, UNCHANGED vars PROVE Stamped'
    BY <2>2 DEF vars, slipVars, Stamped, Unpaid
  <2>. QED BY <2>1, <2>2
<1>3. Stamped => PaidAtMeansAllPaid BY DEF Stamped, PaidAtMeansAllPaid
<1>. QED BY <1>1, <1>2, <1>3, TypeCorrect, PTL DEF Spec

\* What is on record is what happened to the money.
THEOREM RecordsHold == Spec => []RecordsAreTrue
<1>1. FailedMeansNoMoney /\ PaidSlipHasMoney /\ PaidAtMeansAllPaid => RecordsAreTrue
  BY DEF RecordsAreTrue
<1>. QED BY <1>1, FailedSafe, ReceiptsAreReal, StampMeansPaid, PTL

-----------------------------------------------------------------------------
(* Settling once. A result is claimed under callbackReceived, and a receipt *)
(* is only written for a claimed row whose webhook is then through; a       *)
(* handler before its request holds a row nobody claimed.                   *)

\* Where a claim, a receipt and an initiation stand to each other.
ClaimInv ==
    /\ \A r \in marking : callback[r]
    /\ \A p \in AllSlips : \A r \in Rows :
          paymentRef[p] = r => callback[r] /\ r \notin marking
    /\ \A r \in Rows : status[r] # "NONE" => payslip[r] \in AllSlips
    /\ \A r \in Rows : callback[r] => provider[r] # "accepted"
    /\ \A h \in Handlers :
          /\ pc[h] = "send" => ~callback[row[h]]
          /\ pc[h] = "settle" => callback[row[h]] /\ provider[row[h]] = "none"

\* What holds as long as nothing crashed: a claimed success is on the payslip,
\* or its webhook is about to put it there, and a PENDING row has its handler.
NothingDropped ==
    crashes = 0 =>
        \A r \in Rows :
           /\ callback[r] /\ provider[r] = "paid" /\ r \notin marking
                 => paymentStatus[payslip[r]] = "PAID"
           /\ status[r] = "PENDING" => \E h \in Handlers : row[h] = r /\ Busy(h)

SettleInv == ClaimInv /\ NothingDropped

\* At the start there is no row at all.
LEMMA InitSettle == Init => SettleInv
<1>. SUFFICES ASSUME Init PROVE SettleInv OBVIOUS
<1>1. ClaimInv BY ConstAssumption DEF Init, ClaimInv
<1>2. NothingDropped BY DEF Init, NothingDropped
<1>. QED BY <1>1, <1>2 DEF SettleInv

\* A step that claims nothing, writes no receipt and takes no handler away from
\* its row, unless it is a crash.
Aside ==
    /\ UNCHANGED <<status, payslip, callback, provider>>
    /\ marking' \subseteq marking
    /\ \A p \in AllSlips :
          /\ paymentRef'[p] \in Rows => paymentRef'[p] = paymentRef[p]
          /\ paymentStatus[p] = "PAID" => paymentStatus'[p] = "PAID"
    /\ \A h \in Handlers :
          pc'[h] \in {"send", "settle"} => pc'[h] = pc[h] /\ row'[h] = row[h]
    /\ \/ crashes' # 0
       \/ /\ crashes' = crashes /\ marking' = marking
          /\ \A h \in Handlers : Busy(h) => Busy(h)' /\ row'[h] = row[h]

\* Such a step keeps the invariant.
LEMMA AsideSettles == ASSUME IInv, SettleInv, Aside PROVE SettleInv'
<1>. USE DEF SettleInv, Aside
<1>1. ClaimInv' BY DEF ClaimInv
<1>2. CASE crashes' # 0 BY <1>1, <1>2 DEF NothingDropped
<1>3. CASE crashes' = 0
  <2>1. /\ crashes = 0 /\ marking' = marking
        /\ \A h \in Handlers : Busy(h) => Busy(h)' /\ row'[h] = row[h]
    BY <1>3
  <2>2. ASSUME NEW r \in Rows, callback'[r], provider'[r] = "paid", r \notin marking'
        PROVE  paymentStatus'[payslip'[r]] = "PAID"
    <3>1. paymentStatus[payslip[r]] = "PAID" BY <2>1, <2>2 DEF NothingDropped
    <3>2. status[r] # "NONE" BY <2>2 DEF IInv, SafeInv, FreshInv
    <3>3. payslip[r] \in AllSlips BY <3>2 DEF ClaimInv
    <3>. QED BY <3>1, <3>3
  <2>3. ASSUME NEW r \in Rows, status'[r] = "PENDING"
        PROVE  \E h \in Handlers : row'[h] = r /\ Busy(h)'
    <3>1. PICK h \in Handlers : row[h] = r /\ Busy(h)
      BY <2>1, <2>3 DEF NothingDropped
    <3>. QED BY <2>1, <3>1
  <2>4. NothingDropped' BY <2>2, <2>3 DEF NothingDropped
  <2>. QED BY <1>1, <2>4
<1>. QED BY <1>2, <1>3

\* The steps of a handler that holds no row, or whose request was refused.
LEMMA HandlerAside ==
    ASSUME IInv, NEW h \in Handlers,
           \/ StartDisburse(h) \/ StartRetry(h) \/ StartRefresh(h)
           \/ StartSweep(h) \/ RetryDetails(h) \/ SkipPayslip(h)
           \/ CheckPayslip(h) \/ CreateFails(h) \/ SendRejected(h)
           \/ ReadStuck(h) \/ QueryStatus(h) \/ QueryFails(h)
    PROVE  Aside
<1>. USE DEF IInv, Aside, Goto, TypeInv, TypeOK, slipVars, rowVars, netVars,
         faults, Busy
<1>1. CASE StartDisburse(h) BY <1>1 DEF StartDisburse
<1>2. CASE StartRetry(h) BY <1>2 DEF StartRetry
<1>3. CASE StartRefresh(h) BY <1>3 DEF StartRefresh
<1>4. CASE StartSweep(h) BY <1>4 DEF StartSweep
<1>5. CASE RetryDetails(h) BY <1>5 DEF RetryDetails
<1>6. CASE SkipPayslip(h) BY <1>6 DEF SkipPayslip
<1>7. CASE CheckPayslip(h) BY <1>7 DEF CheckPayslip
<1>8. CASE CreateFails(h) BY <1>8 DEF CreateFails, NextPayslip
<1>9. CASE SendRejected(h) BY <1>9 DEF SendRejected
<1>10. CASE ReadStuck(h) BY <1>10 DEF ReadStuck
<1>11. CASE QueryStatus(h) BY <1>11 DEF QueryStatus
<1>12. CASE QueryFails(h) BY <1>12 DEF QueryFails
<1>. QED BY <1>1, <1>2, <1>3, <1>4, <1>5, <1>6, <1>7, <1>8, <1>9, <1>10, <1>11,
            <1>12

\* A service that ends held no row; one that crashes is counted.
LEMMA LeavingAside ==
    ASSUME IInv, NEW h \in Handlers,
           RetrySnapshot(h) \/ FinishLoop(h) \/ FinishQuery(h) \/ CrashHandler(h)
    PROVE  Aside
<1>. USE DEF slipVars, rowVars, netVars, faults
<1>1. /\ UNCHANGED <<status, payslip, callback, provider, marking>>
      /\ paymentRef' = paymentRef /\ paymentStatus' = paymentStatus
  BY DEF RetrySnapshot, FinishLoop, FinishQuery, CrashHandler
<1>2. \E l \in {"idle", "stuck", "details"} : pc' = [pc EXCEPT ![h] = l]
  BY DEF RetrySnapshot, FinishLoop, FinishQuery, CrashHandler, Return, Leave, Goto
<1>3. row' = [row EXCEPT ![h] = NoOne] \/ row' = row
  BY DEF RetrySnapshot, FinishLoop, FinishQuery, CrashHandler, Return, Leave
<1>4. crashes' # 0 \/ (crashes' = crashes /\ ~Busy(h))
  <2>1. CASE CrashHandler(h)
    <3>1. crashes \in 0..MaxCrashes BY DEF IInv, TypeInv, TypeOK
    <3>2. crashes' = crashes + 1 BY <2>1 DEF CrashHandler
    <3>. QED BY <3>1, <3>2, ConstAssumption
  <2>2. CASE RetrySnapshot(h) \/ FinishLoop(h) \/ FinishQuery(h)
    BY <2>2 DEF RetrySnapshot, FinishLoop, FinishQuery, Busy
  <2>. QED BY <2>1, <2>2
<1>5. pc \in [Handlers -> Pcs] /\ row \in [Handlers -> Rows \cup {NoOne}]
  BY DEF IInv, TypeInv, TypeOK
<1>6. \A g \in Handlers : g # h => pc'[g] = pc[g] /\ row'[g] = row[g]
  BY <1>2, <1>3, <1>5
<1>7. pc'[h] \notin {"send", "settle"} BY <1>2, <1>5
<1>8. \A g \in Handlers :
         pc'[g] \in {"send", "settle"} => pc'[g] = pc[g] /\ row'[g] = row[g]
  BY <1>6, <1>7
<1>9. crashes' # 0 \/ (/\ crashes' = crashes /\ marking' = marking
                       /\ \A g \in Handlers : Busy(g) => Busy(g)' /\ row'[g] = row[g])
  BY <1>1, <1>4, <1>6 DEF Busy
<1>. QED BY <1>1, <1>8, <1>9 DEF Aside

\* A lost result, the clock, a webhook that dies and the manual disbursement,
\* which writes a receipt of its own kind.
LEMMA OtherAside ==
    ASSUME IInv,
           \/ \E r \in Rows : LoseResult(r) \/ Age(r) \/ WebhookCrash(r)
           \/ ManualMark \/ ManualStamp \/ ManualCrash
    PROVE  Aside
<1>. USE DEF slipVars, rowVars, netVars, handlerVars, faults
<1>0. crashes \in Nat
  BY ConstAssumption DEF IInv, TypeInv, TypeOK
<1>1. ASSUME NEW r \in Rows, LoseResult(r) PROVE Aside
  BY <1>1 DEF LoseResult, Aside, Busy
<1>2. ASSUME NEW r \in Rows, Age(r) PROVE Aside BY <1>2 DEF Age, Aside, Busy
<1>3. ASSUME NEW r \in Rows, WebhookCrash(r) PROVE Aside
  <2>1. crashes' # 0 BY <1>0, <1>3 DEF WebhookCrash
  <2>. QED BY <1>3, <2>1 DEF WebhookCrash, Aside
<1>4. CASE ManualMark
  <2>1. \A p \in AllSlips :
           /\ paymentRef'[p] \in Rows => paymentRef'[p] = paymentRef[p]
           /\ paymentStatus[p] = "PAID" => paymentStatus'[p] = "PAID"
    BY <1>4, ConstAssumption DEF ManualMark
  <2>. QED BY <1>4, <2>1 DEF ManualMark, Aside, Busy
<1>5. CASE ManualStamp BY <1>5 DEF ManualStamp, Aside, Busy
<1>6. CASE ManualCrash
  <2>1. crashes' # 0 BY <1>0, <1>6 DEF ManualCrash
  <2>. QED BY <1>6, <2>1 DEF ManualCrash, Aside
<1>. QED BY <1>1, <1>2, <1>3, <1>4, <1>5, <1>6

\* A new row is unclaimed unless the mock provider paid it, and PENDING only
\* in the hands of the handler that created it.
LEMMA CreateSettles ==
    ASSUME IInv, SettleInv, NEW h \in Handlers, CreateRow(h) PROVE SettleInv'
<1>. USE DEF IInv, SafeInv, TypeInv, TypeOK, LocalsOK, slipVars, netVars, faults
<1>1. PICK r \in Rows \ Created :
        /\ status' = [status EXCEPT ![r] =
                        IF mode = "mock" THEN "COMPLETED" ELSE "PENDING"]
        /\ callback' = [callback EXCEPT ![r] = mode = "mock"]
        /\ payslip' = [payslip EXCEPT ![r] = slip[h]]
        /\ row' = [row EXCEPT ![h] = r]
  BY DEF CreateRow
<1>2. /\ pc[h] = "create" /\ slip[h] \in AllSlips
      /\ pc' = [pc EXCEPT ![h] = IF mode = "mock" THEN "settle" ELSE "send"]
      /\ UNCHANGED <<mode, provider, marking, paymentStatus, paymentRef, crashes>>
  BY DEF CreateRow, Goto
<1>3. status[r] = "NONE" BY DEF Created
<1>4. provider[r] = "none" BY <1>3 DEF FreshInv
<1>5. r \notin marking BY <1>4 DEF DecidedInv
<1>6. \A p \in AllSlips : paymentRef[p] # r BY <1>3 DEF FreshInv
<1>7. \A g \in Handlers : Holding(g) => row[g] # r BY <1>3 DEF HoldingInv
<1>8. \A s \in Rows : s # r => /\ status'[s] = status[s]
                               /\ callback'[s] = callback[s]
                               /\ payslip'[s] = payslip[s]
  BY <1>1
<1>9. callback'[r] = (mode = "mock") /\ payslip'[r] = slip[h]
  BY <1>1
<1>10. \A g \in Handlers : g # h => pc'[g] = pc[g] /\ row'[g] = row[g]
  BY <1>1, <1>2
<1>11. row'[h] = r /\ pc'[h] = IF mode = "mock" THEN "settle" ELSE "send"
  BY <1>1, <1>2
<1>12. ClaimInv'
  <2>1. ASSUME NEW s \in marking' PROVE callback'[s]
    <3>1. s \in Rows /\ s \in marking /\ s # r BY <1>2, <1>5
    <3>2. callback[s] BY <3>1, Zenon DEF SettleInv, ClaimInv
    <3>3. callback'[s] = callback[s] BY <1>8, <3>1, Zenon
    <3>. QED BY <3>2, <3>3, Zenon
  <2>2. ASSUME NEW p \in AllSlips, NEW s \in Rows, paymentRef'[p] = s
        PROVE  callback'[s] /\ s \notin marking'
    BY <1>2, <1>6, <1>8, <2>2 DEF SettleInv, ClaimInv
  <2>3. \A s \in Rows : status'[s] # "NONE" => payslip'[s] \in AllSlips
    BY <1>2, <1>8, <1>9 DEF SettleInv, ClaimInv
  <2>4. \A s \in Rows : callback'[s] => provider'[s] # "accepted"
    BY <1>2, <1>4, <1>8 DEF SettleInv, ClaimInv
  <2>5. ASSUME NEW g \in Handlers
        PROVE  /\ pc'[g] = "send" => ~callback'[row'[g]]
               /\ pc'[g] = "settle" =>
                     callback'[row'[g]] /\ provider'[row'[g]] = "none"
    <3>1. CASE g = h BY <1>2, <1>4, <1>9, <1>11, <3>1
    <3>2. CASE g # h
      BY <1>2, <1>7, <1>8, <1>10, <3>2 DEF SettleInv, ClaimInv, Holding
    <3>. QED BY <3>1, <3>2
  <2>. QED BY <2>1, <2>2, <2>3, <2>4, <2>5 DEF ClaimInv
<1>13. NothingDropped'
  <2>. SUFFICES ASSUME crashes' = 0, NEW s \in Rows
                PROVE  /\ callback'[s] /\ provider'[s] = "paid" /\ s \notin marking'
                             => paymentStatus'[payslip'[s]] = "PAID"
                       /\ status'[s] = "PENDING" =>
                             \E g \in Handlers : row'[g] = s /\ Busy(g)'
    BY DEF NothingDropped
  <2>1. CASE s = r
    <3>1. provider'[s] # "paid" BY <1>2, <1>4, <2>1
    <3>2. ASSUME status'[s] = "PENDING" PROVE row'[h] = s /\ Busy(h)'
      <4>1. mode # "mock" BY <1>1, <2>1, <3>2
      <4>. QED BY <1>11, <2>1, <4>1 DEF Busy
    <3>. QED BY <3>1, <3>2
  <2>2. CASE s # r
    <3>1. callback[s] /\ provider[s] = "paid" /\ s \notin marking
             => paymentStatus[payslip[s]] = "PAID"
      BY <1>2 DEF SettleInv, NothingDropped
    <3>2. ASSUME status'[s] = "PENDING"
          PROVE  \E g \in Handlers : row'[g] = s /\ Busy(g)'
      <4>1. PICK g \in Handlers : row[g] = s /\ Busy(g)
        BY <1>2, <1>8, <2>2, <3>2 DEF SettleInv, NothingDropped
      <4>2. g # h BY <1>2, <4>1 DEF Busy
      <4>. QED BY <1>10, <4>1, <4>2 DEF Busy
    <3>. QED BY <1>2, <1>8, <2>2, <3>1, <3>2
  <2>. QED BY <2>1, <2>2
<1>. QED BY <1>12, <1>13 DEF SettleInv

\* A request Safaricom accepts is of a row nobody claimed.
LEMMA SendSettles ==
    ASSUME IInv, SettleInv, NEW h \in Handlers,
           SendAccepted(h) \/ SendUnacknowledged(h)
    PROVE  SettleInv'
<1>. USE DEF IInv, SafeInv, TypeInv, TypeOK, LocalsOK, slipVars, rowVars,
         netVars, faults
<1>1. /\ pc[h] = "send" /\ row[h] \in Rows
      /\ provider' = [provider EXCEPT ![row[h]] = "accepted"]
      /\ pc' = [pc EXCEPT ![h] = IF SendAccepted(h) THEN "record" ELSE "fail"]
      /\ UNCHANGED <<status, payslip, callback, marking, row, paymentStatus,
                     paymentRef, crashes>>
  BY DEF SendAccepted, SendUnacknowledged, Goto
<1>2. ~callback[row[h]] BY <1>1 DEF SettleInv, ClaimInv
<1>3. \A g \in Handlers : g # h /\ Holding(g) => row[g] # row[h]
  BY <1>1 DEF ExclusiveInv, Holding
<1>4. \A g \in Handlers : pc'[g] \in {"send", "settle"} => pc'[g] = pc[g] /\ g # h
  BY <1>1
<1>5. \A g \in Handlers : Busy(g) => Busy(g)' BY <1>1 DEF Busy
<1>6. ClaimInv'
  <2>1. \A s \in Rows : callback'[s] => provider'[s] # "accepted"
    BY <1>1, <1>2 DEF SettleInv, ClaimInv
  <2>2. \A g \in Handlers :
          /\ pc'[g] = "send" => ~callback'[row'[g]]
          /\ pc'[g] = "settle" => callback'[row'[g]] /\ provider'[row'[g]] = "none"
    BY <1>1, <1>3, <1>4 DEF SettleInv, ClaimInv, Holding
  <2>. QED BY <1>1, <2>1, <2>2 DEF SettleInv, ClaimInv
<1>7. NothingDropped' BY <1>1, <1>5 DEF SettleInv, NothingDropped
<1>. QED BY <1>6, <1>7 DEF SettleInv

\* What the handler records of its row is no longer PENDING.
LEMMA RecordSettles ==
    ASSUME IInv, SettleInv, NEW h \in Handlers,
           RecordAccepted(h) \/ RecordFailure(h)
    PROVE  SettleInv'
<1>. USE DEF IInv, SafeInv, TypeInv, TypeOK, LocalsOK, slipVars, netVars, faults
<1>1. /\ pc[h] \in {"record", "fail"} /\ row[h] \in Rows
      /\ pc' = [pc EXCEPT ![h] = "loop"] /\ row' = [row EXCEPT ![h] = NoOne]
      /\ status' = [status EXCEPT ![row[h]] =
                      IF pc[h] = "record" THEN "PROCESSING" ELSE "FAILED"]
      /\ UNCHANGED <<payslip, callback, provider, marking, paymentStatus,
                     paymentRef, crashes>>
  BY DEF RecordAccepted, RecordFailure, MarkRowFailed, NextPayslip, Goto
<1>2. status[row[h]] # "NONE" BY <1>1 DEF HoldingInv, Holding
<1>3. \A g \in Handlers : g # h => pc'[g] = pc[g] /\ row'[g] = row[g]
  BY <1>1
<1>4. ClaimInv'
  <2>1. \A s \in Rows : status'[s] # "NONE" => payslip'[s] \in AllSlips
    BY <1>1, <1>2 DEF SettleInv, ClaimInv
  <2>2. pc'[h] = "loop" BY <1>1
  <2>. QED BY <1>1, <1>3, <2>1, <2>2 DEF SettleInv, ClaimInv
<1>5. NothingDropped'
  <2>1. ASSUME crashes' = 0, NEW s \in Rows, status'[s] = "PENDING"
        PROVE  \E g \in Handlers : row'[g] = s /\ Busy(g)'
    <3>1. s # row[h] /\ status[s] = "PENDING" /\ crashes = 0 BY <1>1, <2>1
    <3>2. PICK g \in Handlers : row[g] = s /\ Busy(g)
      BY <3>1 DEF SettleInv, NothingDropped
    <3>. QED BY <1>3, <3>1, <3>2 DEF Busy
  <2>. QED BY <1>1, <2>1 DEF SettleInv, NothingDropped
<1>. QED BY <1>4, <1>5 DEF SettleInv

\* The mock provider's receipt is of a row claimed when it was created.
LEMMA SettleSettles ==
    ASSUME IInv, SettleInv, NEW h \in Handlers, SettleMock(h) PROVE SettleInv'
<1>. USE DEF IInv, SafeInv, TypeInv, TypeOK, LocalsOK, rowVars, netVars, faults
<1>1. /\ pc[h] = "settle" /\ row[h] \in Rows /\ slip[h] \in AllSlips
      /\ callback[row[h]] /\ provider[row[h]] = "none"
  BY DEF SettleMock, SettleInv, ClaimInv
<1>2. /\ pc' = [pc EXCEPT ![h] = "loop"] /\ row' = [row EXCEPT ![h] = NoOne]
      /\ paymentStatus' = [paymentStatus EXCEPT ![slip[h]] = "PAID"]
      /\ paymentRef' = [paymentRef EXCEPT ![slip[h]] = row[h]]
      /\ UNCHANGED <<status, payslip, callback, provider, marking, crashes>>
  BY DEF SettleMock, NextPayslip, Goto
<1>3. row[h] \notin marking BY <1>1 DEF DecidedInv
<1>4. \A g \in Handlers : g # h => pc'[g] = pc[g] /\ row'[g] = row[g]
  BY <1>2
<1>5. ClaimInv'
  <2>1. ASSUME NEW p \in AllSlips, NEW s \in Rows, paymentRef'[p] = s
        PROVE  callback'[s] /\ s \notin marking'
    BY <1>1, <1>2, <1>3, <2>1 DEF SettleInv, ClaimInv
  <2>2. pc'[h] = "loop" BY <1>2
  <2>. QED BY <1>2, <1>4, <2>1, <2>2 DEF SettleInv, ClaimInv
<1>6. NothingDropped'
  <2>1. ASSUME crashes' = 0, NEW s \in Rows, status'[s] = "PENDING"
        PROVE  \E g \in Handlers : row'[g] = s /\ Busy(g)'
    <3>1. PICK g \in Handlers : row[g] = s /\ Busy(g)
      BY <1>2, <2>1 DEF SettleInv, NothingDropped
    <3>2. g # h BY <1>1, <3>1 DEF Busy
    <3>. QED BY <1>4, <3>1, <3>2 DEF Busy
  <2>2. \A p \in AllSlips : paymentStatus[p] = "PAID" => paymentStatus'[p] = "PAID"
    BY <1>2
  <2>3. ASSUME crashes' = 0, NEW s \in Rows, callback'[s], provider'[s] = "paid",
               s \notin marking'
        PROVE  paymentStatus'[payslip'[s]] = "PAID"
    <3>1. paymentStatus[payslip[s]] = "PAID"
      BY <1>2, <2>3 DEF SettleInv, NothingDropped
    <3>2. payslip[s] \in AllSlips
      BY <1>2, <2>3 DEF SettleInv, ClaimInv, FreshInv
    <3>. QED BY <1>2, <2>2, <3>1, <3>2
  <2>. QED BY <2>1, <2>3 DEF NothingDropped
<1>. QED BY <1>5, <1>6 DEF SettleInv

\* Safaricom decides about rows that were not claimed yet.
LEMMA ProviderSettles ==
    ASSUME IInv, SettleInv, NEW r \in Rows, ProviderDecides(r) PROVE SettleInv'
<1>. USE DEF IInv, SafeInv, TypeInv, TypeOK, LocalsOK, slipVars, rowVars,
         handlerVars, faults
<1>1. PICK outcome \in {"paid", "failed"} :
        /\ provider[r] = "accepted"
        /\ provider' = [provider EXCEPT ![r] = outcome]
        /\ UNCHANGED <<status, payslip, callback, marking, pc, row,
                       paymentStatus, paymentRef, crashes>>
  BY DEF ProviderDecides
<1>2. ~callback[r] BY <1>1 DEF SettleInv, ClaimInv
<1>3. ClaimInv' BY <1>1, <1>2 DEF SettleInv, ClaimInv
<1>4. NothingDropped' BY <1>1, <1>2 DEF SettleInv, NothingDropped, Busy
<1>. QED BY <1>3, <1>4 DEF SettleInv

\* The claim hands a success to the webhook that made it.
LEMMA ClaimSettles ==
    ASSUME IInv, SettleInv, NEW r \in Rows, WebhookClaim(r) PROVE SettleInv'
<1>. USE DEF IInv, SafeInv, TypeInv, TypeOK, LocalsOK, slipVars, netVars,
         handlerVars, faults
<1>1. /\ r \in results /\ ~callback[r]
      /\ callback' = [callback EXCEPT ![r] = TRUE]
      /\ status' = [status EXCEPT ![r] =
                      IF provider[r] = "paid" THEN "COMPLETED" ELSE "FAILED"]
      /\ marking' = marking \cup {s \in {r} : provider[s] = "paid"}
      /\ UNCHANGED <<payslip, provider, pc, row, paymentStatus, paymentRef, crashes>>
  BY DEF WebhookClaim, Claimable, Succeeded, SettlesPayslip
<1>2. provider[r] \in {"paid", "failed"} BY <1>1 DEF DecidedInv
<1>3. status[r] # "NONE" BY <1>2 DEF FreshInv
<1>4. \A h \in Handlers : pc[h] = "send" => row[h] # r BY <1>2 DEF HoldingInv
<1>5. ClaimInv'
  <2>1. \A s \in marking' : callback'[s] BY <1>1 DEF SettleInv, ClaimInv
  <2>2. \A p \in AllSlips : \A s \in Rows :
           paymentRef'[p] = s => callback'[s] /\ s \notin marking'
    BY <1>1 DEF SettleInv, ClaimInv
  <2>3. \A s \in Rows : status'[s] # "NONE" => payslip'[s] \in AllSlips
    BY <1>1, <1>3 DEF SettleInv, ClaimInv
  <2>4. \A s \in Rows : callback'[s] => provider'[s] # "accepted"
    BY <1>1, <1>2 DEF SettleInv, ClaimInv
  <2>5. \A h \in Handlers :
           /\ pc'[h] = "send" => ~callback'[row'[h]]
           /\ pc'[h] = "settle" =>
                 callback'[row'[h]] /\ provider'[row'[h]] = "none"
    BY <1>1, <1>4 DEF SettleInv, ClaimInv
  <2>. QED BY <2>1, <2>2, <2>3, <2>4, <2>5 DEF ClaimInv
<1>6. NothingDropped' BY <1>1 DEF SettleInv, NothingDropped, Busy
<1>. QED BY <1>5, <1>6 DEF SettleInv

\* The webhook that claimed the row writes its receipt and is through with it.
LEMMA MarkPaidSettles ==
    ASSUME IInv, SettleInv, NEW r \in Rows, WebhookMarkPaid(r) PROVE SettleInv'
<1>. USE DEF IInv, SafeInv, TypeInv, TypeOK, LocalsOK, rowVars, netVars,
         handlerVars, faults
<1>1. /\ r \in marking /\ marking' = marking \ {r}
      /\ paymentStatus' = [paymentStatus EXCEPT ![payslip[r]] = "PAID"]
      /\ paymentRef' = [paymentRef EXCEPT ![payslip[r]] = r]
      /\ UNCHANGED <<status, payslip, callback, provider, pc, row, crashes>>
  BY DEF WebhookMarkPaid
<1>2. callback[r] /\ payslip[r] \in AllSlips
  BY <1>1 DEF DecidedInv, FreshInv, SettleInv, ClaimInv
<1>3. \A p \in AllSlips : \A s \in Rows :
         paymentRef'[p] = s => callback'[s] /\ s \notin marking'
  BY <1>1, <1>2 DEF SettleInv, ClaimInv
<1>4. ClaimInv' BY <1>1, <1>3 DEF SettleInv, ClaimInv
<1>5. ASSUME crashes' = 0, NEW s \in Rows, callback'[s], provider'[s] = "paid",
             s \notin marking'
      PROVE  paymentStatus'[payslip'[s]] = "PAID"
  <2>1. CASE s = r BY <1>1, <1>2, <2>1
  <2>2. CASE s # r
    <3>1. paymentStatus[payslip[s]] = "PAID"
      BY <1>1, <1>5, <2>2 DEF SettleInv, NothingDropped
    <3>2. payslip[s] \in AllSlips
      BY <1>1, <1>5 DEF SettleInv, ClaimInv, FreshInv
    <3>. QED BY <1>1, <3>1, <3>2
  <2>. QED BY <2>1, <2>2
<1>6. NothingDropped' BY <1>1, <1>5 DEF SettleInv, NothingDropped, Busy
<1>. QED BY <1>4, <1>6 DEF SettleInv

\* Every step keeps what settling once rests on.
LEMMA NextSettles == IInv /\ SettleInv /\ [Next]_vars => SettleInv'
<1>. SUFFICES ASSUME IInv, SettleInv, [Next]_vars PROVE SettleInv' OBVIOUS
<1>1. CASE UNCHANGED vars
  <2>1. Aside
    BY <1>1 DEF vars, slipVars, rowVars, netVars, handlerVars, faults, Aside, Busy
  <2>. QED BY <2>1, AsideSettles
<1>2. ASSUME NEW h \in Handlers, Start(h) PROVE SettleInv'
  BY <1>2, HandlerAside, AsideSettles DEF Start
<1>3. ASSUME NEW h \in Handlers, Continue(h) PROVE SettleInv'
  BY <1>3, HandlerAside, LeavingAside, AsideSettles, CreateSettles, SendSettles,
     RecordSettles, SettleSettles DEF Continue
<1>4. ASSUME NEW h \in Handlers, CrashHandler(h) PROVE SettleInv'
  BY <1>4, LeavingAside, AsideSettles
<1>5. ASSUME NEW r \in Rows, \/ ProviderDecides(r) \/ LoseResult(r) \/ Age(r)
                             \/ Webhook(r) \/ WebhookCrash(r)
      PROVE  SettleInv'
  BY <1>5, ProviderSettles, OtherAside, AsideSettles, ClaimSettles,
     MarkPaidSettles DEF Webhook
<1>6. CASE ManualMark \/ ManualStamp \/ ManualCrash
  BY <1>6, OtherAside, AsideSettles
<1>. QED BY <1>1, <1>2, <1>3, <1>4, <1>5, <1>6 DEF Next

\* However often a result is posted it is settled once, and as long as nothing
\* crashes a claimed success reaches its payslip and no row is left PENDING
\* without a handler.
THEOREM SettledOnce == Spec => []SettledOnceUnlessCrashed
<1>1. Init => IInv BY InitTypeInv, InitSafe DEF IInv
<1>2. IInv /\ [Next]_vars => IInv' BY NextTypeInv, NextSafe DEF IInv
<1>3. IInv /\ SettleInv => SettledOnceUnlessCrashed
  <2>. SUFFICES ASSUME IInv, SettleInv PROVE SettledOnceUnlessCrashed OBVIOUS
  <2>1. ASSUME NEW r \in marking PROVE paymentRef[payslip[r]] # r
    <3>1. r \in Rows BY DEF IInv, TypeInv, TypeOK
    <3>2. status[r] # "NONE" BY <3>1 DEF IInv, SafeInv, DecidedInv, FreshInv
    <3>. QED BY <3>1, <3>2 DEF SettleInv, ClaimInv
  <2>. QED BY <2>1 DEF SettleInv, NothingDropped, SettledOnceUnlessCrashed
<1>. QED BY <1>1, <1>2, <1>3, InitSettle, NextSettles, PTL DEF Spec

-----------------------------------------------------------------------------
(***************************************************************************)
(* Proofs about PayrollRun for any number of users, requests, runs,         *)
(* corrections, computations and troubles. The argument: a request that is  *)
(* still fresh finds its row as it read it, so that only requests that are  *)
(* not take a run out of the order of the statuses, and such runs are       *)
(* stale; the journal holds one entry per key, and a request that is past   *)
(* the booking has one to show for it.                                      *)
(***************************************************************************)

CallType ==
    [op : Ops \cup {"none"},
     step : {"idle", "write", "open", "lookup", "insert", "ledger",
             "number", "stamp", "release", "replace"},
     by : Users \cup {NoUser}, run : Runs \cup {NoRun},
     corr : Corrections \cup {NoCorrection}, type : Types,
     version : Nat, fresh : BOOLEAN]

\* Runs and corrections are numbered without gaps.
Numbered ==
    /\ \E n \in 0..MaxRuns : CreatedRuns = 1..n
    /\ \E n \in 0..MaxCorrections : Requested = 1..n
    /\ \A r \in CreatedRuns : run[r].replaces # NoCorrection => run[r].replaces \in Requested

WritesRun == {"prepare", "submit", "reject", "approve", "lock", "void"}

\* Where a request can be, and what it has at hand there.
Shape(q) ==
    /\ call[q].run # NoRun => call[q].run \in CreatedRuns
    /\ call[q].corr # NoCorrection => call[q].corr \in Requested
    /\ call[q].op = "none" => call[q].step = "idle"
    /\ call[q].op \in WritesRun \cup {"request"} => call[q].step = "write" /\ call[q].run # NoRun
    /\ call[q].op = "refuse" => call[q].step = "write" /\ call[q].corr # NoCorrection
    /\ call[q].op = "create" => call[q].step = "open" /\ call[q].corr = NoCorrection
    /\ call[q].op = "post" =>
          /\ call[q].run # NoRun
          /\ call[q].step \in {"lookup", "insert", "ledger", "number", "stamp", "release"}
    /\ call[q].op = "grant" =>
          /\ call[q].corr # NoCorrection /\ call[q].type = "SUPPLEMENTARY"
          /\ call[q].step \in {"lookup", "insert", "ledger", "replace", "open", "stamp"}
          /\ call[q].step = "stamp" /\ call[q].run = NoRun
                => correction[call[q].corr].kind = "REVERSAL"

\* What a fresh request has read is so.
Knows(q) ==
    call[q].fresh =>
        /\ call[q].op \in {"prepare", "submit"}
              => run[call[q].run].status \in {"DRAFT", "REJECTED"}
        /\ call[q].op \in {"approve", "reject"} => run[call[q].run].status = "PENDING_APPROVAL"
        /\ call[q].op = "lock" => run[call[q].run].status = "POSTED"
        /\ call[q].op = "void"
              => run[call[q].run].status \in {"DRAFT", "REJECTED", "PENDING_APPROVAL", "APPROVED"}
        /\ call[q].op = "post" /\ call[q].step # "release"
              => run[call[q].run].status = "APPROVED"
        /\ call[q].op \in {"refuse", "grant"} => correction[call[q].corr].status = "PENDING"
        /\ call[q].step = "open" => LiveRuns(call[q].type) \subseteq stale

\* One entry per key, of a row that exists; one that is not posted is in the
\* hands of a request or was left by one that died.
Ledger ==
    /\ \A e \in entries : \/ \E r \in CreatedRuns : e.key = RunKey(r)
                          \/ \E c \in Requested : e.key = CorrKey(c)
    /\ \A e, f \in entries : e.key = f.key => e = f
    /\ \A e \in entries : e.posted \/ died \/ \E q \in Requests : At(q, "ledger") /\ Key(q) = e.key

PastRun == {"ledger", "number", "stamp"}
PastCorr == {"ledger", "replace", "open", "stamp"}

\* What is past the booking is booked.
Bookings ==
    /\ \A q \in Requests :
          /\ call[q].op = "post" /\ call[q].step \in PastRun \cup {"release"}
                => Booked(RunKey(call[q].run))
          /\ call[q].op = "grant" /\ call[q].step \in PastCorr => Booked(CorrKey(call[q].corr))
    /\ \A c \in Corrections :
          /\ correction[c].status \in {"APPROVED", "APPLIED"} => Booked(CorrKey(c))
          /\ correction[c].status = "APPLIED" /\ correction[c].kind = "DELTA"
                => Booked(RunKey(correction[c].replacement))

Posts(q, r) == call[q].op = "post" /\ call[q].run = r
Grants(q, c) == call[q].op = "grant" /\ call[q].corr = c

\* A run that no outdated update hit is booked and posted as approved.
Orderly(r) ==
    /\ Booked(RunKey(r)) \/ (\E q \in Requests : Posts(q, r))
          => run[r].status \in {"APPROVED", "POSTED", "LOCKED", "VOIDED"}
    /\ \A e \in entries : e.key = RunKey(r) => e.version = run[r].version
    /\ \A q \in Requests : Posts(q, r) => call[q].version = run[r].version
    /\ run[r].numbered => Booked(RunKey(r))
    /\ Booked(RunKey(r)) =>
          \/ run[r].status \in {"POSTED", "LOCKED"} \/ died
          \/ \E q \in Requests : Posts(q, r) /\ call[q].step \in PastRun

\* A correction that no outdated update hit, and whose replacement was not
\* refused, is decided as it was booked.
Settled(c) == correction[c].status \in {"APPROVED", "APPLIED"} \/ died

Granted(c) ==
    /\ Booked(CorrKey(c)) =>
          Settled(c) \/ \E q \in Requests : Grants(q, c) /\ call[q].step \in PastCorr
    /\ (\E r \in CreatedRuns : run[r].replaces = c) =>
          Settled(c) \/ \E q \in Requests : Grants(q, c) /\ call[q].step = "stamp"

RunInv ==
    /\ RunTypeOK
    /\ Numbered
    /\ \A q \in Requests : Shape(q) /\ Knows(q)
    /\ Ledger
    /\ Bookings
    /\ \A r \in CreatedRuns \ stale : Orderly(r)
    /\ \A c \in Requested \ (staleCorr \cup blocked) : Granted(c)
    /\ TwinsNeedARace

-----------------------------------------------------------------------------
\* No two rows share a key.
LEMMA KeysApart ==
    ASSUME NEW a, NEW b
    PROVE  /\ RunKey(a) = RunKey(b) => a = b
           /\ CorrKey(a) = CorrKey(b) => a = b
           /\ RunKey(a) # CorrKey(b)
BY DEF RunKey, CorrKey

\* A row is booked when an entry carries its key.
LEMMA BookedIs == ASSUME NEW k PROVE Booked(k) <=> \E e \in entries : e.key = k
BY DEF Booked, EntriesOf

\* The next number is that of no run yet.
LEMMA NewRunIsNew ==
    ASSUME RunInv, NewRun \in Runs
    PROVE  NewRun \notin CreatedRuns /\ CreatedRuns \cup {NewRun} = 1..NewRun /\ NewRun \in 0..MaxRuns
           /\ NewRun # NoRun
<1>1. PICK n \in 0..MaxRuns : CreatedRuns = 1..n BY DEF RunInv, Numbered
<1>2. Cardinality(1..n) = n BY FS_Interval, RunAssumption
<1>3. NewRun = n + 1 BY <1>1, <1>2 DEF NewRun
<1>. QED BY <1>1, <1>3, RunAssumption DEF Runs, NoRun

\* The next number is that of no correction yet.
LEMMA NewCorrectionIsNew ==
    ASSUME RunInv, NewCorrection \in Corrections
    PROVE  /\ NewCorrection \notin Requested
           /\ Requested \cup {NewCorrection} = 1..NewCorrection
           /\ NewCorrection \in 0..MaxCorrections
<1>1. PICK n \in 0..MaxCorrections : Requested = 1..n BY DEF RunInv, Numbered
<1>2. Cardinality(1..n) = n BY FS_Interval, RunAssumption
<1>3. NewCorrection = n + 1 BY <1>1, <1>2 DEF NewCorrection
<1>. QED BY <1>1, <1>3, RunAssumption DEF Corrections

\* The invariant holds before anything has happened.
LEMMA InitInv == RunInit => RunInv
<1>. SUFFICES ASSUME RunInit PROVE RunInv OBVIOUS
<1>. USE RunAssumption DEF RunInit
<1>1. Idle \in CallType
  BY DEF Idle, CallType, Types, NoRun, NoCorrection, Ops
<1>2. RunTypeOK
  <2>1. 0 \in 0..MaxTrouble OBVIOUS
  <2>2. call \in [Requests -> CallType] BY <1>1
  <2>. QED BY <2>1, <2>2 DEF RunTypeOK, CallType, BlankRun, BlankCorrection, Statuses, Types, Kinds,
              NoRun, NoCorrection
<1>3. CreatedRuns = {} /\ Requested = {}
  BY DEF CreatedRuns, Requested, BlankRun, BlankCorrection
<1>4. Numbered BY <1>3 DEF Numbered
<1>5. \A q \in Requests : Shape(q) /\ Knows(q)
  BY DEF Shape, Knows, Idle, NoRun, NoCorrection, WritesRun
<1>6. Bookings BY DEF Bookings, Idle, BlankCorrection
<1>. QED BY <1>2, <1>3, <1>4, <1>5, <1>6 DEF RunInv, Ledger, TwinsNeedARace

-----------------------------------------------------------------------------
(* What a step does to the requests.                                        *)

\* p goes on as it was, if perhaps with a row that was changed under it.
Same(p) ==
    /\ call'[p].op = call[p].op /\ call'[p].step = call[p].step
    /\ call'[p].run = call[p].run /\ call'[p].corr = call[p].corr
    /\ call'[p].type = call[p].type /\ call'[p].version = call[p].version
    /\ call'[p].fresh => call[p].fresh

\* Proceed moves q and leaves the others where they are.
LEMMA Proceeds ==
    ASSUME RunTypeOK, NEW q \in Requests, NEW next \in CallType, NEW outdated,
           Proceed(q, next, outdated)
    PROVE  /\ call' \in [Requests -> CallType]
           /\ call'[q] = next
           /\ \A p \in Requests \ {q} : Same(p) /\ (p \in outdated => ~call'[p].fresh)
<1>1. call \in [Requests -> CallType] BY DEF RunTypeOK, CallType
<1>2. \A p \in Requests : [call[p] EXCEPT !.fresh = FALSE] \in CallType BY <1>1 DEF CallType
<1>3. call' \in [Requests -> CallType] /\ call'[q] = next BY <1>1, <1>2 DEF Proceed
<1>4. ASSUME NEW p \in Requests \ {q} PROVE Same(p) /\ (p \in outdated => ~call'[p].fresh)
  <2>1. call[p] \in CallType BY <1>1
  <2>2. CASE p \in outdated
    <3>1. call'[p] = [call[p] EXCEPT !.fresh = FALSE] BY <2>2 DEF Proceed
    <3>. QED BY <2>1, <3>1 DEF Same, CallType
  <2>3. CASE p \notin outdated
    <3>1. call'[p] = call[p] BY <2>3 DEF Proceed
    <3>. QED BY <2>3, <3>1 DEF Same
  <2>. QED BY <2>2, <2>3
<1>. QED BY <1>3, <1>4

\* A request that stays where it is keeps its key.
LEMMA SameKey ==
    ASSUME NEW p \in Requests, Same(p) PROVE Key(p)' = Key(p)
BY DEF Same, Key, RunKey, CorrKey

\* An idle request is well-typed.
LEMMA IdleType == Idle \in CallType
BY RunAssumption DEF Idle, CallType, Types, NoRun, NoCorrection, Ops
-----------------------------------------------------------------------------
(* Types.                                                                   *)
RunType ==
    [status : Statuses \cup {"none"}, type : Types,
     replaces : Corrections \cup {NoCorrection},
     preparedBy : Users \cup {NoUser}, submittedBy : Users \cup {NoUser},
     approvedBy : Users \cup {NoUser}, version : Nat,
     numbered : BOOLEAN, journalEntryId : BOOLEAN]

CorrectionType ==
    [status : {"none", "PENDING", "APPROVED", "APPLIED", "REJECTED"},
     kind : Kinds, target : Runs \cup {NoRun},
     requestedBy : Users \cup {NoUser}, replacement : Runs \cup {NoRun}]

EntryType == [nr : Nat, key : Keys, version : Nat, posted : BOOLEAN]

\* TypeOK by the types of the rows.
LEMMA Typed ==
    RunTypeOK <=>
        /\ run \in [Runs -> RunType] /\ correction \in [Corrections -> CorrectionType]
        /\ entries \subseteq EntryType /\ call \in [Requests -> CallType]
        /\ stale \subseteq Runs /\ staleCorr \subseteq Corrections /\ blocked \subseteq Corrections
        /\ died \in BOOLEAN /\ trouble \in 0..MaxTrouble
BY DEF RunTypeOK, RunType, CorrectionType, EntryType, CallType

\* A request that starts.
Starts(q) ==
    \/ \E t \in Types : CreateReads(q, t)
    \/ \E r \in Runs :
          \/ \E u \in Users :
                PrepareReads(q, u, r) \/ SubmitReads(q, u, r)
                \/ ApproveReads(q, u, r) \/ RequestReads(q, u, r)
          \/ RejectReads(q, r) \/ LockReads(q, r) \/ VoidReads(q, r)
          \/ PostReads(q, r)
    \/ \E c \in Corrections, u \in Users : RefuseReads(q, u, c) \/ GrantReads(q, u, c)

\* The update of a run.
WritesRunRow(q) ==
    PrepareWrites(q) \/ SubmitWrites(q) \/ ApproveWrites(q) \/ StatusWrites(q) \/ PostStamps(q)

\* The update of the correction that is decided.
WritesCorrectionRow(q) == RefuseWrites(q) \/ GrantStamps(q)

StepOf(q) ==
    \/ Starts(q) \/ WritesRunRow(q) \/ WritesCorrectionRow(q)
    \/ Opens(q) \/ PrepareRefused(q)
    \/ BookLookup(q) \/ BookInsert(q) \/ BookPost(q)
    \/ PostNumbers(q) \/ PostReleases(q)
    \/ \E k \in Kinds : RequestWrites(q, k)
    \/ GrantReplaces(q) \/ Dies(q)

\* A step of the system is the step of one request.
LEMMA StepsAreRequests == RunNext <=> \E q \in Requests : StepOf(q)
BY DEF RunNext, StepOf, Starts, WritesRunRow, WritesCorrectionRow

\* What a request starts with.
LEMMA StartCalls ==
    ASSUME RunInv, NEW q \in Requests, Starts(q)
    PROVE  \E call0 \in CallType : StartCall(q, call0)
<1>. USE IdleType, RunAssumption
<1>1. ASSUME NEW t \in Types, CreateReads(q, t) PROVE \E call0 \in CallType : StartCall(q, call0)
  BY <1>1 DEF CreateReads, CallType, Ops
<1>2. ASSUME NEW r \in Runs, NEW u \in Users,
             PrepareReads(q, u, r) \/ SubmitReads(q, u, r) \/ ApproveReads(q, u, r)
      PROVE  \E call0 \in CallType : StartCall(q, call0)
  BY <1>2 DEF PrepareReads, SubmitReads, ApproveReads, Read, CallType, Ops
<1>3. ASSUME NEW r \in Runs, NEW u \in Users, RequestReads(q, u, r)
      PROVE  \E call0 \in CallType : StartCall(q, call0)
  <2>1. run[r].version \in Nat BY DEF RunInv, RunTypeOK
  <2>. QED BY <1>3, <2>1 DEF RequestReads, Read, CallType, Ops
<1>4. ASSUME NEW r \in Runs, RejectReads(q, r) \/ LockReads(q, r) \/ VoidReads(q, r)
      PROVE  \E call0 \in CallType : StartCall(q, call0)
  BY <1>4 DEF RejectReads, LockReads, VoidReads, Read, CallType, Ops
<1>5. ASSUME NEW r \in Runs, PostReads(q, r) PROVE \E call0 \in CallType : StartCall(q, call0)
  <2>1. run[r].version \in Nat BY DEF RunInv, RunTypeOK
  <2>. QED BY <1>5, <2>1 DEF PostReads, FirstStep, Read, CallType, Ops
<1>6. ASSUME NEW c \in Corrections, NEW u \in Users, RefuseReads(q, u, c) \/ GrantReads(q, u, c)
      PROVE  \E call0 \in CallType : StartCall(q, call0)
  <2>1. [Idle EXCEPT !.op = "refuse", !.step = "write", !.corr = c] \in CallType
    BY DEF CallType, Ops
  <2>2. [Idle EXCEPT !.op = "grant", !.step = "lookup", !.corr = c, !.type = "SUPPLEMENTARY"]
          \in CallType
    BY DEF CallType, Ops, Types
  <2>. QED BY <1>6, <2>1, <2>2 DEF RefuseReads, GrantReads, FirstStep
<1>. QED BY <1>1, <1>2, <1>3, <1>4, <1>5, <1>6 DEF Starts

\* What the steps of a request that has started lead to.
LEMMA GoesType ==
    ASSUME RunInv, NEW q \in Requests,
           NEW step \in {"idle", "write", "open", "lookup", "insert", "ledger",
                         "number", "stamp", "release", "replace"}
    PROVE  [call[q] EXCEPT !.step = step] \in CallType
<1>. call[q] \in CallType BY Typed DEF RunInv
<1>. QED BY DEF CallType

\* Where a request goes from the booking.
LEMMA AfterBookingType ==
    ASSUME NEW q PROVE AfterBooking(q) \in {"number", "stamp", "replace"}
BY DEF AfterBooking
-----------------------------------------------------------------------------
(* What the steps that write a row do.                                      *)

\* q updates its run to now; the others that work on it no longer know it.
RunUpdate(q, now) ==
    LET r == call[q].run IN
    /\ r \in CreatedRuns /\ now \in RunType
    /\ run' = [run EXCEPT ![r] = now]
    /\ stale' = IF call[q].fresh THEN stale ELSE stale \cup {r}
    /\ UNCHANGED <<correction, entries, staleCorr, blocked, died, trouble>>
    /\ call' \in [Requests -> CallType]
    /\ \A p \in Requests \ {q} : Same(p) /\ (call[p].run = r => ~call'[p].fresh)
    /\ now.type = run[r].type /\ now.replaces = run[r].replaces /\ now.status # "none"
    /\ \/ /\ call[q].op = "prepare" /\ call'[q] = Idle
          /\ now.status = run[r].status /\ ~now.numbered
       \/ /\ now.version = run[r].version /\ now.numbered = run[r].numbered
          /\ \/ /\ call'[q] = Idle
                /\ \/ call[q].op = "submit" /\ now.status = "PENDING_APPROVAL"
                   \/ call[q].op = "approve" /\ now.status = "APPROVED"
                   \/ call[q].op = "reject" /\ now.status = "REJECTED"
                   \/ call[q].op = "lock" /\ now.status = "LOCKED"
                   \/ call[q].op = "void" /\ now.status = "VOIDED"
             \/ /\ Doing(q, "post", "stamp") /\ now.status = "POSTED"
                /\ call'[q] = [call[q] EXCEPT !.step = "release"]

\* Every update of a run by id has that form.
LEMMA RunUpdates ==
    ASSUME RunInv, NEW q \in Requests, WritesRunRow(q)
    PROVE  \E now : RunUpdate(q, now)
<1>. DEFINE r == call[q].run
<1>1. call[q].op \in {"prepare", "submit", "reject", "approve", "lock", "void", "post"}
  BY DEF WritesRunRow, PrepareWrites, SubmitWrites, ApproveWrites, StatusWrites, PostStamps,
     Doing, Outcome
<1>2. r \in CreatedRuns /\ r \in Runs /\ run[r] \in RunType /\ run \in [Runs -> RunType]
      /\ call[q] \in CallType /\ run[r].status # "none"
  BY <1>1, Typed DEF RunInv, Shape, CreatedRuns, WritesRun
<1>3. ASSUME NEW now \in RunType, NEW next \in CallType, Updates(q, now, next)
      PROVE  /\ run' = [run EXCEPT ![r] = now]
             /\ stale' = IF call[q].fresh THEN stale ELSE stale \cup {r}
             /\ UNCHANGED <<entries, staleCorr, blocked, died, trouble>>
             /\ call' \in [Requests -> CallType] /\ call'[q] = next
             /\ \A p \in Requests \ {q} : Same(p) /\ (call[p].run = r => ~call'[p].fresh)
  <2>1. RunTypeOK /\ Proceed(q, next, OnRun(r)) BY <1>3 DEF Updates, RunInv
  <2>2. \A p \in Requests : call[p].run = r => p \in OnRun(r) BY DEF OnRun
  <2>. QED BY <1>3, <2>1, <2>2, Proceeds DEF Updates
<1>4. CASE PrepareWrites(q)
  <2>. DEFINE now == [run[r] EXCEPT !.version = @ + 1, !.numbered = FALSE,
                                    !.preparedBy = call[q].by]
  <2>0. run[r].version + 1 \in Nat /\ call[q].by \in Users \cup {NoUser}
    BY <1>2 DEF RunType, CallType
  <2>1. now \in RunType /\ now.type = run[r].type /\ now.replaces = run[r].replaces
        /\ now.status = run[r].status /\ ~now.numbered
    BY <1>2, <2>0 DEF RunType
  <2>2. Updates(q, now, Idle) /\ correction' = correction /\ call[q].op = "prepare"
    BY <1>4 DEF PrepareWrites, Doing
  <2>. QED BY <1>2, <1>3, <2>1, <2>2, IdleType DEF RunUpdate
<1>5. CASE SubmitWrites(q)
  <2>. DEFINE now == [run[r] EXCEPT !.status = "PENDING_APPROVAL", !.submittedBy = call[q].by]
  <2>1. now \in RunType /\ now.type = run[r].type /\ now.replaces = run[r].replaces
        /\ now.status = "PENDING_APPROVAL" /\ now.version = run[r].version
        /\ now.numbered = run[r].numbered
    BY <1>2 DEF RunType, CallType, Statuses
  <2>2. Updates(q, now, Idle) /\ correction' = correction /\ call[q].op = "submit"
    BY <1>5 DEF SubmitWrites, Doing
  <2>. QED BY <1>2, <1>3, <2>1, <2>2, IdleType DEF RunUpdate
<1>6. CASE ApproveWrites(q)
  <2>. DEFINE now == [run[r] EXCEPT !.status = "APPROVED", !.approvedBy = call[q].by]
  <2>1. now \in RunType /\ now.type = run[r].type /\ now.replaces = run[r].replaces
        /\ now.status = "APPROVED" /\ now.version = run[r].version
        /\ now.numbered = run[r].numbered
    BY <1>2 DEF RunType, CallType, Statuses
  <2>2. Updates(q, now, Idle) /\ correction' = correction /\ call[q].op = "approve"
    BY <1>6 DEF ApproveWrites, Doing
  <2>. QED BY <1>2, <1>3, <2>1, <2>2, IdleType DEF RunUpdate
<1>7. CASE StatusWrites(q)
  <2>. DEFINE to == Outcome[call[q].op]
              now == [run[r] EXCEPT !.status = to]
  <2>1. \/ call[q].op = "reject" /\ to = "REJECTED"
        \/ call[q].op = "lock" /\ to = "LOCKED"
        \/ call[q].op = "void" /\ to = "VOIDED"
    BY <1>7 DEF StatusWrites, Outcome
  <2>2. now \in RunType /\ now.type = run[r].type /\ now.replaces = run[r].replaces
        /\ now.status = to /\ now.version = run[r].version
        /\ now.numbered = run[r].numbered
    BY <1>2, <2>1 DEF RunType, Statuses
  <2>3. Updates(q, now, Idle) /\ correction' = correction
    BY <1>7 DEF StatusWrites
  <2>. HIDE DEF to, now
  <2>4. now.status # "none" BY <2>1, <2>2
  <2>. QED BY <1>2, <1>3, <2>1, <2>2, <2>3, <2>4, IdleType DEF RunUpdate
<1>8. CASE PostStamps(q)
  <2>. DEFINE now == [run[r] EXCEPT !.status = "POSTED", !.journalEntryId = TRUE]
              next == [call[q] EXCEPT !.step = "release"]
  <2>1. now \in RunType /\ now.type = run[r].type /\ now.replaces = run[r].replaces
        /\ now.status = "POSTED" /\ now.version = run[r].version
        /\ now.numbered = run[r].numbered
    BY <1>2 DEF RunType, Statuses
  <2>2. Updates(q, now, next) /\ correction' = correction /\ Doing(q, "post", "stamp")
    BY <1>8 DEF PostStamps, Posted
  <2>3. next \in CallType BY GoesType
  <2>. QED BY <1>2, <1>3, <2>1, <2>2, <2>3 DEF RunUpdate
<1>. QED BY <1>4, <1>5, <1>6, <1>7, <1>8 DEF WritesRunRow

\* q updates its correction to now.
CorrectionUpdate(q, now) ==
    LET c == call[q].corr IN
    /\ c \in Requested /\ now \in CorrectionType
    /\ correction' = [correction EXCEPT ![c] = now]
    /\ staleCorr' = IF call[q].fresh THEN staleCorr ELSE staleCorr \cup {c}
    /\ UNCHANGED <<run, entries, stale, blocked, died, trouble>>
    /\ call' \in [Requests -> CallType] /\ call'[q] = Idle
    /\ \A p \in Requests \ {q} : Same(p) /\ (call[p].corr = c => ~call'[p].fresh)
    /\ now.kind = correction[c].kind
    /\ \/ call[q].op = "refuse" /\ now.status = "REJECTED"
       \/ /\ Doing(q, "grant", "stamp")
          /\ now.status = (IF call[q].run = NoRun THEN "APPLIED" ELSE "APPROVED")

\* Every decision of a correction has that form.
LEMMA CorrectionUpdates ==
    ASSUME RunInv, NEW q \in Requests, WritesCorrectionRow(q)
    PROVE  \E now : CorrectionUpdate(q, now)
<1>. DEFINE c == call[q].corr
<1>1. call[q].op \in {"refuse", "grant"}
  BY DEF WritesCorrectionRow, RefuseWrites, GrantStamps, Doing
<1>2. c \in Requested /\ c \in Corrections /\ correction[c] \in CorrectionType
      /\ call[q] \in CallType
  BY <1>1, Typed DEF RunInv, Shape, Requested
<1>3. ASSUME NEW now \in CorrectionType, UpdatesCorrection(q, now)
      PROVE  /\ correction' = [correction EXCEPT ![c] = now]
             /\ staleCorr' = IF call[q].fresh THEN staleCorr ELSE staleCorr \cup {c}
             /\ UNCHANGED <<run, entries, stale, blocked, died, trouble>>
             /\ call' \in [Requests -> CallType] /\ call'[q] = Idle
             /\ \A p \in Requests \ {q} : Same(p) /\ (call[p].corr = c => ~call'[p].fresh)
  <2>1. RunTypeOK /\ Proceed(q, Idle, OnCorrection(c)) BY <1>3 DEF UpdatesCorrection, RunInv
  <2>2. \A p \in Requests : call[p].corr = c => p \in OnCorrection(c) BY DEF OnCorrection
  <2>. QED BY <1>3, <2>1, <2>2, Proceeds, IdleType DEF UpdatesCorrection
<1>4. CASE RefuseWrites(q)
  <2>. DEFINE now == [correction[c] EXCEPT !.status = "REJECTED"]
  <2>1. now \in CorrectionType /\ now.kind = correction[c].kind /\ now.status = "REJECTED"
    BY <1>2 DEF CorrectionType
  <2>2. UpdatesCorrection(q, now) /\ call[q].op = "refuse" BY <1>4 DEF RefuseWrites, Doing
  <2>. QED BY <1>2, <1>3, <2>1, <2>2 DEF CorrectionUpdate
<1>5. CASE GrantStamps(q)
  <2>. DEFINE to == IF call[q].run = NoRun THEN "APPLIED" ELSE "APPROVED"
              now == [correction[c] EXCEPT !.status = to, !.replacement = call[q].run]
  <2>1. now \in CorrectionType /\ now.kind = correction[c].kind /\ now.status = to
    BY <1>2 DEF CorrectionType, CallType
  <2>2. UpdatesCorrection(q, now) /\ Doing(q, "grant", "stamp")
    BY <1>5 DEF GrantStamps, Decided
  <2>. QED BY <1>2, <1>3, <2>1, <2>2 DEF CorrectionUpdate
<1>. QED BY <1>4, <1>5 DEF WritesCorrectionRow

-----------------------------------------------------------------------------
(* Steps that touch no row.                                                 *)

\* A request that stays where it is answers for what it answered for.
LEMMA SamePart ==
    ASSUME NEW p \in Requests, Same(p)
    PROVE  /\ Key(p)' = Key(p)
           /\ \A s : At(p, s)' <=> At(p, s)
           /\ \A r : Posts(p, r)' <=> Posts(p, r)
           /\ \A c : Grants(p, c)' <=> Grants(p, c)
BY SameKey DEF Same, At, Posts, Grants

\* What q has at hand after its step is so.
Honest(q) ==
    /\ Shape(q) /\ Knows(q)
    /\ call[q].op = "post" /\ call[q].step \in PastRun \cup {"release"}
          => Booked(RunKey(call[q].run))
    /\ call[q].op = "grant" /\ call[q].step \in PastCorr => Booked(CorrKey(call[q].corr))
    /\ \A r \in CreatedRuns \ stale : Posts(q, r) =>
          /\ run[r].status \in {"APPROVED", "POSTED", "LOCKED", "VOIDED"}
          /\ call[q].version = run[r].version

\* q does not drop what it alone may answer for.
Keeps(q) ==
    \/ died'
    \/ /\ At(q, "ledger") => At(q, "ledger")' /\ Key(q)' = Key(q)
       /\ \A r \in Runs \ stale : Posts(q, r) /\ call[q].step \in PastRun
             => Posts(q, r)' /\ call'[q].step \in PastRun
       /\ \A c \in Corrections \ (staleCorr \cup blocked') : Grants(q, c) /\ call[q].step \in PastCorr
             => \/ Grants(q, c)' /\ call'[q].step \in PastCorr
                \/ \E p \in Requests \ {q} : Grants(p, c) /\ call[p].step = "stamp"
                \/ Settled(c)
       /\ \A c \in Corrections : Grants(q, c) /\ call[q].step = "stamp"
             => Grants(q, c)' /\ call'[q].step = "stamp"

CallStep(q) ==
    /\ UNCHANGED <<run, correction, entries, stale, staleCorr>>
    /\ blocked \subseteq blocked' /\ (died => died')
    /\ \A p \in Requests \ {q} : Same(p)
    /\ Keeps(q)

\* A step that touches no row preserves the invariant when q is honest and keeps
\* what it answers for.
LEMMA CallSteps ==
    ASSUME RunInv, NEW q \in Requests, CallStep(q), RunTypeOK', Honest(q)'
    PROVE  RunInv'
<1>1. /\ CreatedRuns' = CreatedRuns /\ Requested' = Requested
      /\ \A t : LiveRuns(t)' = LiveRuns(t)
      /\ \A k : Booked(k)' <=> Booked(k)
  BY DEF CallStep, CreatedRuns, Requested, LiveRuns, Booked, EntriesOf
<1>2. \A p \in Requests \ {q} :
         /\ Same(p) /\ Key(p)' = Key(p)
         /\ \A s : At(p, s)' <=> At(p, s)
         /\ \A r : Posts(p, r)' <=> Posts(p, r)
         /\ \A c : Grants(p, c)' <=> Grants(p, c)
  BY SamePart DEF CallStep
<1>3. Numbered' BY <1>1 DEF RunInv, Numbered, CallStep
<1>4. ASSUME NEW p \in Requests PROVE Shape(p)' /\ Knows(p)'
  <2>1. CASE p = q BY <2>1 DEF Honest
  <2>2. CASE p # q
    <3>1. Shape(p) /\ Knows(p) /\ Same(p) BY <2>2, <1>2 DEF RunInv
    <3>2. Shape(p)' BY <3>1, <1>1 DEF Shape, Same, CallStep
    <3>3. Knows(p)' BY <3>1, <1>1 DEF Knows, Same, CallStep
    <3>. QED BY <3>2, <3>3
  <2>. QED BY <2>1, <2>2
<1>5. Ledger'
  <2>1. ASSUME NEW e \in entries
        PROVE  e.posted \/ died' \/ \E p \in Requests : At(p, "ledger")' /\ Key(p)' = e.key
    BY <1>2 DEF RunInv, Ledger, CallStep, Keeps
  <2>. QED BY <1>1, <2>1 DEF RunInv, Ledger, CallStep
<1>6. Bookings'
  <2>1. ASSUME NEW p \in Requests
        PROVE  /\ call'[p].op = "post" /\ call'[p].step \in PastRun \cup {"release"}
                     => Booked(RunKey(call'[p].run))
               /\ call'[p].op = "grant" /\ call'[p].step \in PastCorr
                     => Booked(CorrKey(call'[p].corr))
    BY <1>1, <1>2 DEF RunInv, Bookings, Same, Honest, RunKey, CorrKey
  <2>. QED BY <1>1, <2>1 DEF RunInv, Bookings, CallStep, RunKey, CorrKey
<1>7. ASSUME NEW r \in CreatedRuns \ stale PROVE Orderly(r)'
  <2>1. Orderly(r) /\ r \in Runs BY DEF RunInv, CreatedRuns
  <2>2. ASSUME NEW p \in Requests, Posts(p, r)'
        PROVE  /\ run[r].status \in {"APPROVED", "POSTED", "LOCKED", "VOIDED"}
               /\ call'[p].version = run[r].version
    <3>1. CASE p = q BY <2>2, <3>1, <1>1 DEF Honest, CallStep
    <3>2. CASE p # q BY <2>1, <2>2, <3>2, <1>2 DEF Orderly, Same
    <3>. QED BY <3>1, <3>2
  <2>3. Booked(RunKey(r)) =>
          \/ run[r].status \in {"POSTED", "LOCKED"} \/ died'
          \/ \E p \in Requests : Posts(p, r)' /\ call'[p].step \in PastRun
    BY <2>1, <1>2 DEF Orderly, CallStep, Keeps, Same
  <2>. QED BY <1>1, <2>1, <2>2, <2>3 DEF Orderly, CallStep, RunKey
<1>8. ASSUME NEW c \in Requested, c \notin staleCorr, c \notin blocked' PROVE Granted(c)'
  <2>1. Granted(c) /\ c \in Corrections BY <1>8 DEF RunInv, Requested, CallStep
  <2>2. Settled(c) => Settled(c)' BY DEF Settled, CallStep
  <2>3. \A p \in Requests \ {q} : (Grants(p, c) => Grants(p, c)') /\ call'[p].step = call[p].step
    BY <1>2 DEF Same
  <2>4. died' => Settled(c)' BY DEF Settled
  <2>5. Booked(CorrKey(c)) =>
          Settled(c)' \/ \E p \in Requests : Grants(p, c)' /\ call'[p].step \in PastCorr
    BY <1>8, <2>1, <2>2, <2>3, <2>4 DEF Granted, CallStep, Keeps, PastCorr
  <2>6. (\E r \in CreatedRuns : run[r].replaces = c) =>
          Settled(c)' \/ \E p \in Requests : Grants(p, c)' /\ call'[p].step = "stamp"
    BY <2>1, <2>2, <2>3, <2>4 DEF Granted, CallStep, Keeps
  <2>. QED BY <1>1, <2>5, <2>6 DEF Granted, CallStep, CorrKey
<1>9. TwinsNeedARace' BY <1>1 DEF RunInv, TwinsNeedARace, CallStep
<1>. QED BY <1>1, <1>3, <1>4, <1>5, <1>6, <1>7, <1>8, <1>9 DEF RunInv, CallStep

\* A request that is over.
LEMMA Endings ==
    ASSUME RunInv, NEW q \in Requests, Proceed(q, Idle, {}),
           UNCHANGED <<run, correction, entries, stale, staleCorr>>,
           blocked \subseteq blocked', blocked' \subseteq Corrections,
           died' \in BOOLEAN, died => died', trouble' \in 0..MaxTrouble, Keeps(q)
    PROVE  RunInv'
<1>1. RunTypeOK BY DEF RunInv
<1>2. /\ call' \in [Requests -> CallType] /\ call'[q] = Idle
      /\ \A p \in Requests \ {q} : Same(p)
  BY <1>1, Proceeds, IdleType
<1>3. RunTypeOK' BY <1>1, <1>2, Typed DEF RunTypeOK, CallType
<1>4. Honest(q)'
  BY <1>2 DEF Honest, Shape, Knows, Posts, Idle, NoRun, NoCorrection, WritesRun
<1>5. CallStep(q) BY <1>2 DEF CallStep
<1>. QED BY <1>3, <1>4, <1>5, CallSteps

\* A request that has nothing to answer for may be anything next.
LEMMA NothingToKeep ==
    ASSUME RunInv, NEW q \in Requests, ~At(q, "ledger"),
           call[q].op \notin {"post", "grant"} \/ call[q].step \in {"lookup", "insert", "release"}
    PROVE  Keeps(q)
BY DEF Keeps, At, Posts, Grants, PastRun, PastCorr

\* A request that starts knows what it read.
LEMMA StartsStep == ASSUME RunInv, NEW q \in Requests, Starts(q) PROVE RunInv'
<1>1. PICK call0 \in CallType : StartCall(q, call0) BY StartCalls
<1>2. RunTypeOK /\ call[q] = Idle /\ Proceed(q, call0, {}) BY <1>1 DEF RunInv, StartCall
<1>3. /\ call' \in [Requests -> CallType] /\ call'[q] = call0
      /\ \A p \in Requests \ {q} : Same(p)
  BY <1>2, Proceeds
<1>4. UNCHANGED <<run, correction, entries, stale, staleCorr, blocked, died>>
  BY <1>1 DEF StartCall, runHistory
<1>5. RunTypeOK'
  <2>1. trouble' \in 0..MaxTrouble
    BY <1>1, <1>2, RunAssumption DEF StartCall, RunTypeOK
  <2>. QED BY <1>2, <1>3, <1>4, <2>1, Typed DEF RunTypeOK, CallType
<1>6. Keeps(q) BY <1>2, NothingToKeep DEF Idle, At
<1>7. CallStep(q) BY <1>3, <1>4, <1>6 DEF CallStep
<1>8. Honest(q)'
  <2>1. \A r \in Runs : run[r].status # "none" => r \in CreatedRuns BY DEF CreatedRuns
  <2>2. \A c \in Corrections : correction[c].status # "none" => c \in Requested BY DEF Requested
  <2>3. /\ CreatedRuns' = CreatedRuns /\ Requested' = Requested
        /\ \A t : LiveRuns(t)' = LiveRuns(t)
    BY <1>4 DEF CreatedRuns, Requested, LiveRuns
  <2>4. call' = [p \in Requests |-> IF p = q THEN call'[q] ELSE call[p]]
    BY <1>1 DEF StartCall, Proceed
  <2>5. ASSUME NEW t \in Types, CreateReads(q, t) PROVE Honest(q)'
    <3>1. call'[q] = [Idle EXCEPT !.op = "create", !.step = "open", !.type = t]
          /\ LiveRuns(t) = {}
      BY <2>5 DEF CreateReads, StartCall, Proceed
    <3>. QED BY <2>3, <3>1 DEF Honest, Shape, Knows, Posts, Idle, NoRun, NoCorrection, WritesRun
  <2>6. ASSUME NEW r \in Runs, NEW u \in Users,
               PrepareReads(q, u, r) \/ SubmitReads(q, u, r)
        PROVE  Honest(q)'
    <3>1. \/ call'[q] = [Read("prepare", r) EXCEPT !.by = u]
          \/ call'[q] = [Read("submit", r) EXCEPT !.by = u]
      BY <2>6 DEF PrepareReads, SubmitReads, StartCall, Proceed
    <3>2. run[r].status \in {"DRAFT", "REJECTED"}
      <4>1. run[r].status \in Statuses \cup {"none"} BY <1>2 DEF RunTypeOK
      <4>. QED BY <2>6, <4>1 DEF PrepareReads, SubmitReads, MayPrepare, Moves, RUN_TRANSITIONS,
                  CreatedRuns, Statuses
    <3>3. /\ call'[q].op \in {"prepare", "submit"} /\ call'[q].step = "write"
          /\ call'[q].run = r /\ call'[q].corr = NoCorrection
      BY <3>1 DEF Read, Idle
    <3>4. r # NoRun /\ r \in CreatedRuns BY <2>1, <3>2, RunAssumption DEF Runs, NoRun
    <3>. QED BY <1>4, <2>3, <3>2, <3>3, <3>4 DEF Honest, Shape, Knows, Posts, WritesRun
  <2>7. ASSUME NEW r \in Runs, NEW u \in Users, RequestReads(q, u, r) PROVE Honest(q)'
    <3>1. call'[q] = [Read("request", r) EXCEPT !.by = u, !.version = run[r].version]
          /\ run[r].status \in {"POSTED", "LOCKED"}
      BY <2>7 DEF RequestReads, StartCall, Proceed
    <3>. QED BY <1>4, <2>1, <2>3, <3>1, RunAssumption
          DEF Honest, Shape, Knows, Posts, Read, Idle, NoRun, NoCorrection, WritesRun, Runs
  <2>8. ASSUME NEW r \in Runs,
               RejectReads(q, r) \/ LockReads(q, r) \/ VoidReads(q, r)
               \/ \E u \in Users : ApproveReads(q, u, r)
        PROVE  Honest(q)'
    <3>1. run[r].status \in Statuses \cup {"none"} BY <1>2 DEF RunTypeOK
    <3>2. \/ /\ \/ call'[q] = Read("reject", r)
                \/ \E u \in Users : call'[q] = [Read("approve", r) EXCEPT !.by = u]
             /\ run[r].status = "PENDING_APPROVAL"
          \/ call'[q] = Read("lock", r) /\ run[r].status = "POSTED"
          \/ /\ call'[q] = Read("void", r)
             /\ run[r].status \in {"DRAFT", "REJECTED", "PENDING_APPROVAL", "APPROVED"}
      BY <2>8, <3>1 DEF RejectReads, LockReads, VoidReads, ApproveReads, MayVoid, Moves,
         RUN_TRANSITIONS, CreatedRuns, Statuses, StartCall, Proceed
    <3>3. /\ call'[q].step = "write" /\ call'[q].run = r /\ call'[q].corr = NoCorrection
          /\ \/ /\ call'[q].op \in {"reject", "approve"}
                /\ run[r].status = "PENDING_APPROVAL"
             \/ call'[q].op = "lock" /\ run[r].status = "POSTED"
             \/ /\ call'[q].op = "void"
                /\ run[r].status \in {"DRAFT", "REJECTED", "PENDING_APPROVAL", "APPROVED"}
      BY <3>2 DEF Read, Idle
    <3>4. r # NoRun /\ r \in CreatedRuns BY <2>1, <3>2, RunAssumption DEF Runs, NoRun
    <3>. QED BY <1>4, <2>3, <3>3, <3>4 DEF Honest, Shape, Knows, Posts, WritesRun
  <2>9. ASSUME NEW r \in Runs, PostReads(q, r) PROVE Honest(q)'
    <3>1. run[r].status \in Statuses \cup {"none"} BY <1>2 DEF RunTypeOK
    <3>2. /\ call'[q] = [Read("post", r) EXCEPT !.step = "lookup", !.version = run[r].version]
          /\ run[r].status = "APPROVED"
      BY <2>9, <3>1 DEF PostReads, FirstStep, Moves, RUN_TRANSITIONS, CreatedRuns, Statuses, StartCall,
         Proceed
    <3>. QED BY <1>4, <2>1, <2>3, <3>2, RunAssumption
          DEF Honest, Shape, Knows, Posts, Read, Idle, NoRun, NoCorrection, WritesRun, Runs,
              PastRun
  <2>10. ASSUME NEW c \in Corrections, NEW u \in Users, RefuseReads(q, u, c) \/ GrantReads(q, u, c)
         PROVE  Honest(q)'
    <3>1. /\ \/ call'[q] = [Idle EXCEPT !.op = "refuse", !.step = "write", !.corr = c]
             \/ call'[q] = [Idle EXCEPT !.op = "grant", !.step = "lookup", !.corr = c,
                                        !.type = "SUPPLEMENTARY"]
          /\ correction[c].status = "PENDING"
      BY <2>10 DEF RefuseReads, GrantReads, MayRefuse, FirstStep, StartCall, Proceed
    <3>2. /\ call'[q].corr = c /\ call'[q].run = NoRun
          /\ \/ call'[q].op = "refuse" /\ call'[q].step = "write"
             \/ /\ call'[q].op = "grant" /\ call'[q].step = "lookup"
                /\ call'[q].type = "SUPPLEMENTARY"
      BY <3>1 DEF Idle
    <3>3. c # NoCorrection /\ c \in Requested
      BY <2>2, <3>1, RunAssumption DEF Corrections, NoCorrection
    <3>. QED BY <1>4, <2>3, <3>1, <3>2, <3>3
          DEF Honest, Shape, Knows, Posts, WritesRun, PastCorr
  <2>. QED BY <2>5, <2>6, <2>7, <2>8, <2>9, <2>10 DEF Starts
<1>. QED BY <1>5, <1>7, <1>8, CallSteps

\* What a request is while it is at a step of the booking, or past it.
LEMMA BookingCalls ==
    ASSUME RunInv, NEW q \in Requests,
           call[q].step \in {"lookup", "insert", "ledger", "number", "release", "replace"}
    PROVE  /\ call[q].op = "post" => call[q].run \in CreatedRuns /\ Key(q) = RunKey(call[q].run)
           /\ call[q].op = "grant" => call[q].corr \in Requested /\ Key(q) = CorrKey(call[q].corr)
           /\ call[q].op \in {"post", "grant"}
           /\ call[q].step = "replace" => call[q].op = "grant"
           /\ call[q].step \in {"number", "release"} => call[q].op = "post"
<1>1. Shape(q) /\ call[q] \in CallType BY Typed DEF RunInv
<1>. QED BY <1>1 DEF Shape, Key, CallType, Ops, WritesRun

\* The end of a refused preparation, a run or a payslip that is gone, an insert
\* that found the key taken.
LEMMA RefusedStep ==
    ASSUME RunInv, NEW q \in Requests, Ends(q),
           ~At(q, "ledger"),
           call[q].op \notin {"post", "grant"} \/ call[q].step \in {"lookup", "insert", "release"}
    PROVE  RunInv'
<1>1. Keeps(q) BY NothingToKeep
<1>2. trouble \in 0..MaxTrouble /\ died \in BOOLEAN /\ blocked \subseteq Corrections
  BY DEF RunInv, RunTypeOK
<1>. QED BY <1>1, <1>2, Endings DEF Ends, runHistory

\* Looking the key up.
LEMMA LookupStep == ASSUME RunInv, NEW q \in Requests, BookLookup(q) PROVE RunInv'
<1>. DEFINE to == IF EntriesOf(Key(q)) = {} THEN "insert" ELSE AfterBooking(q)
            next == [call[q] EXCEPT !.step = to]
<1>1. call[q].step = "lookup" /\ Goes(q, to) /\ entries' = entries BY DEF BookLookup, At
<1>2. to \in {"insert", "number", "stamp", "replace"} BY AfterBookingType
<1>3. next \in CallType BY <1>2, GoesType
<1>. HIDE DEF to
<1>4. RunTypeOK /\ Proceed(q, next, {}) BY <1>1 DEF Goes, RunInv
<1>5. /\ call' \in [Requests -> CallType] /\ call'[q] = next
      /\ \A p \in Requests \ {q} : Same(p)
  BY <1>3, <1>4, Proceeds
<1>6. UNCHANGED <<run, correction, entries, runHistory, trouble>> BY <1>1 DEF Goes
<1>7. RunTypeOK' BY <1>4, <1>5, <1>6, Typed DEF RunTypeOK, CallType, runHistory
<1>8. CallStep(q) BY <1>1, <1>5, <1>6, NothingToKeep DEF CallStep, At, runHistory
<1>9. Honest(q)'
  <2>1. Shape(q) /\ Knows(q) /\ call[q] \in CallType BY Typed DEF RunInv
  <2>2. /\ call'[q].op = call[q].op /\ call'[q].run = call[q].run /\ call'[q].corr = call[q].corr
        /\ call'[q].version = call[q].version /\ call'[q].fresh = call[q].fresh
        /\ call'[q].type = call[q].type /\ call'[q].step = to
    BY <1>5, <2>1 DEF CallType
  <2>3. /\ CreatedRuns' = CreatedRuns /\ Requested' = Requested
        /\ \A k : Booked(k)' <=> Booked(k)
    BY <1>6 DEF CreatedRuns, Requested, Booked, EntriesOf
  <2>4. CASE call[q].op = "post"
    <3>1. to \in {"insert", "number"} /\ (to = "number" => Booked(RunKey(call[q].run)))
      BY <1>1, <2>4, BookingCalls DEF to, AfterBooking, Booked
    <3>2. \A r \in CreatedRuns \ stale : Posts(q, r) =>
             /\ run[r].status \in {"APPROVED", "POSTED", "LOCKED", "VOIDED"}
             /\ call[q].version = run[r].version
      BY DEF RunInv, Orderly
    <3>. QED BY <1>1, <1>6, <2>1, <2>2, <2>3, <2>4, <3>1, <3>2
          DEF Honest, Shape, Knows, Posts, WritesRun, PastRun, RunKey, runHistory
  <2>5. CASE call[q].op = "grant"
    <3>1. /\ to \in {"insert", "stamp", "replace"}
          /\ to # "insert" => Booked(CorrKey(call[q].corr))
          /\ to = "stamp" => correction[call[q].corr].kind = "REVERSAL"
      BY <1>1, <2>5, BookingCalls DEF to, AfterBooking, Booked
    <3>. QED BY <1>1, <1>6, <2>1, <2>2, <2>3, <2>5, <3>1
          DEF Honest, Shape, Knows, Posts, WritesRun, PastCorr, CorrKey, runHistory
  <2>. QED BY <1>1, <2>4, <2>5, BookingCalls
<1>. QED BY <1>7, <1>8, <1>9, CallSteps

\* The death of a request.
LEMMA DiesStep == ASSUME RunInv, NEW q \in Requests, Dies(q) PROVE RunInv'
<1>1. trouble \in 0..MaxTrouble /\ blocked \subseteq Corrections BY DEF RunInv, RunTypeOK
<1>2. trouble' \in 0..MaxTrouble BY <1>1, RunAssumption DEF Dies
<1>3. Keeps(q) BY DEF Keeps, Dies
<1>. QED BY <1>1, <1>2, <1>3, Endings DEF Dies

\* Looking for the replacement run.
LEMMA ReplacesStep == ASSUME RunInv, NEW q \in Requests, GrantReplaces(q) PROVE RunInv'
<1>. DEFINE c == call[q].corr
            replay == {r \in CreatedRuns : run[r].replaces = c}
<1>1. call[q].op = "grant" /\ call[q].step = "replace" BY DEF GrantReplaces, Doing, At
<1>2. UNCHANGED <<run, correction, entries, stale, staleCorr, died, trouble>>
  BY DEF GrantReplaces
<1>3. RunTypeOK /\ call[q] \in CallType /\ c \in Requested /\ c \in Corrections
      /\ trouble \in 0..MaxTrouble /\ died \in BOOLEAN /\ blocked \subseteq Corrections
  BY <1>1, BookingCalls, Typed DEF RunInv, Requested
<1>4. Shape(q) /\ Knows(q) /\ Booked(CorrKey(c)) BY <1>1 DEF RunInv, Bookings, PastCorr
<1>5. /\ CreatedRuns' = CreatedRuns /\ Requested' = Requested
      /\ \A t : LiveRuns(t)' = LiveRuns(t)
      /\ \A k : Booked(k)' <=> Booked(k)
  BY <1>2 DEF CreatedRuns, Requested, LiveRuns, Booked, EntriesOf
<1>6. ASSUME NEW r \in replay,
             Proceed(q, [call[q] EXCEPT !.step = "stamp", !.run = r], {}), blocked' = blocked
      PROVE  RunInv'
  <2>. DEFINE next == [call[q] EXCEPT !.step = "stamp", !.run = r]
  <2>1. r \in CreatedRuns /\ r \in Runs /\ r # NoRun BY RunAssumption DEF CreatedRuns, Runs, NoRun
  <2>2. next \in CallType BY <1>3, <2>1 DEF CallType
  <2>3. /\ call' \in [Requests -> CallType] /\ call'[q] = next
        /\ \A p \in Requests \ {q} : Same(p)
    BY <1>3, <1>6, <2>2, Proceeds
  <2>4. RunTypeOK' BY <1>2, <1>3, <1>6, <2>3, Typed DEF RunTypeOK, CallType
  <2>5. call'[q].op = "grant" /\ call'[q].step = "stamp" /\ call'[q].run = r /\ call'[q].corr = c
        /\ call'[q].type = call[q].type /\ call'[q].fresh = call[q].fresh
    BY <1>1, <1>3, <2>3 DEF CallType
  <2>6. Keeps(q) BY <1>1, <2>5 DEF Keeps, At, Posts, Grants, PastCorr
  <2>7. CallStep(q) BY <1>2, <1>6, <2>3, <2>6 DEF CallStep
  <2>8. Honest(q)'
    BY <1>1, <1>2, <1>4, <1>5, <2>1, <2>5 DEF Honest, Shape, Knows, Posts, WritesRun, CorrKey
  <2>. QED BY <2>4, <2>7, <2>8, CallSteps
<1>7. ASSUME Proceed(q, Idle, {}), blocked' = blocked \cup {c} PROVE RunInv'
  <2>1. Keeps(q) BY <1>1, <1>7 DEF Keeps, At, Posts, Grants
  <2>. QED BY <1>2, <1>3, <1>7, <2>1, Endings
<1>8. ASSUME LiveRuns("SUPPLEMENTARY") = {}, Proceed(q, [call[q] EXCEPT !.step = "open"], {}),
             blocked' = blocked
      PROVE  RunInv'
  <2>. DEFINE next == [call[q] EXCEPT !.step = "open"]
  <2>2. next \in CallType BY GoesType
  <2>3. /\ call' \in [Requests -> CallType] /\ call'[q] = next
        /\ \A p \in Requests \ {q} : Same(p)
    BY <1>3, <1>8, <2>2, Proceeds
  <2>4. RunTypeOK' BY <1>2, <1>3, <1>8, <2>3, Typed DEF RunTypeOK, CallType
  <2>5. /\ call'[q].op = "grant" /\ call'[q].step = "open" /\ call'[q].run = call[q].run
        /\ call'[q].corr = c /\ call'[q].type = call[q].type /\ call'[q].fresh = call[q].fresh
    BY <1>1, <1>3, <2>3 DEF CallType
  <2>6. Keeps(q) BY <1>1, <2>5 DEF Keeps, At, Posts, Grants, PastCorr
  <2>7. CallStep(q) BY <1>2, <1>8, <2>3, <2>6 DEF CallStep
  <2>8. Honest(q)'
    BY <1>1, <1>2, <1>4, <1>5, <1>8, <2>5 DEF Honest, Shape, Knows, Posts, WritesRun, CorrKey
  <2>. QED BY <2>4, <2>7, <2>8, CallSteps
<1>9. CASE replay # {} BY <1>6, <1>9 DEF GrantReplaces
<1>10. CASE replay = {} BY <1>7, <1>8, <1>10 DEF GrantReplaces
<1>. QED BY <1>9, <1>10

-----------------------------------------------------------------------------
(* Steps that write a run.                                                  *)

\* An update of a run by id: one from an old read makes the run stale, one from a
\* fresh read finds the status it checked.
LEMMA RunRowStep == ASSUME RunInv, NEW q \in Requests, WritesRunRow(q) PROVE RunInv'
<1>. DEFINE r == call[q].run
<1>1. PICK now : RunUpdate(q, now) BY RunUpdates
<1>2. /\ r \in CreatedRuns /\ r \in Runs /\ r # NoRun /\ run[r].status # "none"
      /\ run' = [run EXCEPT ![r] = now] /\ run \in [Runs -> RunType] /\ run'[r] = now
      /\ \A s \in Runs \ {r} : run'[s] = run[s]
      /\ now.type = run[r].type /\ now.replaces = run[r].replaces /\ now.status # "none"
      /\ UNCHANGED <<correction, entries, staleCorr, blocked, died, trouble>>
  BY <1>1, Typed, RunAssumption DEF RunUpdate, RunInv, CreatedRuns, Runs, NoRun
<1>3. /\ CreatedRuns' = CreatedRuns /\ Requested' = Requested
      /\ \A k : Booked(k)' <=> Booked(k)
  BY <1>2 DEF CreatedRuns, Requested, Booked, EntriesOf
<1>4. /\ stale \subseteq stale' /\ stale' \subseteq stale \cup {r}
      /\ r \notin stale' => call[q].fresh /\ r \notin stale
  BY <1>1 DEF RunUpdate
<1>5. \A p \in Requests \ {q} :
         /\ Same(p) /\ Key(p)' = Key(p) /\ (call[p].run = r => ~call'[p].fresh)
         /\ \A s : At(p, s)' <=> At(p, s)
         /\ \A s : Posts(p, s)' <=> Posts(p, s)
         /\ \A c : Grants(p, c)' <=> Grants(p, c)
  BY <1>1, SamePart DEF RunUpdate
<1>6. Shape(q) /\ Knows(q) /\ call[q] \in CallType BY Typed DEF RunInv
<1>7. \/ call'[q] = Idle /\ call[q].op \in WritesRun
      \/ /\ Doing(q, "post", "stamp") /\ now.status = "POSTED"
         /\ call'[q] = [call[q] EXCEPT !.step = "release"]
  BY <1>1 DEF RunUpdate, WritesRun
<1>8. RunTypeOK'
  <2>1. RunTypeOK BY DEF RunInv
  <2>2. stale' \subseteq Runs BY <1>2, <1>4, <2>1 DEF RunTypeOK
  <2>3. run' \in [Runs -> RunType] /\ call' \in [Requests -> CallType] BY <1>1, <1>2 DEF RunUpdate
  <2>. QED BY <1>2, <2>1, <2>2, <2>3, Typed DEF RunTypeOK, RunType, CallType
<1>9. Numbered'
  <2>1. \A s \in CreatedRuns : run'[s].replaces = run[s].replaces BY <1>2 DEF CreatedRuns
  <2>. QED BY <1>3, <2>1 DEF RunInv, Numbered
\* A run that no outdated update hits stays voided, and what is live stays live.
<1>10. /\ r \notin stale' /\ run[r].status = "VOIDED" => now.status = "VOIDED"
  BY <1>1, <1>4, <1>6 DEF RunUpdate, Knows, Doing, At
<1>11. \A t : LiveRuns(t)' \subseteq LiveRuns(t) \cup stale'
  BY <1>2, <1>3, <1>10 DEF LiveRuns, CreatedRuns
<1>12. ASSUME NEW p \in Requests PROVE Shape(p)' /\ Knows(p)'
  <2>1. CASE p = q
    <3>1. CASE call'[q] = Idle
      BY <2>1, <3>1 DEF Shape, Knows, Idle, NoRun, NoCorrection, WritesRun
    <3>2. CASE Doing(q, "post", "stamp") /\ call'[q] = [call[q] EXCEPT !.step = "release"]
      <4>1. /\ call'[q].op = "post" /\ call'[q].step = "release" /\ call'[q].run = r
            /\ call'[q].corr = call[q].corr
        BY <1>6, <3>2 DEF Doing, CallType
      <4>. QED BY <1>2, <1>3, <1>6, <2>1, <4>1 DEF Shape, Knows, WritesRun
    <3>. QED BY <1>7, <3>1, <3>2
  <2>2. CASE p # q
    <3>1. Shape(p) /\ Knows(p) /\ Same(p) /\ (call[p].run = r => ~call'[p].fresh)
      BY <1>5, <2>2 DEF RunInv
    <3>2. Shape(p)' BY <1>2, <1>3, <3>1 DEF Shape, Same
    <3>3. Knows(p)'
      <4>1. SUFFICES ASSUME call'[p].fresh PROVE Knows(p)' BY DEF Knows
      <4>2. call[p].fresh /\ call[p].run # r BY <3>1, <4>1 DEF Same
      <4>3. call[p].run \in Runs \/ call[p].run = NoRun BY Typed DEF RunInv, CallType
      <4>4. call[p].run \in Runs => run'[call[p].run] = run[call[p].run] BY <1>2, <4>2
      <4>5. call[p].op \in WritesRun \cup {"post"} => call[p].run \in Runs
        BY <3>1, <4>3 DEF Shape
      <4>6. call[p].step = "open" => LiveRuns(call[p].type)' \subseteq stale'
        <5>1. call'[p].type = call[p].type BY <3>1 DEF Same
        <5>2. LiveRuns(call[p].type)' \subseteq LiveRuns(call[p].type) \cup stale'
          BY <1>2, <1>3, <1>10, <5>1 DEF LiveRuns, CreatedRuns
        <5>. QED BY <1>4, <3>1, <4>2, <5>2 DEF Knows
      <4>. QED BY <1>2, <3>1, <4>2, <4>4, <4>5, <4>6 DEF Knows, Same, WritesRun
    <3>. QED BY <3>2, <3>3
  <2>. QED BY <2>1, <2>2
<1>13. At(q, "ledger") => FALSE BY <1>6, <1>7 DEF At, Shape, Doing
<1>14. Ledger' BY <1>2, <1>3, <1>5, <1>13 DEF RunInv, Ledger
<1>15. Bookings'
  <2>1. ASSUME NEW p \in Requests
        PROVE  /\ call'[p].op = "post" /\ call'[p].step \in PastRun \cup {"release"}
                     => Booked(RunKey(call'[p].run))
               /\ call'[p].op = "grant" /\ call'[p].step \in PastCorr
                     => Booked(CorrKey(call'[p].corr))
    <3>1. CASE p = q
      BY <1>6, <1>7, <3>1 DEF RunInv, Bookings, PastRun, PastCorr, Idle, Doing, At, CallType
    <3>2. CASE p # q BY <1>5, <3>2 DEF RunInv, Bookings, Same
    <3>. QED BY <3>1, <3>2
  <2>. QED BY <1>2, <1>3, <2>1 DEF RunInv, Bookings, RunKey, CorrKey
<1>16. ASSUME NEW s \in CreatedRuns, s \notin stale' PROVE Orderly(s)'
  <2>1. Orderly(s) /\ s \in Runs BY <1>4, <1>16 DEF RunInv, CreatedRuns
  <2>2. \A p \in Requests : Posts(p, s)' => Posts(p, s) /\ call'[p].version = call[p].version
    BY <1>5, <1>6, <1>7 DEF Posts, Same, Idle, CallType, Doing
  <2>3. CASE s # r
    <3>1. run'[s] = run[s] BY <1>2, <2>1, <2>3
    <3>2. \A p \in Requests : Posts(p, s) => Posts(p, s)' /\ call'[p].step = call[p].step
      BY <1>5, <1>6, <1>7, <2>3 DEF Posts, Same, Doing, WritesRun
    <3>. QED BY <1>2, <1>3, <2>1, <2>2, <3>1, <3>2 DEF Orderly, RunKey
  <2>4. CASE s = r
    <3>1. call[q].fresh BY <1>4, <1>16, <2>4
    <3>2. Booked(RunKey(r)) \/ (\E p \in Requests : Posts(p, r)) =>
             /\ now.version = run[r].version /\ now.numbered = run[r].numbered
             /\ now.status \in {"POSTED", "LOCKED", "VOIDED"}
                \/ now.status = run[r].status
      BY <1>1, <1>6, <2>1, <2>4, <3>1 DEF RunUpdate, Knows, Orderly
    <3>3. run[r].status \in {"POSTED", "LOCKED"} => now.status \in {"POSTED", "LOCKED"}
      BY <1>1, <1>6, <3>1 DEF RunUpdate, Knows, Doing, At
    <3>4. now.numbered => run[r].numbered BY <1>1 DEF RunUpdate
    <3>5. ASSUME Booked(RunKey(s)), now.status \notin {"POSTED", "LOCKED"}, ~died
          PROVE  \E p \in Requests : Posts(p, s)' /\ call'[p].step \in PastRun
      <4>1. PICK p \in Requests : Posts(p, s) /\ call[p].step \in PastRun
        BY <2>1, <2>4, <3>3, <3>5 DEF Orderly
      <4>2. p # q BY <1>7, <3>5, <4>1 DEF Posts, WritesRun
      <4>. QED BY <1>5, <4>1, <4>2 DEF Same
    <3>6. \A e \in entries : e.key = RunKey(s) => Booked(RunKey(s)) BY BookedIs
    <3>7. run'[s] = now BY <1>2, <2>4
    <3>8. Booked(RunKey(s)) \/ (\E p \in Requests : Posts(p, s)')
             => now.status \in {"APPROVED", "POSTED", "LOCKED", "VOIDED"}
      BY <2>1, <2>2, <2>4, <3>2 DEF Orderly
    <3>9. \A e \in entries : e.key = RunKey(s) => e.version = now.version
      BY <2>1, <2>4, <3>2, <3>6 DEF Orderly
    <3>10. \A p \in Requests : Posts(p, s)' => call'[p].version = now.version
      BY <2>1, <2>2, <2>4, <3>2 DEF Orderly
    <3>11. now.numbered => Booked(RunKey(s)) BY <2>1, <2>4, <3>4 DEF Orderly
    <3>. QED BY <1>2, <1>3, <3>5, <3>7, <3>8, <3>9, <3>10, <3>11 DEF Orderly, RunKey
  <2>. QED BY <2>3, <2>4
<1>17. ASSUME NEW c \in Requested \ (staleCorr \cup blocked) PROVE Granted(c)'
  <2>1. Granted(c) BY DEF RunInv
  <2>2. \A p \in Requests : Grants(p, c) => Grants(p, c)' /\ call'[p].step = call[p].step
    BY <1>5, <1>7 DEF Grants, Same, Doing, WritesRun
  <2>3. \A s \in CreatedRuns : run'[s].replaces = run[s].replaces BY <1>2 DEF CreatedRuns
  <2>. QED BY <1>2, <1>3, <2>1, <2>2, <2>3 DEF Granted, Settled, CorrKey
<1>18. TwinsNeedARace'
  BY <1>2, <1>3, <1>4, <1>10 DEF RunInv, TwinsNeedARace, CreatedRuns
<1>. QED BY <1>2, <1>3, <1>8, <1>9, <1>12, <1>14, <1>15, <1>16, <1>17, <1>18 DEF RunInv

-----------------------------------------------------------------------------
(* Steps that write a correction.                                           *)

\* Deciding a correction, and releasing those that waited for their run.
LEMMA CorrectionRowStep == ASSUME RunInv, NEW q \in Requests, WritesCorrectionRow(q) PROVE RunInv'
<1>. DEFINE c == call[q].corr
<1>1. PICK now : CorrectionUpdate(q, now) BY CorrectionUpdates
<1>2. /\ c \in Requested /\ c \in Corrections /\ c # NoCorrection
      /\ correction \in [Corrections -> CorrectionType]
      /\ correction' = [correction EXCEPT ![c] = now] /\ correction'[c] = now
      /\ \A d \in Corrections \ {c} : correction'[d] = correction[d]
      /\ now.kind = correction[c].kind /\ now.status \in {"APPROVED", "APPLIED", "REJECTED"}
      /\ UNCHANGED <<run, entries, stale, blocked, died, trouble>>
      /\ call' \in [Requests -> CallType] /\ call'[q] = Idle
  BY <1>1, Typed, RunAssumption
     DEF CorrectionUpdate, RunInv, Requested, Corrections, NoCorrection
<1>3. /\ CreatedRuns' = CreatedRuns /\ Requested' = Requested
      /\ \A t : LiveRuns(t)' = LiveRuns(t)
      /\ \A k : Booked(k)' <=> Booked(k)
  BY <1>2 DEF CreatedRuns, Requested, LiveRuns, Booked, EntriesOf
<1>4. /\ staleCorr \subseteq staleCorr' /\ staleCorr' \subseteq staleCorr \cup {c}
      /\ c \notin staleCorr' => call[q].fresh /\ c \notin staleCorr
  BY <1>1 DEF CorrectionUpdate
<1>5. \A p \in Requests \ {q} :
         /\ Same(p) /\ Key(p)' = Key(p) /\ (call[p].corr = c => ~call'[p].fresh)
         /\ \A s : At(p, s)' <=> At(p, s)
         /\ \A s : Posts(p, s)' <=> Posts(p, s)
         /\ \A d : Grants(p, d)' <=> Grants(p, d)
  BY <1>1, SamePart DEF CorrectionUpdate
<1>6. Shape(q) /\ Knows(q) /\ call[q] \in CallType BY Typed DEF RunInv
<1>7. \/ call[q].op = "refuse" /\ now.status = "REJECTED"
      \/ /\ call[q].op = "grant" /\ call[q].step = "stamp"
         /\ now.status \in {"APPROVED", "APPLIED"}
         /\ now.status = "APPLIED" => now.kind = "REVERSAL"
  BY <1>1, <1>2, <1>6 DEF CorrectionUpdate, Doing, At, Shape
<1>8. call[q].op \notin {"post", "none", "create"} /\ ~At(q, "ledger")
  BY <1>6, <1>7 DEF At, Shape
<1>9. RunTypeOK'
  <2>1. RunTypeOK BY DEF RunInv
  <2>2. staleCorr' \subseteq Corrections BY <1>2, <1>4, <2>1 DEF RunTypeOK
  <2>3. correction' \in [Corrections -> CorrectionType] BY <1>1, <1>2 DEF CorrectionUpdate
  <2>. QED BY <1>2, <2>1, <2>2, <2>3, Typed DEF RunTypeOK, CorrectionType, CallType
<1>10. Numbered' BY <1>2, <1>3 DEF RunInv, Numbered
<1>11. ASSUME NEW p \in Requests PROVE Shape(p)' /\ Knows(p)'
  <2>1. CASE p = q
    BY <1>2, <2>1 DEF Shape, Knows, Idle, NoRun, NoCorrection, WritesRun
  <2>2. CASE p # q
    <3>1. Shape(p) /\ Knows(p) /\ Same(p) /\ (call[p].corr = c => ~call'[p].fresh)
      BY <1>5, <2>2 DEF RunInv
    <3>2. \A d \in Corrections : correction'[d].kind = correction[d].kind BY <1>2
    <3>3. call[p].corr \in Corrections \/ call[p].corr = NoCorrection
      BY Typed DEF RunInv, CallType
    <3>4. Shape(p)' BY <1>2, <1>3, <3>1, <3>2, <3>3 DEF Shape, Same
    <3>5. Knows(p)'
      <4>1. SUFFICES ASSUME call'[p].fresh PROVE Knows(p)' BY DEF Knows
      <4>2. call[p].fresh /\ call[p].corr # c BY <3>1, <4>1 DEF Same
      <4>3. call[p].op \in {"refuse", "grant"} => correction'[call[p].corr] = correction[call[p].corr]
        BY <1>2, <3>1, <3>3, <4>2 DEF Shape
      <4>. QED BY <1>2, <1>3, <3>1, <4>2, <4>3 DEF Knows, Same
    <3>. QED BY <3>4, <3>5
  <2>. QED BY <2>1, <2>2
<1>12. Ledger' BY <1>2, <1>3, <1>5, <1>8 DEF RunInv, Ledger
<1>13. Bookings'
  <2>1. ASSUME NEW p \in Requests
        PROVE  /\ call'[p].op = "post" /\ call'[p].step \in PastRun \cup {"release"}
                     => Booked(RunKey(call'[p].run))
               /\ call'[p].op = "grant" /\ call'[p].step \in PastCorr
                     => Booked(CorrKey(call'[p].corr))
    <3>1. CASE p = q BY <1>2, <3>1 DEF Idle
    <3>2. CASE p # q BY <1>5, <3>2 DEF RunInv, Bookings, Same
    <3>. QED BY <3>1, <3>2
  <2>2. ASSUME NEW d \in Corrections
        PROVE  /\ correction'[d].status \in {"APPROVED", "APPLIED"} => Booked(CorrKey(d))
               /\ correction'[d].status = "APPLIED" /\ correction'[d].kind = "DELTA"
                     => Booked(RunKey(correction'[d].replacement))
    <3>1. CASE d = c BY <1>2, <1>7, <3>1 DEF RunInv, Bookings, PastCorr
    <3>2. CASE d # c BY <1>2, <3>2 DEF RunInv, Bookings
    <3>. QED BY <3>1, <3>2
  <2>. QED BY <1>2, <1>3, <2>1, <2>2 DEF Bookings, RunKey, CorrKey
<1>14. ASSUME NEW r \in CreatedRuns \ stale PROVE Orderly(r)'
  <2>1. Orderly(r) BY DEF RunInv
  <2>2. \A p \in Requests : Posts(p, r)' <=> Posts(p, r)
    BY <1>2, <1>5, <1>8 DEF Posts, Idle
  <2>3. \A p \in Requests : Posts(p, r) =>
           call'[p].step = call[p].step /\ call'[p].version = call[p].version
    BY <1>5, <1>8 DEF Posts, Same
  <2>. QED BY <1>2, <1>3, <2>1, <2>2, <2>3 DEF Orderly, RunKey
<1>15. ASSUME NEW d \in Requested, d \notin staleCorr', d \notin blocked PROVE Granted(d)'
  <2>1. Granted(d) /\ d \in Corrections BY <1>4, <1>15 DEF RunInv, Requested
  <2>2. CASE d # c
    <3>1. \A p \in Requests : Grants(p, d) => Grants(p, d)' /\ call'[p].step = call[p].step
      BY <1>5, <2>2 DEF Grants, Same
    <3>. QED BY <1>2, <1>3, <2>1, <2>2, <3>1 DEF Granted, Settled, CorrKey
  <2>3. CASE d = c /\ now.status \in {"APPROVED", "APPLIED"}
    BY <1>2, <2>3 DEF Granted, Settled
  <2>4. CASE d = c /\ now.status \notin {"APPROVED", "APPLIED"}
    <3>1. call[q].fresh /\ call[q].op = "refuse" BY <1>4, <1>7, <1>15, <2>4
    <3>2. correction[d].status = "PENDING" BY <1>6, <2>4, <3>1 DEF Knows
    <3>3. \A p \in Requests : Grants(p, d) => Grants(p, d)' /\ call'[p].step = call[p].step
      BY <1>5, <3>1 DEF Grants, Same
    <3>. QED BY <1>2, <1>3, <2>1, <3>2, <3>3 DEF Granted, Settled, CorrKey
  <2>. QED BY <2>2, <2>3, <2>4
<1>16. TwinsNeedARace' BY <1>2, <1>3 DEF RunInv, TwinsNeedARace
<1>. QED BY <1>2, <1>3, <1>9, <1>10, <1>11, <1>12, <1>13, <1>14, <1>15, <1>16 DEF RunInv

\* Releasing the corrections that waited for the run.
LEMMA ReleasesStep == ASSUME RunInv, NEW q \in Requests, PostReleases(q) PROVE RunInv'
<1>. DEFINE released == WaitingFor(call[q].run)
            outdated == UNION {OnCorrection(c) : c \in released}
<1>1. /\ call[q].op = "post" /\ call[q].step = "release"
      /\ correction' = [c \in Corrections |->
            IF c \in released THEN [correction[c] EXCEPT !.status = "APPLIED"]
            ELSE correction[c]]
      /\ Proceed(q, Idle, outdated)
      /\ UNCHANGED <<run, entries, stale, staleCorr, blocked, died, trouble>>
  BY DEF PostReleases, Doing, At, runHistory
<1>2. RunTypeOK /\ correction \in [Corrections -> CorrectionType] BY Typed DEF RunInv
<1>3. /\ call' \in [Requests -> CallType] /\ call'[q] = Idle
      /\ \A p \in Requests \ {q} : Same(p) /\ (p \in outdated => ~call'[p].fresh)
  BY <1>1, <1>2, IdleType, Proceeds
<1>4. \A p \in Requests \ {q} :
         /\ Same(p) /\ Key(p)' = Key(p) /\ (call[p].corr \in released => ~call'[p].fresh)
         /\ \A s : At(p, s)' <=> At(p, s)
         /\ \A s : Posts(p, s)' <=> Posts(p, s)
         /\ \A d : Grants(p, d)' <=> Grants(p, d)
  BY <1>3, SamePart DEF OnCorrection
<1>5. \A c \in Corrections :
         /\ correction'[c] \in CorrectionType /\ correction'[c].kind = correction[c].kind
         /\ correction'[c].replacement = correction[c].replacement
         /\ c \notin released => correction'[c] = correction[c]
         /\ c \in released => /\ correction'[c].status = "APPLIED"
                              /\ correction[c].status = "APPROVED"
                              /\ correction[c].replacement = call[q].run
  BY <1>1, <1>2 DEF CorrectionType, WaitingFor
<1>6. /\ CreatedRuns' = CreatedRuns /\ Requested' = Requested
      /\ \A t : LiveRuns(t)' = LiveRuns(t)
      /\ \A k : Booked(k)' <=> Booked(k)
  BY <1>1, <1>5 DEF CreatedRuns, Requested, LiveRuns, Booked, EntriesOf
<1>7. RunTypeOK'
  <2>1. correction' \in [Corrections -> CorrectionType] BY <1>1, <1>5
  <2>. QED BY <1>1, <1>2, <1>3, <2>1, Typed DEF RunTypeOK, CorrectionType, CallType
<1>8. Numbered' BY <1>1, <1>6 DEF RunInv, Numbered
<1>9. ASSUME NEW p \in Requests PROVE Shape(p)' /\ Knows(p)'
  <2>1. CASE p = q
    BY <1>3, <2>1 DEF Shape, Knows, Idle, NoRun, NoCorrection, WritesRun
  <2>2. CASE p # q
    <3>1. Shape(p) /\ Knows(p) /\ Same(p) /\ (call[p].corr \in released => ~call'[p].fresh)
      BY <1>4, <2>2 DEF RunInv
    <3>2. call[p].corr \in Corrections \/ call[p].corr = NoCorrection
      BY Typed DEF RunInv, CallType
    <3>3. Shape(p)' BY <1>1, <1>5, <1>6, <3>1, <3>2 DEF Shape, Same
    <3>4. Knows(p)'
      <4>1. SUFFICES ASSUME call'[p].fresh PROVE Knows(p)' BY DEF Knows
      <4>2. call[p].fresh /\ call[p].corr \notin released BY <3>1, <4>1 DEF Same
      <4>3. call[p].op \in {"refuse", "grant"} => correction'[call[p].corr] = correction[call[p].corr]
        BY <1>5, <3>1, <3>2, <4>2 DEF Shape
      <4>. QED BY <1>1, <1>6, <3>1, <4>2, <4>3 DEF Knows, Same
    <3>. QED BY <3>3, <3>4
  <2>. QED BY <2>1, <2>2
<1>10. Ledger'
  <2>1. ASSUME NEW e \in entries, ~e.posted, ~died
        PROVE  \E p \in Requests : At(p, "ledger")' /\ Key(p)' = e.key
    <3>1. PICK p \in Requests : At(p, "ledger") /\ Key(p) = e.key BY <2>1 DEF RunInv, Ledger
    <3>2. p # q BY <1>1, <3>1 DEF At
    <3>. QED BY <1>4, <3>1, <3>2
  <2>. QED BY <1>1, <1>6, <2>1 DEF RunInv, Ledger, RunKey, CorrKey
<1>11. Bookings'
  <2>1. ASSUME NEW p \in Requests
        PROVE  /\ call'[p].op = "post" /\ call'[p].step \in PastRun \cup {"release"}
                     => Booked(RunKey(call'[p].run))
               /\ call'[p].op = "grant" /\ call'[p].step \in PastCorr
                     => Booked(CorrKey(call'[p].corr))
    <3>1. CASE p = q BY <1>3, <3>1 DEF Idle
    <3>2. CASE p # q BY <1>4, <3>2 DEF RunInv, Bookings, Same
    <3>. QED BY <3>1, <3>2
  <2>2. Booked(RunKey(call[q].run)) BY <1>1 DEF RunInv, Bookings
  <2>3. ASSUME NEW d \in Corrections
        PROVE  /\ correction'[d].status \in {"APPROVED", "APPLIED"} => Booked(CorrKey(d))
               /\ correction'[d].status = "APPLIED" /\ correction'[d].kind = "DELTA"
                     => Booked(RunKey(correction'[d].replacement))
    BY <1>5, <2>2 DEF RunInv, Bookings
  <2>. QED BY <1>1, <1>6, <2>1, <2>3 DEF Bookings, RunKey, CorrKey
<1>12. ASSUME NEW r \in CreatedRuns \ stale PROVE Orderly(r)'
  <2>1. Orderly(r) BY DEF RunInv
  <2>2. \A p \in Requests : Posts(p, r)' => Posts(p, r) /\ call'[p].version = call[p].version
    BY <1>3, <1>4 DEF Posts, Same, Idle
  <2>3. \A p \in Requests : Posts(p, r) /\ call[p].step \in PastRun =>
           Posts(p, r)' /\ call'[p].step = call[p].step
    BY <1>1, <1>4 DEF Same, PastRun
  <2>. QED BY <1>1, <1>6, <2>1, <2>2, <2>3 DEF Orderly, RunKey
<1>13. ASSUME NEW d \in Requested \ (staleCorr \cup blocked) PROVE Granted(d)'
  <2>1. Granted(d) /\ d \in Corrections BY DEF RunInv, Requested
  <2>2. \A p \in Requests : Grants(p, d) => Grants(p, d)' /\ call'[p].step = call[p].step
    BY <1>1, <1>4 DEF Grants, Same
  <2>3. Settled(d) => Settled(d)' BY <1>1, <1>5, <2>1 DEF Settled
  <2>. QED BY <1>1, <1>6, <2>1, <2>2, <2>3 DEF Granted, CorrKey
<1>14. TwinsNeedARace' BY <1>1, <1>6 DEF RunInv, TwinsNeedARace
<1>. QED BY <1>1, <1>6, <1>7, <1>8, <1>9, <1>10, <1>11, <1>12, <1>13, <1>14 DEF RunInv

\* Filing a correction.
LEMMA RequestStep ==
    ASSUME RunInv, NEW q \in Requests, NEW k \in Kinds, RequestWrites(q, k)
    PROVE  RunInv'
<1>. DEFINE c == NewCorrection
            now == [status |-> "PENDING", kind |-> k, target |-> call[q].run,
                    requestedBy |-> call[q].by, replacement |-> NoRun]
<1>1. c \in Corrections /\ call[q].op = "request" /\ call[q].step = "write"
  BY DEF RequestWrites, Doing, At
<1>2. CASE run[call[q].run].version # call[q].version
  <2>1. Ends(q) BY <1>2 DEF RequestWrites
  <2>. QED BY <1>1, <2>1, RefusedStep DEF At
<1>3. CASE run[call[q].run].version = call[q].version
  <2>1. /\ correction' = [correction EXCEPT ![c] = now] /\ Proceed(q, Idle, {})
        /\ UNCHANGED <<run, entries, stale, staleCorr, blocked, died, trouble>>
    BY <1>3 DEF RequestWrites, runHistory
  <2>2. RunTypeOK /\ correction \in [Corrections -> CorrectionType] /\ call[q] \in CallType
    BY Typed DEF RunInv
  <2>3. /\ call' \in [Requests -> CallType] /\ call'[q] = Idle
        /\ \A p \in Requests \ {q} : Same(p)
    BY <2>1, <2>2, IdleType, Proceeds
  <2>4. now \in CorrectionType BY <2>2 DEF CallType, CorrectionType
  <2>5. c \notin Requested /\ Requested \cup {c} = 1..c /\ c \in 0..MaxCorrections
    BY <1>1, NewCorrectionIsNew
  <2>. HIDE DEF c, now
  <2>6. /\ correction' \in [Corrections -> CorrectionType] /\ correction'[c] = now
        /\ \A d \in Corrections \ {c} : correction'[d] = correction[d]
    BY <1>1, <2>1, <2>2, <2>4
  <2>7. now.status = "PENDING" BY DEF now
  <2>8. /\ CreatedRuns' = CreatedRuns /\ Requested' = Requested \cup {c}
        /\ \A t : LiveRuns(t)' = LiveRuns(t)
        /\ \A key : Booked(key)' <=> Booked(key)
    BY <1>1, <2>1, <2>6, <2>7 DEF CreatedRuns, Requested, LiveRuns, Booked, EntriesOf
  <2>9. \A p \in Requests \ {q} :
           /\ Same(p) /\ Key(p)' = Key(p)
           /\ \A s : At(p, s)' <=> At(p, s)
           /\ \A s : Posts(p, s)' <=> Posts(p, s)
           /\ \A d : Grants(p, d)' <=> Grants(p, d)
    BY <2>3, SamePart
  <2>10. RunTypeOK' BY <2>1, <2>2, <2>3, <2>6, Typed DEF RunTypeOK, CorrectionType, CallType
  <2>11. Numbered' BY <2>1, <2>5, <2>8 DEF RunInv, Numbered
  <2>12. ASSUME NEW p \in Requests PROVE Shape(p)' /\ Knows(p)'
    <3>1. CASE p = q
      BY <2>3, <3>1 DEF Shape, Knows, Idle, NoRun, NoCorrection, WritesRun
    <3>2. CASE p # q
      <4>1. Shape(p) /\ Knows(p) /\ Same(p) BY <2>9, <3>2 DEF RunInv
      <4>2. call[p].op \in {"refuse", "grant"} => correction'[call[p].corr] = correction[call[p].corr]
        BY <2>5, <2>6, <4>1 DEF Shape, Requested
      <4>3. Shape(p)' BY <2>1, <2>8, <4>1, <4>2 DEF Shape, Same
      <4>4. Knows(p)' BY <2>1, <2>8, <4>1, <4>2 DEF Knows, Same
      <4>. QED BY <4>3, <4>4
    <3>. QED BY <3>1, <3>2
  <2>13. Ledger'
    <3>1. \A e \in entries : (\E r \in CreatedRuns' : e.key = RunKey(r)) \/ \E d \in Requested' : e.key = CorrKey(d)
      BY <2>8 DEF RunInv, Ledger
    <3>2. \A e \in entries : e.posted \/ died \/ \E p \in Requests : At(p, "ledger")' /\ Key(p)' = e.key
      BY <1>1, <2>9 DEF RunInv, Ledger, At
    <3>. QED BY <2>1, <3>1, <3>2 DEF RunInv, Ledger, RunKey, CorrKey
  <2>14. Bookings'
    <3>1. ASSUME NEW p \in Requests
          PROVE  /\ call'[p].op = "post" /\ call'[p].step \in PastRun \cup {"release"}
                       => Booked(RunKey(call'[p].run))
                 /\ call'[p].op = "grant" /\ call'[p].step \in PastCorr
                       => Booked(CorrKey(call'[p].corr))
      <4>1. CASE p = q BY <2>3, <4>1 DEF Idle
      <4>2. CASE p # q BY <2>9, <4>2 DEF RunInv, Bookings, Same
      <4>. QED BY <4>1, <4>2
    <3>2. ASSUME NEW d \in Corrections
          PROVE  /\ correction'[d].status \in {"APPROVED", "APPLIED"} => Booked(CorrKey(d))
                 /\ correction'[d].status = "APPLIED" /\ correction'[d].kind = "DELTA"
                       => Booked(RunKey(correction'[d].replacement))
      BY <2>6, <2>7 DEF RunInv, Bookings
    <3>. QED BY <2>1, <2>8, <3>1, <3>2 DEF Bookings, RunKey, CorrKey
  <2>15. ASSUME NEW r \in CreatedRuns \ stale PROVE Orderly(r)'
    <3>1. Orderly(r) BY DEF RunInv
    <3>2. \A p \in Requests : /\ Posts(p, r)' <=> Posts(p, r)
                              /\ Posts(p, r) => call'[p].step = call[p].step
                                                /\ call'[p].version = call[p].version
      BY <1>1, <2>3, <2>9 DEF Posts, Same, Idle
    <3>. QED BY <2>1, <2>8, <3>1, <3>2 DEF Orderly, RunKey
  <2>16. ASSUME NEW d \in Requested', d \notin staleCorr \cup blocked PROVE Granted(d)'
    <3>1. CASE d = c
      <4>1. ~Booked(CorrKey(c)) BY <2>5, BookedIs, KeysApart DEF RunInv, Ledger
      <4>2. \A r \in CreatedRuns : run[r].replaces # c
        BY <1>1, <2>5, RunAssumption DEF RunInv, Numbered, Corrections, NoCorrection
      <4>. QED BY <2>1, <2>8, <3>1, <4>1, <4>2 DEF Granted, CorrKey
    <3>2. CASE d # c
      <4>1. d \in Requested /\ d \in Corrections /\ Granted(d) /\ correction'[d] = correction[d]
        BY <2>6, <2>8, <2>16, <3>2 DEF RunInv, Requested
      <4>2. \A p \in Requests : Grants(p, d) => Grants(p, d)' /\ call'[p].step = call[p].step
        BY <1>1, <2>9 DEF Grants, Same
      <4>. QED BY <2>1, <2>8, <4>1, <4>2 DEF Granted, Settled, CorrKey
    <3>. QED BY <3>1, <3>2
  <2>17. TwinsNeedARace' BY <2>1, <2>8 DEF RunInv, TwinsNeedARace
  <2>. QED BY <2>1, <2>8, <2>10, <2>11, <2>12, <2>13, <2>14, <2>15, <2>16, <2>17 DEF RunInv
<1>. QED BY <1>2, <1>3

-----------------------------------------------------------------------------
(* A new run.                                                               *)

\* Creating a run.
LEMMA OpensStep == ASSUME RunInv, NEW q \in Requests, Opens(q) PROVE RunInv'
<1>. DEFINE n == NewRun
            c == call[q].corr
            taken == c # NoCorrection /\ \E r \in CreatedRuns : run[r].replaces = c
            opening == {p \in Requests : At(p, "open")}
            now == [BlankRun EXCEPT !.status = "DRAFT", !.replaces = c, !.type = call[q].type]
            next == IF call[q].op = "create" THEN Idle
                    ELSE [call[q] EXCEPT !.step = "stamp", !.run = n]
<1>1. call[q].step = "open" /\ n \in Runs BY DEF Opens, At
<1>2. RunTypeOK /\ Shape(q) /\ Knows(q) /\ call[q] \in CallType /\ run \in [Runs -> RunType]
  BY Typed DEF RunInv
<1>3. /\ call[q].op \in {"create", "grant"}
      /\ call[q].op = "create" => c = NoCorrection
      /\ call[q].op = "grant" => c \in Requested /\ c \in Corrections /\ c # NoCorrection
  BY <1>1, <1>2 DEF Shape, CallType, Ops, WritesRun, Requested
<1>4. CASE taken
  <2>1. Ends(q) BY <1>4 DEF Opens
  <2>2. call[q].op = "grant" BY <1>3, <1>4
  <2>3. Keeps(q)
    <3>1. c \notin staleCorr \cup blocked =>
             Settled(c) \/ \E p \in Requests \ {q} : Grants(p, c) /\ call[p].step = "stamp"
      BY <1>1, <1>3, <1>4, <2>2 DEF RunInv, Granted
    <3>. QED BY <1>1, <2>1, <2>2, <3>1 DEF Keeps, At, Posts, Grants, Ends, runHistory
  <2>4. trouble \in 0..MaxTrouble /\ died \in BOOLEAN /\ blocked \subseteq Corrections
    BY <1>2 DEF RunTypeOK
  <2>. QED BY <2>1, <2>3, <2>4, Endings DEF Ends, runHistory
<1>5. CASE ~taken
  <2>1. /\ run' = [run EXCEPT ![n] = now] /\ Proceed(q, next, opening)
        /\ stale' = IF call[q].fresh THEN stale ELSE stale \cup {n}
        /\ UNCHANGED <<correction, entries, staleCorr, blocked, died, trouble>>
    BY <1>5 DEF Opens
  <2>2. n \notin CreatedRuns /\ CreatedRuns \cup {n} = 1..n /\ n \in 0..MaxRuns /\ n # NoRun
    BY <1>1, NewRunIsNew
  <2>3. /\ now \in RunType /\ now.status = "DRAFT" /\ now.replaces = c /\ now.type = call[q].type
        /\ ~now.numbered
    <3>1. c \in Corrections \cup {NoCorrection} /\ call[q].type \in Types BY <1>2 DEF CallType
    <3>. QED BY <3>1 DEF BlankRun, RunType, Statuses, NoCorrection
  <2>. HIDE DEF n, now
  <2>4. next \in CallType
    <3>1. [call[q] EXCEPT !.step = "stamp", !.run = n] \in CallType BY <1>1, <1>2 DEF CallType
    <3>. QED BY <3>1, IdleType
  <2>5. /\ call' \in [Requests -> CallType] /\ call'[q] = next
        /\ \A p \in Requests \ {q} : Same(p) /\ (p \in opening => ~call'[p].fresh)
    BY <1>2, <2>1, <2>4, Proceeds
  <2>6. /\ run' \in [Runs -> RunType] /\ run'[n] = now
        /\ \A r \in Runs \ {n} : run'[r] = run[r]
    BY <1>1, <1>2, <2>1, <2>3
  <2>7. /\ CreatedRuns' = CreatedRuns \cup {n} /\ Requested' = Requested
        /\ \A k : Booked(k)' <=> Booked(k)
    BY <1>1, <2>1, <2>3, <2>6 DEF CreatedRuns, Requested, Booked, EntriesOf
  <2>8. \A r \in CreatedRuns : r \in Runs /\ r # n /\ run'[r] = run[r]
    BY <2>2, <2>6 DEF CreatedRuns
  <2>9. /\ stale \subseteq stale' /\ stale' \subseteq stale \cup {n}
        /\ n \notin stale' => call[q].fresh
    BY <2>1
  <2>10. \A p \in Requests \ {q} :
           /\ Same(p) /\ Key(p)' = Key(p) /\ (call[p].step = "open" => ~call'[p].fresh)
           /\ \A s : At(p, s)' <=> At(p, s)
           /\ \A s : Posts(p, s)' <=> Posts(p, s)
           /\ \A d : Grants(p, d)' <=> Grants(p, d)
    BY <2>5, SamePart DEF At
  <2>11. RunTypeOK'
    <3>1. stale' \subseteq Runs BY <1>1, <1>2, <2>9 DEF RunTypeOK
    <3>. QED BY <1>2, <2>1, <2>5, <2>6, <3>1, Typed DEF RunTypeOK, RunType, CallType
  <2>12. Numbered'
    <3>1. \A r \in CreatedRuns' : run'[r].replaces # NoCorrection => run'[r].replaces \in Requested
      BY <1>3, <2>3, <2>6, <2>7, <2>8 DEF RunInv, Numbered
    <3>. QED BY <2>1, <2>2, <2>7, <3>1 DEF RunInv, Numbered
  <2>13. ASSUME NEW p \in Requests PROVE Shape(p)' /\ Knows(p)'
    <3>1. CASE p = q /\ call[q].op = "create"
      BY <2>5, <3>1 DEF Shape, Knows, Idle, NoRun, NoCorrection, WritesRun
    <3>2. CASE p = q /\ call[q].op = "grant"
      <4>1. /\ call'[q].op = "grant" /\ call'[q].step = "stamp" /\ call'[q].run = n
            /\ call'[q].corr = c /\ call'[q].type = call[q].type /\ call'[q].fresh = call[q].fresh
        BY <1>2, <2>5, <3>2 DEF CallType
      <4>. QED BY <1>2, <1>3, <2>1, <2>2, <2>7, <3>2, <4>1 DEF Shape, Knows, WritesRun
    <3>3. CASE p # q
      <4>1. Shape(p) /\ Knows(p) /\ Same(p) /\ (call[p].step = "open" => ~call'[p].fresh)
        BY <2>10, <3>3 DEF RunInv
      <4>2. Shape(p)' BY <2>1, <2>7, <4>1 DEF Shape, Same
      <4>3. call[p].run # NoRun => run'[call[p].run] = run[call[p].run]
        BY <2>8, <4>1 DEF Shape
      <4>4. Knows(p)'
        BY <2>1, <4>1, <4>3 DEF Knows, Same, Shape, WritesRun
      <4>. QED BY <4>2, <4>4
    <3>. QED BY <1>3, <3>1, <3>2, <3>3
  <2>14. Ledger'
    <3>1. \A e \in entries : (\E r \in CreatedRuns' : e.key = RunKey(r)) \/ \E d \in Requested' : e.key = CorrKey(d)
      BY <2>7 DEF RunInv, Ledger
    <3>2. \A e \in entries : e.posted \/ died \/ \E p \in Requests : At(p, "ledger")' /\ Key(p)' = e.key
      BY <1>1, <2>10 DEF RunInv, Ledger, At
    <3>. QED BY <2>1, <3>1, <3>2 DEF RunInv, Ledger, RunKey, CorrKey
  <2>15. Bookings'
    <3>1. ASSUME NEW p \in Requests
          PROVE  /\ call'[p].op = "post" /\ call'[p].step \in PastRun \cup {"release"}
                       => Booked(RunKey(call'[p].run))
                 /\ call'[p].op = "grant" /\ call'[p].step \in PastCorr
                       => Booked(CorrKey(call'[p].corr))
      <4>1. CASE p = q
        <5>1. call'[q].op # "post" /\ (call'[q].op = "grant" => call'[q].corr = c /\ call[q].op = "grant")
          BY <1>2, <1>3, <2>5 DEF Idle, CallType
        <5>. QED BY <1>1, <4>1, <5>1 DEF RunInv, Bookings, PastCorr
      <4>2. CASE p # q BY <2>10, <4>2 DEF RunInv, Bookings, Same
      <4>. QED BY <4>1, <4>2
    <3>. QED BY <2>1, <2>7, <3>1 DEF RunInv, Bookings, RunKey, CorrKey
  <2>16. ASSUME NEW r \in CreatedRuns', r \notin stale' PROVE Orderly(r)'
    <3>1. \A p \in Requests : Posts(p, r)' <=> Posts(p, r)
      <4>1. call'[q].op # "post" /\ call[q].op # "post"
        BY <1>2, <1>3, <2>5 DEF Idle, CallType
      <4>2. ~Posts(q, r) /\ ~Posts(q, r)' BY <4>1 DEF Posts
      <4>. QED BY <2>10, <4>2
    <3>2. \A p \in Requests : Posts(p, r) => call'[p].step = call[p].step
                                             /\ call'[p].version = call[p].version
      BY <1>3, <2>10 DEF Posts, Same
    <3>3. CASE r = n
      <4>1. ~Booked(RunKey(n)) /\ \A e \in entries : e.key # RunKey(n)
        BY <2>2, BookedIs, KeysApart DEF RunInv, Ledger
      <4>2. \A p \in Requests : ~Posts(p, n) BY <2>2 DEF RunInv, Shape, Posts
      <4>3. run'[r] = now BY <2>6, <3>3
      <4>. QED BY <2>1, <2>3, <2>7, <3>1, <3>3, <4>1, <4>2, <4>3 DEF Orderly, RunKey
    <3>4. CASE r # n
      <4>1. r \in CreatedRuns /\ r \notin stale /\ Orderly(r) /\ run'[r] = run[r]
        BY <2>7, <2>8, <2>9, <2>16, <3>4 DEF RunInv
      <4>. QED BY <2>1, <2>7, <3>1, <3>2, <4>1 DEF Orderly, RunKey
    <3>. QED BY <3>3, <3>4
  <2>17. ASSUME NEW d \in Requested \ (staleCorr \cup blocked) PROVE Granted(d)'
    <3>1. Granted(d) BY DEF RunInv
    <3>2. \A p \in Requests \ {q} : (Grants(p, d) => Grants(p, d)') /\ call'[p].step = call[p].step
      BY <2>10 DEF Same
    <3>3. Grants(q, d) => Grants(q, d)' /\ call'[q].step = "stamp"
      BY <1>2, <1>3, <2>5 DEF Grants, CallType
    <3>4. (\E r \in CreatedRuns' : run'[r].replaces = d) =>
             (\E r \in CreatedRuns : run[r].replaces = d) \/ Grants(q, d)
      <4>1. d # NoCorrection BY RunAssumption DEF Requested, Corrections, NoCorrection
      <4>. QED BY <1>3, <2>3, <2>6, <2>7, <2>8, <4>1 DEF Grants
    <3>5. Settled(d)' <=> Settled(d) BY <2>1 DEF Settled
    <3>6. Booked(CorrKey(d)) =>
             Settled(d) \/ \E p \in Requests : Grants(p, d)' /\ call'[p].step \in PastCorr
      BY <3>1, <3>2, <3>3 DEF Granted, PastCorr
    <3>7. (\E r \in CreatedRuns' : run'[r].replaces = d) =>
             Settled(d) \/ \E p \in Requests : Grants(p, d)' /\ call'[p].step = "stamp"
      BY <3>1, <3>2, <3>3, <3>4 DEF Granted
    <3>. QED BY <2>1, <2>7, <3>5, <3>6, <3>7 DEF Granted, CorrKey
  <2>18. TwinsNeedARace'
    <3>1. n \notin stale' => \A r \in CreatedRuns \ stale : run[r].type = now.type => run[r].status = "VOIDED"
      BY <1>1, <1>2, <2>3, <2>9 DEF Knows, LiveRuns
    <3>2. ASSUME NEW r \in CreatedRuns' \ stale', NEW s \in CreatedRuns' \ stale',
                 run'[r].type = run'[s].type, run'[r].status # "VOIDED", run'[s].status # "VOIDED"
          PROVE  r = s
      <4>1. CASE r # n /\ s # n
        BY <2>7, <2>8, <2>9, <3>2, <4>1 DEF RunInv, TwinsNeedARace
      <4>2. CASE r = n /\ s # n BY <2>6, <2>7, <2>8, <2>9, <3>1, <3>2, <4>2
      <4>3. CASE r # n /\ s = n BY <2>6, <2>7, <2>8, <2>9, <3>1, <3>2, <4>3
      <4>. QED BY <4>1, <4>2, <4>3
    <3>. QED BY <3>2 DEF TwinsNeedARace
  <2>. QED BY <2>1, <2>7, <2>11, <2>12, <2>13, <2>14, <2>15, <2>16, <2>17, <2>18 DEF RunInv
<1>. QED BY <1>4, <1>5

-----------------------------------------------------------------------------
(* Steps of the booking.                                                    *)

\* Inserting the entry under its unique key.
LEMMA InsertStep == ASSUME RunInv, NEW q \in Requests, BookInsert(q) PROVE RunInv'
<1>. DEFINE k == Key(q)
            e0 == [nr |-> Cardinality(EntriesOf(k)), key |-> k,
                   version |-> call[q].version, posted |-> FALSE]
            next == [call[q] EXCEPT !.step = "ledger"]
<1>1. call[q].step = "insert" BY DEF BookInsert, At
<1>2. /\ RunTypeOK /\ Shape(q) /\ Knows(q) /\ call[q] \in CallType
      /\ call[q].op \in {"post", "grant"}
      /\ call[q].op = "post" => call[q].run \in CreatedRuns /\ k = RunKey(call[q].run)
      /\ call[q].op = "grant" => call[q].corr \in Requested /\ k = CorrKey(call[q].corr)
  BY <1>1, Typed, BookingCalls DEF RunInv
<1>3. CASE KeyTaken(k)
  <2>1. Ends(q) BY <1>3 DEF BookInsert
  <2>. QED BY <1>1, <2>1, RefusedStep DEF At
<1>4. CASE ~KeyTaken(k)
  <2>1. entries' = entries \cup {e0} /\ Goes(q, "ledger")
    BY <1>4 DEF BookInsert, GoesToLedger
  <2>2. EntriesOf(k) = {} /\ Cardinality(EntriesOf(k)) = 0
    BY <1>4, FS_EmptySet DEF KeyTaken
  <2>3. k \in Keys BY <1>2 DEF Keys, RunKey, CorrKey, CreatedRuns, Requested
  <2>4. e0 \in EntryType BY <1>2, <2>2, <2>3 DEF EntryType, CallType
  <2>5. e0.key = k /\ e0.version = call[q].version /\ ~e0.posted OBVIOUS
  <2>. HIDE DEF e0
  <2>6. next \in CallType BY GoesType
  <2>7. UNCHANGED <<run, correction, stale, staleCorr, blocked, died, trouble>>
    BY <2>1 DEF Goes, runHistory
  <2>8. /\ call' \in [Requests -> CallType] /\ call'[q] = next
        /\ \A p \in Requests \ {q} : Same(p)
    BY <1>2, <2>1, <2>6, Proceeds DEF Goes
  <2>9. /\ call'[q].op = call[q].op /\ call'[q].step = "ledger" /\ call'[q].run = call[q].run
        /\ call'[q].corr = call[q].corr /\ call'[q].type = call[q].type
        /\ call'[q].version = call[q].version /\ call'[q].fresh = call[q].fresh
    BY <1>2, <2>8 DEF CallType
  <2>10. \A p \in Requests :
           /\ Key(p)' = Key(p)
           /\ \A s : Posts(p, s)' <=> Posts(p, s)
           /\ \A c : Grants(p, c)' <=> Grants(p, c)
           /\ At(p, "ledger") => At(p, "ledger")'
           /\ p # q => Same(p)
    <3>1. Key(q)' = Key(q) BY <2>9 DEF Key, RunKey, CorrKey
    <3>2. At(q, "ledger")' /\ \A s : (Posts(q, s)' <=> Posts(q, s)) /\ (Grants(q, s)' <=> Grants(q, s))
      BY <2>9 DEF At, Posts, Grants
    <3>. QED BY <2>8, <3>1, <3>2, SamePart
  <2>11. /\ CreatedRuns' = CreatedRuns /\ Requested' = Requested
         /\ \A t : LiveRuns(t)' = LiveRuns(t)
         /\ \A key : Booked(key)' <=> Booked(key) \/ key = k
    BY <2>1, <2>5, <2>7 DEF CreatedRuns, Requested, LiveRuns, Booked, EntriesOf
  <2>12. \A e \in entries : e.key # k BY <2>2 DEF EntriesOf
  <2>13. RunTypeOK' BY <1>2, <2>1, <2>4, <2>7, <2>8, Typed DEF RunTypeOK, EntryType, CallType
  <2>14. Numbered' BY <2>7, <2>11 DEF RunInv, Numbered
  <2>15. ASSUME NEW p \in Requests PROVE Shape(p)' /\ Knows(p)'
    <3>1. CASE p = q
      BY <1>1, <1>2, <2>7, <2>9, <2>11, <3>1 DEF Shape, Knows, WritesRun
    <3>2. CASE p # q
      <4>1. Shape(p) /\ Knows(p) /\ Same(p) BY <2>8, <3>2 DEF RunInv
      <4>2. Shape(p)' BY <2>7, <2>11, <4>1 DEF Shape, Same
      <4>3. Knows(p)' BY <2>7, <2>11, <4>1 DEF Knows, Same
      <4>. QED BY <4>2, <4>3
    <3>. QED BY <3>1, <3>2
  <2>16. Ledger'
    <3>1. (\E r \in CreatedRuns : k = RunKey(r)) \/ (\E c \in Requested : k = CorrKey(c)) BY <1>2
    <3>2. At(q, "ledger")' /\ Key(q)' = k BY <2>9, <2>10 DEF At
    <3>. QED BY <2>1, <2>5, <2>7, <2>10, <2>11, <2>12, <3>1, <3>2
          DEF RunInv, Ledger, RunKey, CorrKey
  <2>17. Bookings'
    <3>1. ASSUME NEW p \in Requests
          PROVE  /\ call'[p].op = "post" /\ call'[p].step \in PastRun \cup {"release"}
                       => Booked(RunKey(call'[p].run)) \/ RunKey(call'[p].run) = k
                 /\ call'[p].op = "grant" /\ call'[p].step \in PastCorr
                       => Booked(CorrKey(call'[p].corr)) \/ CorrKey(call'[p].corr) = k
      <4>1. CASE p = q BY <1>2, <2>9, <4>1
      <4>2. CASE p # q BY <2>10, <4>2 DEF RunInv, Bookings, Same
      <4>. QED BY <4>1, <4>2
    <3>2. ASSUME NEW c \in Corrections
          PROVE  /\ correction[c].status \in {"APPROVED", "APPLIED"} => Booked(CorrKey(c))
                 /\ correction[c].status = "APPLIED" /\ correction[c].kind = "DELTA"
                       => Booked(RunKey(correction[c].replacement))
      BY DEF RunInv, Bookings
    <3>. QED BY <2>7, <2>11, <3>1, <3>2 DEF Bookings, RunKey, CorrKey
  <2>18. ASSUME NEW r \in CreatedRuns \ stale PROVE Orderly(r)'
    <3>1. Orderly(r) BY DEF RunInv
    <3>2. RunKey(r) = k => Posts(q, r)
      BY <1>2, KeysApart DEF Posts
    <3>3. \A p \in Requests : Posts(p, r) => call'[p].version = call[p].version
      BY <2>9, <2>10 DEF Same
    <3>4. \A p \in Requests : Posts(p, r) /\ call[p].step \in PastRun => call'[p].step \in PastRun
      BY <2>9, <2>10 DEF Same, PastRun
    <3>5. RunKey(r) = k => Posts(q, r)' /\ call'[q].step \in PastRun
      BY <2>9, <2>10, <3>2 DEF PastRun
    <3>6. \A e \in entries' : e.key = RunKey(r) => e.version = run[r].version
      BY <2>1, <2>5, <3>1, <3>2 DEF Orderly
    <3>. QED BY <2>7, <2>10, <2>11, <3>1, <3>2, <3>3, <3>4, <3>5, <3>6 DEF Orderly, RunKey
  <2>19. ASSUME NEW c \in Requested \ (staleCorr \cup blocked) PROVE Granted(c)'
    <3>1. Granted(c) BY DEF RunInv
    <3>2. CorrKey(c) = k => Grants(q, c) BY <1>2, KeysApart DEF Grants
    <3>3. \A p \in Requests : Grants(p, c) /\ call[p].step \in PastCorr => call'[p].step \in PastCorr
      BY <2>9, <2>10 DEF Same, PastCorr
    <3>4. \A p \in Requests : Grants(p, c) /\ call[p].step = "stamp" => call'[p].step = "stamp"
      BY <1>1, <2>9, <2>10 DEF Same
    <3>5. CorrKey(c) = k => Grants(q, c)' /\ call'[q].step \in PastCorr
      BY <2>9, <2>10, <3>2 DEF PastCorr
    <3>. QED BY <2>7, <2>10, <2>11, <3>1, <3>3, <3>4, <3>5 DEF Granted, Settled, CorrKey
  <2>20. TwinsNeedARace' BY <2>7, <2>11 DEF RunInv, TwinsNeedARace
  <2>. QED BY <2>7, <2>11, <2>13, <2>14, <2>15, <2>16, <2>17, <2>18, <2>19, <2>20 DEF RunInv
<1>. QED BY <1>3, <1>4

\* Going on with the rows as they are, or with more of them in the ledger.
LEMMA PostStep == ASSUME RunInv, NEW q \in Requests, BookPost(q) PROVE RunInv'
<1>. DEFINE to == AfterBooking(q)
            next == [call[q] EXCEPT !.step = to]
            post(e) == IF e.key = Key(q) THEN [e EXCEPT !.posted = TRUE] ELSE e
<1>1. call[q].step = "ledger" /\ Goes(q, to) /\ entries' = {post(e) : e \in entries}
  BY DEF BookPost, At
<1>2. /\ RunTypeOK /\ Shape(q) /\ Knows(q) /\ call[q] \in CallType /\ entries \subseteq EntryType
      /\ call[q].op \in {"post", "grant"}
      /\ call[q].op = "post" => call[q].run \in CreatedRuns /\ Key(q) = RunKey(call[q].run)
      /\ call[q].op = "grant" => call[q].corr \in Requested /\ Key(q) = CorrKey(call[q].corr)
  BY <1>1, Typed, BookingCalls DEF RunInv
<1>3. /\ to \in {"number", "stamp", "replace"}
      /\ call[q].op = "post" => to = "number"
      /\ call[q].op = "grant" => /\ to \in {"stamp", "replace"}
                                 /\ to = "stamp" => correction[call[q].corr].kind = "REVERSAL"
  BY <1>2, AfterBookingType DEF AfterBooking
<1>4. next \in CallType BY <1>3, GoesType
<1>5. \A e \in entries :
         /\ post(e) \in EntryType /\ post(e).key = e.key /\ post(e).version = e.version
         /\ e.posted => post(e).posted
         /\ e.key = Key(q) => post(e).posted
  BY <1>2 DEF EntryType
<1>. HIDE DEF to, post
<1>6. UNCHANGED <<run, correction, stale, staleCorr, blocked, died, trouble>>
  BY <1>1 DEF Goes, runHistory
<1>7. /\ call' \in [Requests -> CallType] /\ call'[q] = next
      /\ \A p \in Requests \ {q} : Same(p)
  BY <1>1, <1>2, <1>4, Proceeds DEF Goes
<1>8. /\ call'[q].op = call[q].op /\ call'[q].step = to /\ call'[q].run = call[q].run
      /\ call'[q].corr = call[q].corr /\ call'[q].type = call[q].type
      /\ call'[q].version = call[q].version /\ call'[q].fresh = call[q].fresh
  BY <1>2, <1>7 DEF CallType
<1>9. \A p \in Requests :
         /\ \A s : Posts(p, s)' <=> Posts(p, s)
         /\ \A c : Grants(p, c)' <=> Grants(p, c)
         /\ p # q => Same(p) /\ Key(p)' = Key(p) /\ (At(p, "ledger")' <=> At(p, "ledger"))
  <2>1. \A s : (Posts(q, s)' <=> Posts(q, s)) /\ (Grants(q, s)' <=> Grants(q, s))
    BY <1>8 DEF Posts, Grants
  <2>. QED BY <1>7, <2>1, SamePart
<1>10. /\ CreatedRuns' = CreatedRuns /\ Requested' = Requested
       /\ \A t : LiveRuns(t)' = LiveRuns(t)
  BY <1>6 DEF CreatedRuns, Requested, LiveRuns
<1>11. \A k : Booked(k)' <=> Booked(k)
  <2>1. \A k : Booked(k)' <=> \E e \in entries' : e.key = k BY DEF Booked, EntriesOf
  <2>. QED BY <1>1, <1>5, <2>1, BookedIs
<1>12. RunTypeOK'
  <2>1. entries' \subseteq EntryType BY <1>1, <1>5
  <2>. QED BY <1>2, <1>6, <1>7, <2>1, Typed DEF RunTypeOK, EntryType, CallType
<1>13. Numbered' BY <1>6, <1>10 DEF RunInv, Numbered
<1>14. ASSUME NEW p \in Requests PROVE Shape(p)' /\ Knows(p)'
  <2>1. CASE p = q
    BY <1>1, <1>2, <1>3, <1>6, <1>8, <1>10, <2>1 DEF Shape, Knows, WritesRun
  <2>2. CASE p # q
    <3>1. Shape(p) /\ Knows(p) /\ Same(p) BY <1>7, <2>2 DEF RunInv
    <3>2. Shape(p)' BY <1>6, <1>10, <3>1 DEF Shape, Same
    <3>3. Knows(p)' BY <1>6, <1>10, <3>1 DEF Knows, Same
    <3>. QED BY <3>2, <3>3
  <2>. QED BY <2>1, <2>2
<1>15. Ledger'
  <2>1. \A e \in entries' : (\E r \in CreatedRuns : e.key = RunKey(r)) \/ \E c \in Requested : e.key = CorrKey(c)
    BY <1>1, <1>5 DEF RunInv, Ledger
  <2>2. \A e, f \in entries' : e.key = f.key => e = f BY <1>1, <1>5 DEF RunInv, Ledger
  <2>3. ASSUME NEW e \in entries
        PROVE  post(e).posted \/ died \/ \E p \in Requests : At(p, "ledger")' /\ Key(p)' = e.key
    BY <1>5, <1>9 DEF RunInv, Ledger
  <2>. QED BY <1>1, <1>5, <1>6, <1>10, <2>1, <2>2, <2>3 DEF Ledger, RunKey, CorrKey
<1>16. Bookings'
  <2>1. ASSUME NEW p \in Requests
        PROVE  /\ call'[p].op = "post" /\ call'[p].step \in PastRun \cup {"release"}
                     => Booked(RunKey(call'[p].run))
               /\ call'[p].op = "grant" /\ call'[p].step \in PastCorr
                     => Booked(CorrKey(call'[p].corr))
    <3>1. CASE p = q BY <1>1, <1>2, <1>8, <3>1 DEF RunInv, Bookings, PastRun, PastCorr
    <3>2. CASE p # q BY <1>9, <3>2 DEF RunInv, Bookings, Same
    <3>. QED BY <3>1, <3>2
  <2>. QED BY <1>6, <1>11, <2>1 DEF RunInv, Bookings, RunKey, CorrKey
<1>17. ASSUME NEW r \in CreatedRuns \ stale PROVE Orderly(r)'
  <2>1. Orderly(r) BY DEF RunInv
  <2>2. \A p \in Requests : Posts(p, r) =>
           /\ call'[p].version = call[p].version
           /\ call[p].step \in PastRun => call'[p].step \in PastRun
    BY <1>3, <1>8, <1>9 DEF Same, PastRun, Posts
  <2>3. \A e \in entries' : e.key = RunKey(r) => e.version = run[r].version
    BY <1>1, <1>5, <2>1 DEF Orderly
  <2>. QED BY <1>6, <1>9, <1>11, <2>1, <2>2, <2>3 DEF Orderly, RunKey
<1>18. ASSUME NEW c \in Requested \ (staleCorr \cup blocked) PROVE Granted(c)'
  <2>1. Granted(c) BY DEF RunInv
  <2>2. \A p \in Requests : Grants(p, c) =>
           /\ call[p].step \in PastCorr => call'[p].step \in PastCorr
           /\ call[p].step = "stamp" => call'[p].step = "stamp"
    BY <1>1, <1>3, <1>8, <1>9 DEF Same, PastCorr, Grants
  <2>. QED BY <1>6, <1>9, <1>11, <1>10, <2>1, <2>2 DEF Granted, Settled, CorrKey
<1>19. TwinsNeedARace' BY <1>6, <1>10 DEF RunInv, TwinsNeedARace
<1>. QED BY <1>6, <1>10, <1>12, <1>13, <1>14, <1>15, <1>16, <1>17, <1>18, <1>19 DEF RunInv

\* The payslips get their numbers, or are no longer those that were booked.
LEMMA NumbersStep == ASSUME RunInv, NEW q \in Requests, PostNumbers(q) PROVE RunInv'
<1>. DEFINE r == call[q].run
            next == [call[q] EXCEPT !.step = "stamp"]
            now == [run[r] EXCEPT !.numbered = TRUE]
<1>1. call[q].op = "post" /\ call[q].step = "number" BY DEF PostNumbers, Doing, At
<1>2. /\ RunTypeOK /\ Shape(q) /\ Knows(q) /\ call[q] \in CallType /\ run \in [Runs -> RunType]
      /\ r \in CreatedRuns /\ r \in Runs /\ Booked(RunKey(r)) /\ Posts(q, r)
  BY <1>1, Typed, BookingCalls DEF RunInv, CreatedRuns, Bookings, PastRun, Posts
<1>3. CASE run[r].version # call[q].version
  <2>1. Ends(q) BY <1>3 DEF PostNumbers
  <2>2. r \in stale BY <1>2, <1>3 DEF RunInv, Orderly
  <2>3. Keeps(q) BY <1>1, <2>2 DEF Keeps, At, Posts, Grants
  <2>4. trouble \in 0..MaxTrouble /\ died \in BOOLEAN /\ blocked \subseteq Corrections
    BY <1>2 DEF RunTypeOK
  <2>. QED BY <2>1, <2>3, <2>4, Endings DEF Ends, runHistory
<1>4. CASE run[r].version = call[q].version
  <2>1. /\ run' = [run EXCEPT ![r] = now] /\ Proceed(q, next, {})
        /\ UNCHANGED <<correction, entries, stale, staleCorr, blocked, died, trouble>>
    BY <1>2, <1>4 DEF PostNumbers, runHistory
  <2>2. /\ now \in RunType /\ now.status = run[r].status /\ now.type = run[r].type
        /\ now.replaces = run[r].replaces /\ now.version = run[r].version
    <3>1. run[r] \in RunType BY <1>2
    <3>. QED BY <3>1 DEF RunType
  <2>. HIDE DEF now
  <2>3. /\ run' \in [Runs -> RunType]
        /\ \A s \in Runs : /\ run'[s].status = run[s].status /\ run'[s].type = run[s].type
                           /\ run'[s].replaces = run[s].replaces
                           /\ run'[s].version = run[s].version
                           /\ s # r => run'[s] = run[s]
    BY <1>2, <2>1, <2>2
  <2>4. next \in CallType BY GoesType
  <2>5. /\ call' \in [Requests -> CallType] /\ call'[q] = next
        /\ \A p \in Requests \ {q} : Same(p)
    BY <1>2, <2>1, <2>4, Proceeds
  <2>6. /\ call'[q].op = call[q].op /\ call'[q].step = "stamp" /\ call'[q].run = r
        /\ call'[q].corr = call[q].corr /\ call'[q].type = call[q].type
        /\ call'[q].version = call[q].version /\ call'[q].fresh = call[q].fresh
    BY <1>2, <2>5 DEF CallType
  <2>7. \A p \in Requests :
           /\ \A s : Posts(p, s)' <=> Posts(p, s)
           /\ \A c : Grants(p, c)' <=> Grants(p, c)
           /\ p # q => Same(p) /\ Key(p)' = Key(p) /\ (At(p, "ledger")' <=> At(p, "ledger"))
    <3>1. \A s : (Posts(q, s)' <=> Posts(q, s)) /\ (Grants(q, s)' <=> Grants(q, s))
      BY <2>6 DEF Posts, Grants
    <3>. QED BY <2>5, <3>1, SamePart
  <2>8. /\ CreatedRuns' = CreatedRuns /\ Requested' = Requested
        /\ \A t : LiveRuns(t)' = LiveRuns(t)
        /\ \A k : Booked(k)' <=> Booked(k)
    <3>1. CreatedRuns' = CreatedRuns BY <2>3 DEF CreatedRuns
    <3>. QED BY <2>1, <2>3, <3>1 DEF CreatedRuns, Requested, LiveRuns, Booked, EntriesOf
  <2>9. RunTypeOK' BY <1>2, <2>1, <2>3, <2>5, Typed DEF RunTypeOK, RunType, CallType
  <2>10. Numbered'
    <3>1. \A s \in CreatedRuns : run'[s].replaces = run[s].replaces BY <2>3 DEF CreatedRuns
    <3>. QED BY <2>8, <3>1 DEF RunInv, Numbered
  <2>11. ASSUME NEW p \in Requests PROVE Shape(p)' /\ Knows(p)'
    <3>1. Shape(p) /\ Knows(p) BY DEF RunInv
    <3>2. call[p].run # NoRun => call[p].run \in Runs BY <3>1 DEF Shape, CreatedRuns
    <3>3. CASE p = q
      BY <1>1, <1>2, <2>1, <2>3, <2>6, <2>8, <3>3 DEF Shape, Knows, WritesRun
    <3>4. CASE p # q
      <4>1. Same(p) BY <2>5, <3>4
      <4>2. Shape(p)' BY <2>1, <2>8, <3>1, <4>1 DEF Shape, Same
      <4>3. Knows(p)'
        <5>1. call[p].op \in WritesRun \cup {"post"} => call[p].run # NoRun BY <3>1 DEF Shape
        <5>2. call[p].op \in WritesRun \cup {"post"} => run'[call[p].run].status = run[call[p].run].status
          BY <2>3, <3>2, <5>1
        <5>. QED BY <2>1, <2>8, <3>1, <4>1, <5>2 DEF Knows, Same, WritesRun
      <4>. QED BY <4>2, <4>3
    <3>. QED BY <3>3, <3>4
  <2>12. Ledger'
    <3>1. ASSUME NEW e \in entries, ~e.posted, ~died
          PROVE  \E p \in Requests : At(p, "ledger")' /\ Key(p)' = e.key
      <4>1. PICK p \in Requests : At(p, "ledger") /\ Key(p) = e.key BY <3>1 DEF RunInv, Ledger
      <4>2. p # q BY <1>1, <4>1 DEF At
      <4>. QED BY <2>7, <4>1, <4>2
    <3>. QED BY <2>1, <2>8, <3>1 DEF RunInv, Ledger, RunKey, CorrKey
  <2>13. Bookings'
    <3>1. ASSUME NEW p \in Requests
          PROVE  /\ call'[p].op = "post" /\ call'[p].step \in PastRun \cup {"release"}
                       => Booked(RunKey(call'[p].run))
                 /\ call'[p].op = "grant" /\ call'[p].step \in PastCorr
                       => Booked(CorrKey(call'[p].corr))
      <4>1. CASE p = q BY <1>1, <1>2, <2>6, <4>1
      <4>2. CASE p # q BY <2>5, <4>2 DEF RunInv, Bookings, Same
      <4>. QED BY <4>1, <4>2
    <3>. QED BY <2>1, <2>8, <3>1 DEF RunInv, Bookings, RunKey, CorrKey
  <2>14. ASSUME NEW s \in CreatedRuns \ stale PROVE Orderly(s)'
    <3>1. Orderly(s) /\ s \in Runs BY DEF RunInv, CreatedRuns
    <3>2. \A p \in Requests :
             /\ call'[p].version = call[p].version
             /\ call[p].step \in PastRun => call'[p].step \in PastRun
      BY <2>6, <2>7 DEF Same, PastRun
    <3>3. run'[s].numbered => Booked(RunKey(s)) BY <1>2, <2>3, <3>1 DEF Orderly
    <3>. QED BY <2>1, <2>3, <2>7, <2>8, <3>1, <3>2, <3>3 DEF Orderly, RunKey
  <2>15. ASSUME NEW c \in Requested \ (staleCorr \cup blocked) PROVE Granted(c)'
    <3>1. Granted(c) BY DEF RunInv
    <3>2. \A p \in Requests : Grants(p, c) => call'[p].step = call[p].step
      BY <1>1, <2>7 DEF Same, Grants
    <3>3. \A s \in CreatedRuns : run'[s].replaces = run[s].replaces BY <2>3 DEF CreatedRuns
    <3>. QED BY <2>1, <2>7, <2>8, <3>1, <3>2, <3>3 DEF Granted, Settled, CorrKey
  <2>16. TwinsNeedARace'
    <3>1. \A s \in CreatedRuns : run'[s].type = run[s].type /\ run'[s].status = run[s].status
      BY <2>3 DEF CreatedRuns
    <3>. QED BY <2>1, <2>8, <3>1 DEF RunInv, TwinsNeedARace
  <2>. QED BY <2>1, <2>8, <2>9, <2>10, <2>11, <2>12, <2>13, <2>14, <2>15, <2>16 DEF RunInv
<1>. QED BY <1>3, <1>4

-----------------------------------------------------------------------------
(* The invariant.                                                           *)

\* Every step of every request preserves the invariant.
LEMMA NextInv == RunInv /\ [RunNext]_runVars => RunInv'
<1>. SUFFICES ASSUME RunInv, [RunNext]_runVars PROVE RunInv' OBVIOUS
<1>1. CASE UNCHANGED runVars
  <2>1. UNCHANGED <<run, correction, entries, call, stale, staleCorr, blocked, died, trouble>>
    BY <1>1 DEF runVars, runHistory
  <2>2. RunTypeOK' BY <2>1 DEF RunInv, RunTypeOK
  <2>3. /\ CreatedRuns' = CreatedRuns /\ Requested' = Requested
        /\ \A t : LiveRuns(t)' = LiveRuns(t)
        /\ \A k : Booked(k)' <=> Booked(k)
    BY <2>1 DEF CreatedRuns, Requested, LiveRuns, Booked, EntriesOf
  <2>4. ASSUME NEW p \in Requests PROVE Shape(p)' /\ Knows(p)'
    <3>1. Shape(p) /\ Knows(p) BY DEF RunInv
    <3>2. Shape(p)' BY <2>1, <2>3, <3>1 DEF Shape
    <3>3. Knows(p)' BY <2>1, <2>3, <3>1 DEF Knows
    <3>. QED BY <3>2, <3>3
  <2>5. Ledger' BY <2>1, <2>3 DEF RunInv, Ledger, At, Key, RunKey, CorrKey
  <2>6. Bookings' /\ Numbered' /\ TwinsNeedARace'
    BY <2>1, <2>3 DEF RunInv, Bookings, Numbered, TwinsNeedARace, RunKey, CorrKey
  <2>7. ASSUME NEW r \in CreatedRuns \ stale PROVE Orderly(r)'
    <3>1. Orderly(r) BY DEF RunInv
    <3>. QED BY <2>1, <2>3, <3>1 DEF Orderly, Posts, RunKey
  <2>8. ASSUME NEW c \in Requested \ (staleCorr \cup blocked) PROVE Granted(c)'
    <3>1. Granted(c) BY DEF RunInv
    <3>. QED BY <2>1, <2>3, <3>1 DEF Granted, Settled, Grants, CorrKey
  <2>. QED BY <2>1, <2>2, <2>3, <2>4, <2>5, <2>6, <2>7, <2>8 DEF RunInv
<1>2. ASSUME NEW q \in Requests, StepOf(q) PROVE RunInv'
  <2>1. CASE PrepareRefused(q)
    <3>1. call[q].op = "prepare" /\ call[q].step = "write" /\ Ends(q)
      BY <2>1 DEF PrepareRefused, Doing, At
    <3>. QED BY <3>1, RefusedStep DEF At
  <2>. QED BY <1>2, <2>1, StartsStep, RunRowStep, CorrectionRowStep, OpensStep, LookupStep,
          InsertStep, PostStep, NumbersStep, ReleasesStep, RequestStep, ReplacesStep, DiesStep
       DEF StepOf
<1>. QED BY <1>1, <1>2, StepsAreRequests

\* Whatever the requests do and in whatever order, what the fresh ones have read
\* is so, the journal has one entry per key, and what was booked is on its way.
THEOREM RunInductive == RunSpec => []RunInv
<1>. QED BY InitInv, NextInv, PTL DEF RunSpec

\* The rows and the requests keep their types.
THEOREM RunTypeCorrect == RunSpec => []RunTypeOK
<1>1. RunInv => RunTypeOK BY DEF RunInv
<1>. QED BY <1>1, RunInductive, PTL

\* However often a post or an approval is repeated or dies, its amount is booked
\* once, and only a death leaves a posted run's entry outside the ledger.
THEOREM BookedOnceHolds == RunSpec => []BookedOnce
<1>1. ASSUME RunInv PROVE BookedOnce
  <2>1. ASSUME NEW key \in Keys PROVE Cardinality(EntriesOf(key)) <= 1
    <3>1. \A e, f \in EntriesOf(key) : e = f BY <1>1 DEF RunInv, Ledger, EntriesOf
    <3>2. CASE EntriesOf(key) = {} BY <3>2, FS_EmptySet
    <3>3. CASE EntriesOf(key) # {}
      <4>1. PICK e : EntriesOf(key) = {e} BY <3>1, <3>3
      <4>2. Cardinality({e}) = 1 BY FS_Singleton
      <4>. QED BY <4>1, <4>2
    <3>. QED BY <3>2, <3>3
  <2>2. \A r \in CreatedRuns : \A e \in EntriesOf(RunKey(r)) :
           ~e.posted => died \/ \E q \in Requests : At(q, "ledger") /\ Key(q) = e.key
    BY <1>1 DEF RunInv, Ledger, EntriesOf
  <2>. QED BY <2>1, <2>2 DEF BookedOnce
<1>. QED BY <1>1, RunInductive, PTL

\* Unless an update from an out-of-date read hit the run, the payslips that have
\* their numbers are the ones the journal booked; an applied correction is in the
\* journal, with the wages of the run that replaces it.
THEOREM PaidIsBooked == RunSpec => []WhatIsPaidIsBooked
<1>1. ASSUME RunInv PROVE WhatIsPaidIsBooked
  <2>1. ASSUME NEW r \in CreatedRuns \ stale, run[r].numbered
        PROVE  \E e \in EntriesOf(RunKey(r)) : e.version = run[r].version
    <3>1. Orderly(r) BY <1>1 DEF RunInv
    <3>2. PICK e \in EntriesOf(RunKey(r)) : TRUE BY <2>1, <3>1 DEF Orderly, Booked
    <3>. QED BY <3>1, <3>2 DEF Orderly, EntriesOf
  <2>2. \A c \in Requested : c \in Corrections BY DEF Requested
  <2>. QED BY <1>1, <2>1, <2>2 DEF WhatIsPaidIsBooked, RunInv, Bookings
<1>. QED BY <1>1, RunInductive, PTL

\* A voided run is in the journal only by a post that was under way or a death, a
\* rejected correction only by an approval under way, a death, or a replacement
\* that was refused; stale updates aside.
THEOREM UndoneHolds == RunSpec => []UndoneBooksOnlyThroughHoles
<1>1. ASSUME RunInv PROVE UndoneBooksOnlyThroughHoles
  <2>1. ASSUME NEW r \in CreatedRuns \ stale, run[r].status = "VOIDED", Booked(RunKey(r)), ~died
        PROVE  Working(RunKey(r))
    <3>1. Orderly(r) BY <1>1 DEF RunInv
    <3>2. PICK q \in Requests : Posts(q, r) BY <2>1, <3>1 DEF Orderly
    <3>. QED BY <3>2 DEF Working, Posts, Key
  <2>2. ASSUME NEW c \in Requested \ (staleCorr \cup blocked), correction[c].status = "REJECTED",
               Booked(CorrKey(c)), ~died
        PROVE  Working(CorrKey(c))
    <3>1. Granted(c) BY <1>1 DEF RunInv
    <3>2. PICK q \in Requests : Grants(q, c) BY <2>2, <3>1 DEF Granted, Settled
    <3>. QED BY <3>2 DEF Working, Grants, Key
  <2>. QED BY <2>1, <2>2 DEF UndoneBooksOnlyThroughHoles
<1>. QED BY <1>1, RunInductive, PTL

\* Two live runs of one type in the period take two requests that overlapped.
THEOREM TwinsHold == RunSpec => []TwinsNeedARace
<1>1. RunInv => TwinsNeedARace BY DEF RunInv
<1>. QED BY <1>1, RunInductive, PTL

=============================================================================
