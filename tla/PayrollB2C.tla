----------------------------- MODULE PayrollB2C -----------------------------
(***************************************************************************)
(* M-Pesa B2C disbursement of one posted payroll run:                      *)
(*   lib/mpesa-b2c.ts                      initiatePayrollB2C, status query *)
(*   lib/hr/payroll/disbursement-service.ts disburse, retry, refresh,       *)
(*                                         result webhook settlement       *)
(*   lib/hr/payroll/b2c-recovery.ts        the cron sweep                  *)
(*   lib/hr/payroll/run-service.ts         disbursePayrollRun (manual)     *)
(*                                                                         *)
(* Several request handlers and cron ticks work on the same rows at once;  *)
(* every database call and every call to Daraja is a step of its own.      *)
(* Safaricom accepts a request, later pays or refuses it, and posts a      *)
(* result that may be lost, duplicated, or arrive before the initiating    *)
(* handler has read its own HTTP response.                                 *)
(***************************************************************************)
EXTENDS Naturals, FiniteSets, Sequences

CONSTANTS
    Payslips,     \* the payrollDetail ids of the run, every netPay > 0
    Foreign,      \* payrollDetail ids of another run, one not yet posted
    Phoneless,    \* payslips whose employee has no phone number
    Handlers,     \* concurrent request handlers and cron ticks
    Rows,         \* ids of the mpesaTransaction rows that may be created
    Modes,        \* the configurations to start in: "daraja", "mock"
    MaxAttempts,  \* B2C_MAX_RETRY_ATTEMPTS
    MaxCrashes,   \* bound: handler and webhook crashes
    MaxLosses,    \* bound: lost responses, results and status queries
    NoOne         \* no payslip / no row

Manual == "MANUAL"  \* the paymentRef the manual disbursement writes
AllSlips == Payslips \cup Foreign

ASSUME ConstAssumption ==
    /\ IsFiniteSet(Rows)
    /\ Payslips \cap Foreign = {}
    /\ Phoneless \subseteq AllSlips
    /\ Modes \subseteq {"daraja", "mock"}
    /\ MaxAttempts \in Nat \ {0}
    /\ MaxCrashes \in Nat
    /\ MaxLosses \in Nat
    /\ NoOne \notin AllSlips \cup Rows
    /\ Manual \notin Rows \cup {NoOne}

VARIABLES
    mode,           \* isB2CConfigured(): "daraja" or "mock"
    paidAt,         \* payrollRun.paidAt is stamped
    paymentStatus,  \* payrollDetail.paymentStatus
    paymentRef,     \* payrollDetail.paymentRef: a row's receipt, or Manual
    status,         \* mpesaTransaction.status, "NONE" before the create
    payslip,        \* mpesaTransaction.payrollDetailId
    callback,       \* mpesaTransaction.callbackReceived
    created,        \* the rows in createdAt order
    aged,           \* rows older than B2C_STALE_PROCESSING_MS
    provider,       \* Safaricom's view of a row's conversation
    results,        \* rows whose result webhook is posted and not lost
    marking,        \* webhooks that claimed their row, payslip not yet updated
    stamping,       \* manual disbursement: payslips marked, paidAt not yet
    pc,             \* what each handler does next
    gated,          \* the loop runs under the retry gate (retries, sweeps)
    target,         \* the detailIds a retry was called with ({}: run-wide)
    attempts,       \* a retry's snapshot of FAILED rows per payslip
    todo,           \* payslips a handler's loop has still to visit
    stuck,          \* rows a refresh has still to query
    slip, row,      \* the payslip and the row of the current initiation
    refreshNext,    \* a sweep goes on to refresh stuck rows
    initiated,      \* summary.initiated > 0, and
    failed,         \* summary.failed.length > 0; both are kept in mock mode
                    \*   only: elsewhere they decide nothing
    raced,          \* history: rows created while another handler had already
                    \*   passed the idempotency check for the same payslip
    unacked,        \* history: rows Safaricom accepted and we recorded FAILED
    crashes, losses \* how often a fault happened, bounded

slipVars    == <<paidAt, paymentStatus, paymentRef>>
rowVars     == <<status, payslip, callback, created, aged>>
netVars     == <<provider, results>>
tally       == <<initiated, failed>>
handlerVars == <<pc, gated, target, attempts, todo, stuck, slip, row,
                 refreshNext, tally>>
history     == <<raced, unacked>>
faults      == <<crashes, losses>>
vars == <<mode, slipVars, rowVars, netVars, marking, stamping, handlerVars,
          history, faults>>

-----------------------------------------------------------------------------
ActiveStatuses == {"PENDING", "PROCESSING", "COMPLETED"}
Created == {r \in Rows : status[r] # "NONE"}
RowsOf(p) == {r \in Created : payslip[r] = p}
Active(p) == \E r \in RowsOf(p) : status[r] \in ActiveStatuses

-----------------------------------------------------------------------------
(* Mutated forms of the definitions below, one plausible bug each; the      *)
(* specification uses none of them.                                        *)

\* the idempotency check forgets rows still PENDING
ChecksSentRowsOnly(p) ==
    \E r \in RowsOf(p) : status[r] \in {"PROCESSING", "COMPLETED"}
\* the initiation's catch block records the status of the other M-Pesa flow
MarksCancelled(h) == status' = [status EXCEPT ![row[h]] = "CANCELLED"]
\* every result is read as a success
EveryResultSucceeds(r) == TRUE
\* only a row already PROCESSING settles its payslip
SettlesProcessingOnly(r) == status[r] = "PROCESSING"
\* the refresh looks for rows whose callback did arrive
AnsweredRows ==
    {r \in aged : /\ payslip[r] \in Payslips
                  /\ status[r] = "PROCESSING" /\ callback[r]}

-----------------------------------------------------------------------------
FailedCount(p) == Cardinality({r \in RowsOf(p) : status[r] = "FAILED"})

\* The newest row of p, NoOne when there is none (orderBy createdAt).
Latest(p) ==
    LET of_p == SelectSeq(created, LAMBDA r : payslip[r] = p)
    IN  IF of_p = <<>> THEN NoOne ELSE of_p[Len(of_p)]
LatestStatus(p) == IF Latest(p) = NoOne THEN "NONE" ELSE status[Latest(p)]

Unpaid == {p \in Payslips : paymentStatus[p] = "PENDING"}
Busy(h) == pc[h] \in {"send", "record", "fail"}

Pcs == {"idle", "snapshot", "details", "loop", "create", "send", "record",
        "fail", "settle", "stuck", "query"}

TypeOK ==
    /\ mode \in {"daraja", "mock"}
    /\ paidAt \in BOOLEAN
    /\ paymentStatus \in [AllSlips -> {"PENDING", "PAID"}]
    /\ paymentRef \in [AllSlips -> Rows \cup {Manual, NoOne}]
    /\ status \in [Rows -> ActiveStatuses \cup {"NONE", "FAILED"}]
    /\ payslip \in [Rows -> AllSlips \cup {NoOne}]
    /\ callback \in [Rows -> BOOLEAN]
    /\ created \in Seq(Rows)
    /\ aged \in SUBSET Rows
    /\ provider \in [Rows -> {"none", "accepted", "paid", "failed"}]
    /\ results \in SUBSET Rows
    /\ marking \in SUBSET Rows
    /\ stamping \in BOOLEAN
    /\ pc \in [Handlers -> Pcs]
    /\ gated \in [Handlers -> BOOLEAN]
    /\ target \in [Handlers -> SUBSET AllSlips]
    /\ attempts \in [Handlers -> [AllSlips -> Nat]]
    /\ todo \in [Handlers -> SUBSET AllSlips]
    /\ stuck \in [Handlers -> SUBSET Rows]
    /\ slip \in [Handlers -> AllSlips \cup {NoOne}]
    /\ row \in [Handlers -> Rows \cup {NoOne}]
    /\ refreshNext \in [Handlers -> BOOLEAN]
    /\ initiated \in [Handlers -> BOOLEAN]
    /\ failed \in [Handlers -> BOOLEAN]
    /\ raced \in SUBSET Rows
    /\ unacked \in SUBSET Rows
    /\ crashes \in 0..MaxCrashes
    /\ losses \in 0..MaxLosses

NoAttempts == [p \in AllSlips |-> 0]

Init ==
    /\ mode \in Modes
    /\ paidAt = FALSE
    /\ paymentStatus = [p \in AllSlips |-> "PENDING"]
    /\ paymentRef = [p \in AllSlips |-> NoOne]
    /\ status = [r \in Rows |-> "NONE"]
    /\ payslip = [r \in Rows |-> NoOne]
    /\ callback = [r \in Rows |-> FALSE]
    /\ created = <<>>
    /\ aged = {} /\ results = {} /\ marking = {}
    /\ provider = [r \in Rows |-> "none"]
    /\ stamping = FALSE
    /\ pc = [h \in Handlers |-> "idle"]
    /\ gated = [h \in Handlers |-> FALSE]
    /\ target = [h \in Handlers |-> {}]
    /\ attempts = [h \in Handlers |-> NoAttempts]
    /\ todo = [h \in Handlers |-> {}]
    /\ stuck = [h \in Handlers |-> {}]
    /\ slip = [h \in Handlers |-> NoOne]
    /\ row = [h \in Handlers |-> NoOne]
    /\ refreshNext = [h \in Handlers |-> FALSE]
    /\ initiated = [h \in Handlers |-> FALSE]
    /\ failed = [h \in Handlers |-> FALSE]
    /\ raced = {} /\ unacked = {}
    /\ crashes = 0 /\ losses = 0

Goto(h, l) == pc' = [pc EXCEPT ![h] = l]

\* The initiation of one payslip is over, the loop goes on to the next.
NextPayslip(h) ==
    /\ Goto(h, "loop")
    /\ slip' = [slip EXCEPT ![h] = NoOne]
    /\ row' = [row EXCEPT ![h] = NoOne]

\* A service that is done forgets its locals.
Leave(h, l) ==
    /\ Goto(h, l)
    /\ gated' = [gated EXCEPT ![h] = FALSE]
    /\ target' = [target EXCEPT ![h] = {}]
    /\ attempts' = [attempts EXCEPT ![h] = NoAttempts]
    /\ todo' = [todo EXCEPT ![h] = {}]
    /\ stuck' = [stuck EXCEPT ![h] = {}]
    /\ slip' = [slip EXCEPT ![h] = NoOne]
    /\ row' = [row EXCEPT ![h] = NoOne]
    /\ refreshNext' = [refreshNext EXCEPT ![h] = FALSE]
    /\ initiated' = [initiated EXCEPT ![h] = FALSE]
    /\ failed' = [failed EXCEPT ![h] = FALSE]

Return(h) == Leave(h, "idle")

-----------------------------------------------------------------------------
(* Starting a service.                                                      *)

\* disburseRunViaMpesa: snapshot of every PENDING payslip of the run.
StartDisburse(h) ==
    /\ pc[h] = "idle"
    /\ Goto(h, "loop")
    /\ todo' = [todo EXCEPT ![h] = Unpaid]
    /\ UNCHANGED <<mode, slipVars, rowVars, netVars, marking, stamping, gated,
                   target, attempts, stuck, slip, row, refreshNext, tally,
                   history, faults>>

\* retryFailedPayrollB2C, from the run dialog: the request body may name
\* detailIds, which the route never compares with the run's payslips.
StartRetry(h) ==
    /\ pc[h] = "idle"
    /\ \E ids \in SUBSET AllSlips : target' = [target EXCEPT ![h] = ids]
    /\ gated' = [gated EXCEPT ![h] = TRUE]
    /\ Goto(h, "snapshot")
    /\ UNCHANGED <<mode, slipVars, rowVars, netVars, marking, stamping,
                   attempts, todo, stuck, slip, row, refreshNext, tally,
                   history, faults>>

\* refreshStuckPayrollB2C, from the run dialog.
StartRefresh(h) ==
    /\ pc[h] = "idle"
    /\ Goto(h, "stuck")
    /\ UNCHANGED <<mode, slipVars, rowVars, netVars, marking, stamping, gated,
                   target, attempts, todo, stuck, slip, row, refreshNext,
                   tally, history, faults>>

\* PROCESSING rows the summary reports as stale: newest of their payslip, old.
StaleProcessing ==
    {p \in Payslips : LatestStatus(p) = "PROCESSING" /\ Latest(p) \in aged}

\* Payslips the summary reports as retryable, were every backoff over.
Retryable ==
    {p \in Unpaid : LatestStatus(p) = "FAILED" /\ FailedCount(p) < MaxAttempts}

\* One run of sweepStalledPayrollB2C: summarise and pick. A backoff window
\* that is still closed keeps any retryable payslip out of the picked ids.
StartSweep(h) ==
    /\ pc[h] = "idle"
    /\ ~paidAt /\ Unpaid # {}
    /\ \E ids \in SUBSET Retryable :
          /\ ids # {} \/ StaleProcessing # {}
          /\ target' = [target EXCEPT ![h] = ids]
          /\ Goto(h, IF ids # {} THEN "snapshot" ELSE "stuck")
          /\ gated' = [gated EXCEPT ![h] = ids # {}]
          /\ refreshNext' = [refreshNext EXCEPT ![h] =
                               ids # {} /\ StaleProcessing # {}]
    /\ UNCHANGED <<mode, slipVars, rowVars, netVars, marking, stamping,
                   attempts, todo, stuck, slip, row, tally, history, faults>>

\* The retry reads the run's transactions. With no FAILED payslip it throws
\* NOTHING_TO_RETRY, which ends a sweep's turn too (its refresh is skipped).
RetrySnapshot(h) ==
    LET failedIds == {p \in Payslips : LatestStatus(p) = "FAILED"}
        \* the later "id" key of the where clause replaces the earlier one
        wanted    == IF target[h] = {} THEN failedIds ELSE target[h]
    IN
    /\ pc[h] = "snapshot"
    /\ IF failedIds = {}
       THEN Return(h)
       ELSE /\ Goto(h, "details")
            /\ target' = [target EXCEPT ![h] = wanted]
            /\ attempts' = [attempts EXCEPT ![h] =
                 [p \in AllSlips |-> IF p \in Payslips THEN FailedCount(p) ELSE 0]]
            /\ UNCHANGED <<gated, todo, stuck, slip, row, refreshNext, tally>>
    /\ UNCHANGED <<mode, slipVars, rowVars, netVars, marking, stamping,
                   history, faults>>

\* The retry reads the payslips of those ids that are still PENDING.
RetryDetails(h) ==
    /\ pc[h] = "details"
    /\ todo' = [todo EXCEPT ![h] =
                  {p \in target[h] : paymentStatus[p] = "PENDING"}]
    /\ target' = [target EXCEPT ![h] = {}]
    /\ Goto(h, "loop")
    /\ UNCHANGED <<mode, slipVars, rowVars, netVars, marking, stamping, gated,
                   attempts, stuck, slip, row, refreshNext, tally, history,
                   faults>>

-----------------------------------------------------------------------------
(* The loop over payslips, and initiatePayrollB2C.                          *)

\* evaluateB2CRetryGate on the snapshot: the ceiling is exact, whether the
\* backoff window has passed is left open.
GateMayOpen(h, p) == ~gated[h] \/ attempts[h][p] < MaxAttempts
GateMayClose(h, p) == gated[h] /\ attempts[h][p] > 0

\* The idempotency check at the head of initiatePayrollB2C.
AlreadyInitiated(p) == Active(p)

SkipPayslip(h) ==
    /\ pc[h] = "loop"
    /\ \E p \in todo[h] :
          /\ GateMayClose(h, p) \/ p \in Phoneless \/ AlreadyInitiated(p)
          /\ todo' = [todo EXCEPT ![h] = @ \ {p}]
    /\ UNCHANGED <<mode, slipVars, rowVars, netVars, marking, stamping, pc, gated,
                   target, attempts, stuck, slip, row, refreshNext, tally,
                   history, faults>>

\* No active row is found: the handler will create one, in a later call.
CheckPayslip(h) ==
    /\ pc[h] = "loop"
    /\ \E p \in todo[h] :
          /\ GateMayOpen(h, p) /\ p \notin Phoneless /\ ~AlreadyInitiated(p)
          /\ todo' = [todo EXCEPT ![h] = @ \ {p}]
          /\ slip' = [slip EXCEPT ![h] = p]
    /\ Goto(h, "create")
    /\ UNCHANGED <<mode, slipVars, rowVars, netVars, marking, stamping, gated,
                   target, attempts, stuck, row, refreshNext, tally, history,
                   faults>>

CreateRow(h) ==
    /\ pc[h] = "create"
    /\ \E r \in Rows \ Created :
          /\ status' = [status EXCEPT ![r] =
                          IF mode = "mock" THEN "COMPLETED" ELSE "PENDING"]
          /\ callback' = [callback EXCEPT ![r] = mode = "mock"]
          /\ payslip' = [payslip EXCEPT ![r] = slip[h]]
          /\ created' = Append(created, r)
          /\ row' = [row EXCEPT ![h] = r]
          /\ raced' = raced \cup {s \in {r} : \E g \in Handlers \ {h} :
                                  pc[g] = "create" /\ slip[g] = slip[h]}
    /\ Goto(h, IF mode = "mock" THEN "settle" ELSE "send")
    /\ UNCHANGED <<mode, slipVars, aged, netVars, marking, stamping, gated, target,
                   attempts, todo, stuck, slip, refreshNext, tally, unacked,
                   faults>>

\* An invalid number, or the create itself throws: nothing was written.
CreateFails(h) ==
    /\ pc[h] = "create"
    /\ NextPayslip(h)
    /\ failed' = [failed EXCEPT ![h] = @ \/ mode = "mock"]
    /\ UNCHANGED <<mode, slipVars, rowVars, netVars, marking, stamping, gated,
                   target, attempts, todo, stuck, refreshNext, initiated,
                   history, faults>>

\* Safaricom accepts the payment request and the handler reads the response.
SendAccepted(h) ==
    /\ pc[h] = "send"
    /\ provider' = [provider EXCEPT ![row[h]] = "accepted"]
    /\ Goto(h, "record")
    /\ UNCHANGED <<mode, slipVars, rowVars, results, marking, stamping, gated,
                   target, attempts, todo, stuck, slip, row, refreshNext,
                   tally, history, faults>>

\* OAuth or the request fails before Safaricom accepts anything.
SendRejected(h) ==
    /\ pc[h] = "send"
    /\ Goto(h, "fail")
    /\ UNCHANGED <<mode, slipVars, rowVars, netVars, marking, stamping, gated,
                   target, attempts, todo, stuck, slip, row, refreshNext,
                   tally, history, faults>>

\* Safaricom accepts, but the response (or the update after it) is lost.
SendUnacknowledged(h) ==
    /\ pc[h] = "send"
    /\ losses < MaxLosses
    /\ losses' = losses + 1
    /\ provider' = [provider EXCEPT ![row[h]] = "accepted"]
    /\ unacked' = unacked \cup {row[h]}
    /\ Goto(h, "fail")
    /\ UNCHANGED <<mode, slipVars, rowVars, results, marking, stamping, gated,
                   target, attempts, todo, stuck, slip, row, refreshNext,
                   tally, raced, crashes>>

\* The update after an accepted request does not look at the row's status: a
\* result that was settled in the meantime is overwritten.
RecordAccepted(h) ==
    /\ pc[h] = "record"
    /\ status' = [status EXCEPT ![row[h]] = "PROCESSING"]
    /\ NextPayslip(h)
    /\ UNCHANGED <<mode, slipVars, payslip, callback, created, aged, netVars,
                   marking, stamping, gated, target, attempts, todo, stuck,
                   refreshNext, tally, history, faults>>

MarkRowFailed(h) == status' = [status EXCEPT ![row[h]] = "FAILED"]

RecordFailure(h) ==
    /\ pc[h] = "fail"
    /\ MarkRowFailed(h)
    /\ NextPayslip(h)
    /\ UNCHANGED <<mode, slipVars, payslip, callback, created, aged, netVars,
                   marking, stamping, gated, target, attempts, todo, stuck,
                   refreshNext, tally, history, faults>>

\* Mock mode has no webhook: the handler settles the payslip itself.
SettleMock(h) ==
    /\ pc[h] = "settle"
    /\ paymentStatus' = [paymentStatus EXCEPT ![slip[h]] = "PAID"]
    /\ paymentRef' = [paymentRef EXCEPT ![slip[h]] = row[h]]
    /\ initiated' = [initiated EXCEPT ![h] = TRUE]
    /\ NextPayslip(h)
    /\ UNCHANGED <<mode, paidAt, rowVars, netVars, marking, stamping, gated,
                   target, attempts, todo, stuck, refreshNext, failed, history,
                   faults>>

\* No payslip of the run is left PENDING (the count before the stamp).
NoneRemaining == Unpaid = {}

\* End of the loop: only mock mode stamps the run, a sweep may go on.
FinishLoop(h) ==
    /\ pc[h] = "loop" /\ todo[h] = {}
    /\ paidAt' = (paidAt \/ (/\ mode = "mock" /\ initiated[h]
                             /\ ~failed[h] /\ NoneRemaining))
    /\ Leave(h, IF refreshNext[h] THEN "stuck" ELSE "idle")
    /\ UNCHANGED <<mode, paymentStatus, paymentRef, rowVars, netVars, marking,
                   stamping, history, faults>>

-----------------------------------------------------------------------------
(* refreshStuckPayrollB2C and queryPayrollB2CStatus.                        *)

StuckRows ==
    {r \in aged : /\ payslip[r] \in Payslips
                  /\ status[r] = "PROCESSING" /\ ~callback[r]}

ReadStuck(h) ==
    /\ pc[h] = "stuck"
    /\ stuck' = [stuck EXCEPT ![h] = StuckRows]
    /\ Goto(h, "query")
    /\ UNCHANGED <<mode, slipVars, rowVars, netVars, marking, stamping, gated,
                   target, attempts, todo, slip, row, refreshNext, tally,
                   history, faults>>

\* An accepted query makes Safaricom post a final result again.
QueryStatus(h) ==
    /\ pc[h] = "query"
    /\ \E r \in stuck[h] :
          /\ stuck' = [stuck EXCEPT ![h] = @ \ {r}]
          /\ results' = results \cup
                          {s \in {r} : provider[s] \in {"paid", "failed"}}
    /\ UNCHANGED <<mode, slipVars, rowVars, provider, marking, stamping, pc, gated,
                   target, attempts, todo, slip, row, refreshNext, tally,
                   history, faults>>

\* A query that throws is noted and the loop goes on.
QueryFails(h) ==
    /\ pc[h] = "query"
    /\ losses < MaxLosses
    /\ losses' = losses + 1
    /\ \E r \in stuck[h] : stuck' = [stuck EXCEPT ![h] = @ \ {r}]
    /\ UNCHANGED <<mode, slipVars, rowVars, netVars, marking, stamping, pc, gated,
                   target, attempts, todo, slip, row, refreshNext, tally,
                   history, crashes>>

FinishQuery(h) ==
    /\ pc[h] = "query" /\ stuck[h] = {}
    /\ Return(h)
    /\ UNCHANGED <<mode, slipVars, rowVars, netVars, marking, stamping,
                   history, faults>>

\* The process or the serverless invocation dies, wherever it is.
CrashHandler(h) ==
    /\ pc[h] # "idle"
    /\ crashes < MaxCrashes
    /\ crashes' = crashes + 1
    /\ Return(h)
    /\ UNCHANGED <<mode, slipVars, rowVars, netVars, marking, stamping,
                   history, losses>>

-----------------------------------------------------------------------------
(* Safaricom, the result webhook, time, and the manual disbursement.        *)

\* Safaricom decides and posts the result (external).
ProviderDecides(r) ==
    /\ provider[r] = "accepted"
    /\ \E outcome \in {"paid", "failed"} :
          provider' = [provider EXCEPT ![r] = outcome]
    /\ results' = results \cup {r}
    /\ UNCHANGED <<mode, slipVars, rowVars, marking, stamping, handlerVars,
                   history, faults>>

\* Every copy of a posted result is lost on the way (external). Losing a copy
\* of a result that was claimed changes nothing.
LoseResult(r) ==
    /\ r \in results /\ ~callback[r]
    /\ losses < MaxLosses
    /\ losses' = losses + 1
    /\ results' = results \ {r}
    /\ UNCHANGED <<mode, slipVars, rowVars, provider, marking, stamping,
                   handlerVars, history, crashes>>

Succeeded(r) == provider[r] = "paid"        \* ResultCode "0"
Claimable(r) == r \in results /\ ~callback[r]
SettlesPayslip(r) == TRUE                   \* the row has a payrollDetailId

\* settlePayrollB2CResult up to the atomic claim. A posted result stays
\* posted: what follows is a duplicate, which finds callbackReceived set.
WebhookClaim(r) ==
    /\ Claimable(r)
    /\ callback' = [callback EXCEPT ![r] = TRUE]
    /\ status' = [status EXCEPT ![r] =
                    IF Succeeded(r) THEN "COMPLETED" ELSE "FAILED"]
    /\ marking' = marking \cup {s \in {r} : Succeeded(s) /\ SettlesPayslip(s)}
    /\ UNCHANGED <<mode, slipVars, payslip, created, aged, netVars, stamping,
                   handlerVars, history, faults>>

\* ... and the payslip update that follows a successful claim.
WebhookMarkPaid(r) ==
    /\ r \in marking
    /\ paymentStatus' = [paymentStatus EXCEPT ![payslip[r]] = "PAID"]
    /\ paymentRef' = [paymentRef EXCEPT ![payslip[r]] = r]
    /\ marking' = marking \ {r}
    /\ UNCHANGED <<mode, paidAt, rowVars, netVars, stamping, handlerVars,
                   history, faults>>

\* The webhook dies or throws between the two; the route still answers 200.
WebhookCrash(r) ==
    /\ r \in marking
    /\ crashes < MaxCrashes
    /\ crashes' = crashes + 1
    /\ marking' = marking \ {r}
    /\ UNCHANGED <<mode, slipVars, rowVars, netVars, stamping, handlerVars,
                   history, losses>>

\* Ten minutes pass since the row's createdAt.
Age(r) ==
    /\ r \in Created \ aged
    /\ status[r] \in {"PENDING", "PROCESSING"}  \* no other age is looked at
    /\ aged' = aged \cup {r}
    /\ UNCHANGED <<mode, slipVars, status, payslip, callback, created, netVars,
                   marking, stamping, handlerVars, history, faults>>

\* disbursePayrollRun: every PENDING payslip of the run in one statement...
ManualMark ==
    /\ ~stamping
    /\ stamping' = TRUE
    /\ paymentStatus' = [p \in AllSlips |->
                           IF p \in Unpaid THEN "PAID" ELSE paymentStatus[p]]
    /\ paymentRef' = [p \in AllSlips |->
                        IF p \in Unpaid THEN Manual ELSE paymentRef[p]]
    /\ UNCHANGED <<mode, paidAt, rowVars, netVars, marking, handlerVars,
                   history, faults>>

\* ... then the run's paidAt in another.
ManualStamp ==
    /\ stamping
    /\ stamping' = FALSE
    /\ paidAt' = TRUE
    /\ UNCHANGED <<mode, paymentStatus, paymentRef, rowVars, netVars, marking,
                   handlerVars, history, faults>>

ManualCrash ==
    /\ stamping
    /\ crashes < MaxCrashes
    /\ crashes' = crashes + 1
    /\ stamping' = FALSE
    /\ UNCHANGED <<mode, slipVars, rowVars, netVars, marking, handlerVars,
                   history, losses>>

-----------------------------------------------------------------------------
Start(h) == \/ StartDisburse(h) \/ StartRetry(h) \/ StartRefresh(h)
            \/ StartSweep(h)

\* What a handler that is running does next.
Continue(h) ==
    \/ RetrySnapshot(h) \/ RetryDetails(h)
    \/ SkipPayslip(h) \/ CheckPayslip(h)
    \/ CreateRow(h) \/ CreateFails(h)
    \/ SendAccepted(h) \/ SendRejected(h) \/ SendUnacknowledged(h)
    \/ RecordAccepted(h) \/ RecordFailure(h) \/ SettleMock(h)
    \/ FinishLoop(h)
    \/ ReadStuck(h) \/ QueryStatus(h) \/ QueryFails(h) \/ FinishQuery(h)

Webhook(r) == WebhookClaim(r) \/ WebhookMarkPaid(r)

Next ==
    \/ \E h \in Handlers : Start(h) \/ Continue(h) \/ CrashHandler(h)
    \/ \E r \in Rows : \/ ProviderDecides(r) \/ LoseResult(r) \/ Age(r)
                       \/ Webhook(r) \/ WebhookCrash(r)
    \/ ManualMark \/ ManualStamp \/ ManualCrash

Spec == Init /\ [][Next]_vars

\* Handlers and webhooks run on, Safaricom answers, time passes, and the
\* scheduler keeps dispatching the recovery sweep.
Fairness ==
    /\ \A h \in Handlers : WF_vars(Continue(h)) /\ SF_vars(StartSweep(h))
    /\ \A r \in Rows : /\ WF_vars(Webhook(r)) /\ WF_vars(ProviderDecides(r))
                       /\ WF_vars(Age(r))
    /\ WF_vars(ManualStamp)

FairSpec == Spec /\ Fairness

-----------------------------------------------------------------------------
(* Safety.                                                                  *)

\* Safaricom holds or has executed a payment for the row.
MoneyOut(r) == provider[r] \in {"accepted", "paid"}

\* Two payments of one payslip are only possible when two handlers were
\* between the idempotency check and the create at the same time, or when a
\* request Safaricom had accepted was recorded as FAILED: the check itself,
\* the retry gate and the result webhook open no other way to pay twice.
DoublePayOnlyThroughHoles ==
    \A r, s \in Rows :
        r # s /\ payslip[r] = payslip[s] /\ MoneyOut(r) /\ MoneyOut(s)
            => {r, s} \cap (raced \cup unacked) # {}

\* A FAILED row, which the retry takes as leave to pay again, has no money
\* out, except the unacknowledged ones.
FailedMeansNoMoney ==
    \A r \in Rows : status[r] = "FAILED" /\ MoneyOut(r) => r \in unacked

\* A payslip that carries an M-Pesa receipt carries one of its own rows, whose
\* payment Safaricom has executed (or the mock provider pretended to).
PaidSlipHasMoney ==
    \A p \in AllSlips : paymentRef[p] \in Rows =>
        /\ paymentStatus[p] = "PAID"
        /\ payslip[paymentRef[p]] = p
        /\ provider[paymentRef[p]] = "paid" \/ mode = "mock"

\* The run is stamped as paid only when none of its payslips is unpaid.
PaidAtMeansAllPaid == paidAt => Unpaid = {}

\* What is on record is what happened to the money: nothing is out for a FAILED
\* row, a receipt stands for a payment of that payslip, and a run stamped as
\* paid owes nobody.
RecordsAreTrue == FailedMeansNoMoney /\ PaidSlipHasMoney /\ PaidAtMeansAllPaid

\* Each result is settled once, however often Safaricom posts it; and unless
\* something crashes, a success that was claimed marks its payslip (or the row
\* is COMPLETED, the payslip PENDING, and nothing repairs it), and a row is
\* PENDING, which blocks every later initiation, only while some handler still
\* has to record what became of it.
SettledOnceUnlessCrashed ==
    /\ \A r \in marking : paymentRef[payslip[r]] # r
    /\ crashes = 0 =>
          \A r \in Rows :
             /\ callback[r] /\ provider[r] = "paid" /\ r \notin marking
                   => paymentStatus[payslip[r]] = "PAID"
             /\ status[r] = "PENDING" => \E h \in Handlers : row[h] = r /\ Busy(h)

-----------------------------------------------------------------------------
(* What the comments of the code claim.                                     *)

\* "Ids that do not belong to this run are silently dropped"
\* (disbursement-service.ts:575).
OnlyOwnPayslipsSent == \A r \in Created : payslip[r] \in Payslips

-----------------------------------------------------------------------------
(* Liveness.                                                                *)

\* A row Safaricom accepted and whose result got lost is queried again until
\* its result is settled, as long as the run still owes anybody money.
StuckRowsResolve ==
    \A r \in Rows :
        status[r] = "PROCESSING" /\ ~callback[r]
            ~> callback[r] \/ Unpaid = {} \/ raced # {}

\* Money Safaricom paid out reaches the payslip when nothing crashes and the
\* request was acknowledged, lost results notwithstanding.
PaidMoneyReachesPayslip ==
    \A r \in Rows :
        provider[r] = "paid"
            ~> \/ \E p \in AllSlips : payslip[r] = p /\ paymentStatus[p] = "PAID"
               \/ r \in unacked \/ raced # {} \/ crashes > 0

=============================================================================
