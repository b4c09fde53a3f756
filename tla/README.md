# MBUMAH Hardware POS: specifications and proofs

TLA+ models of the parts of the system where several actors move money or stock
at the same time, the TLC runs that check them on small instances, and TLAPS
proofs of what matters most for instances of every size. Paths below are
relative to the repository; the application's own code is under `src/`.

1. The system, and its inventory
2. The modules and how they correspond to the code
3. The runs: what each checks, its bounds, what it shows
4. Fairness
5. What is proved, and how
6. Disagreements between code and documentation
7. What the models leave out
8. Plan

## 1. The system

A Next.js application (route handlers under `src/app/api`, services under
`src/lib`) on a relational database through Prisma, used by hardware shops in
Kenya: point of sale, stock, customer credit, KRA tax invoices (eTIMS), M-Pesa
payments in both directions (STK push for sales, B2C for wages), a general
ledger, and an HR and payroll suite. It runs as serverless functions: any
handler may be frozen or killed between two awaits, any number of them run at
once, and there is no process that outlives a request. What has to happen later
is done by cron endpoints; `cron/hourly` starts the outbox, the payment sweeper,
the eTIMS retry, the debt reminders, the B2C recovery and the session reaper **in
parallel**. Browsers add a second tier with state of their own (IndexedDB).

### Components

State and operations of the components that carry the core logic; PROJECT.json
lists every part, with its files.

| component | state | operations | interacts with |
|---|---|---|---|
| payroll disbursement (B2C) | `mpesaTransaction` rows, `payrollDetail.paymentStatus`, `payrollRun.paidAt` | disburse, retry, refresh, sweep, result webhook, manual disbursement | Safaricom; payroll runs; hourly cron |
| transactional outbox | `outboxEvent` rows | enqueue, pump (claim, handle, record) | checkout, STK push, eTIMS, hourly cron |
| eTIMS retry | the same rows, kind `ETIMS_INVOICE`; the sale's eTIMS fields | batch | outbox, KRA |
| M-Pesa sale | the sale, its `mpesaTransaction` rows, stock, journal entry | push by pump or cashier, callback, status poll, sweep | Safaricom, outbox, hourly cron |
| payroll runs | `payrollRun`, `payrollDetail`, `payrollCorrection`, `journalEntry` | create, prepare, submit, reject, approve, post, lock, void, request and decide a correction | ledger, disbursement |
| offline queue | IndexedDB rows, the state of each replay | save, replay, put back, clear | checkout |
| checkout | `salesTransaction`, `product.quantityInStock`, payments, journal, receipt | look up, check, commit, follow-up steps | offline queue, outbox, eTIMS, loyalty |
| sequence and invoice numbers | counts of rows of the day | allocate | payroll, purchasing, eTIMS |
| debt payment plans | `debtPaymentPlan`, its installments, `debtLedger`, the customer's balance | create, approve, pay, waive, view, patch, delete, overdue marking; paying the debt directly | customers, checkout on credit |
| gift cards, vouchers, loyalty | balances | charge, redeem, award (conditional updates) | checkout |
| cash drawer, shifts | drawer log, open shifts | open, close, log | checkout |
| store transfers | `storeTransfer`, its lines, `quantityInStock` and movements of both stores | create, approve, ship, receive, cancel | checkout (the same stock) |
| leave | `leaveRequest`, `leaveBalance` (a derived copy of what the requests say) | request, edit, decide, desk approval, adjust, grant, recompute | payroll (absences) |
| purchasing, rentals | documents and stock | status machines | stock |
| attendance, other HR desks | records | punch, review | payroll |
| auth, sessions, lockout, rate limit | sessions, counters | sign in, expire, reap | every route |
| circuit breaker, retry, dead letter queue | in-process counters, localStorage | only used by health and demonstration routes | none |
| the rest | rendering, exports, reports, workspaces, messaging, updater, scripts | | |

### What is hard here, and what makes each part correct

* *Check, then act, in two database calls.* The payroll initiation looks for an
  active row and then creates one; runs and corrections are read, checked and
  later updated by id alone. Correct: nobody is paid twice, maker is not checker,
  wages are booked once.
* *An answer that never comes.* Safaricom, the browser and the database may have
  done what the caller believes failed. Correct: a failure that permits a retry
  means that nothing happened.
* *Loops over snapshots.* Pump, eTIMS batch, sweeps and the offline replay read
  all their work first and act on it later. Correct: each claim is re-checked,
  final states stay final.
* *Dying between two writes.* Claim and outcome, journal entry and status, commit
  and follow-up steps are separate. Correct: something finds what was left.
* *Results out of order or repeated.* Webhooks overtake the response of the
  request that caused them and come again. Correct: they are applied once.
* *Copies of one truth.* Leave balances, plan totals, transfer lines and stock
  are each kept in two places, updated by separate statements. Correct: they
  agree again when nobody is at work.
* *Things that must happen later.* Lost results are to be queried again, queued
  events delivered, payments that were never asked for expired.

PROJECT.json lists these hazards at their lines, with the properties that watch
each of them.

## 2. The modules

Every database call and every external call is a step of its own where other
actors could come between; reads that nobody can separate from the following
write are merged with it. History variables (marked in each module) only record
what happened, no guard reads them.

### PayrollB2C

One posted run. A **handler** is a request or a cron tick with a program counter
`pc`: a disbursement, a retry (of all failed payslips or of named ones), a
refresh, or a sweep (a gated retry followed by a refresh). Its loop over `todo`
goes through `CheckPayslip` (the `findFirst`), `CreateRow`, one of
`SendAccepted`, `SendRejected`, `SendUnacknowledged`, and `RecordAccepted` or
`RecordFailure`. Rows of `mpesaTransaction` are the functions `status`,
`payslip`, `callback`. Safaricom (`provider`, `results`) decides and posts
results that stay posted, so duplicates need no action of their own.
`WebhookClaim` is the atomic claim, `WebhookMarkPaid` the payslip update after
it. `ManualMark` and `ManualStamp` are the manual disbursement of the same run.
`mode` is fixed at the start: `"daraja"`, or `"mock"`, where the handler settles
the payslip itself.

### Outbox

One model for the two loops that consume outbox events: **pumps** (every kind,
PENDING only) and eTIMS **batches** (invoice events, PENDING or FAILED). A loop
reads its due events (`Start`; `seen` keeps the attempts it read), then claims
one (`Claim`: only the status is compared), runs the handler, and records the
outcome computed from the *old* attempts. An update to COMPLETED that throws
falls into the catch block (`LoseDelivered`, then `RecordFailure`).

### WorkQueue

What an outbox promises, without loops, batches or attempts: items that are
handed out to one holder at a time (`Lease`), have their effect at most once per
lease, and end done or given up, which nothing takes back, or leased for ever. `Outbox` implements it: the
status of an event is its phase (PENDING and FAILED are open), the times it was
run are its leases, what was delivered its effects. The promise includes
`WF(Lease)`: what is open is handed out in the end.

### StkPayment

One M-Pesa sale from checkout to its end. The pump and the cashiers call
`initiateStkPush`: find or create a row, push, write the CheckoutRequestID.
Callbacks find the row by that id, pass a terminal-state gate, and claim it;
status polls write what they concluded from an earlier read; the sweep claims
rows that got old and are still PENDING, and then fails the sale (stock it leaves
to the callback). A recorded push has left PENDING, so the sweep is about rows no
push was recorded on. Pushes are numbers, so
ids are too; 0 stands for null, empty and simulated ids alike.

### PayrollRun

The runs of one period. `call[q]` is what request `q` is doing: which operation,
at which step, for whom, with what it read. Every operation is `...Reads` (its
checks) and `...Writes` (its update by id); posting goes on through
`BookLookup`, `BookInsert`, `BookPost` (createJournalEntry), `PostNumbers`,
`PostStamps`, `PostReleases`, and a granted correction through the same booking
steps to `GrantReplaces` and `GrantStamps`. `stale` records the runs an
update hit whose read was out of date; the properties say which of the wrong
states need that.

### OfflineSale

The till, the queue and the checkout. `queue` and `keyOf` are the IndexedDB rows
with their idempotency keys, `sync[y]` is a call of `syncQueue` with its own
copy (`todo`, `held`), `post` holds the POSTs at the server. A caller that gives
up (`TillLoses`, `SyncLoses`, `CloseTab`) leaves its POST running. At the server
a POST goes through `Lookup`, `CheckStock`, `Commit` (one database transaction,
in which the insert comes before the stock claim) and `RunEffects` (audit entry,
eTIMS event, loyalty points). Keys are numbers per sale, 0 is no key; a *legacy*
row was queued by an older version of the app without one.

### StoreTransfer

Transfers from an origin store that compete for its stock with each other and
with the tills (`Sell`). Each handler ends in one database transaction that
first claims the status of the transfer, so the transactions are one action
each; but what `Receive` and `Cancel` write they compute from the transfer as
the request *loaded* it (`LoadReceive`, `LoadCancel`), and that is a step
before. `outdated` records the transfers written from a read they had outgrown.

### DebtPlan

One debt with its payment plan. Pay and waive load the plan, claim the
installment and commit: `Claim` takes the lock on the row and reads all
installments (`fresh`, where other open transactions do not show), `Pay` and
`Waive` are the commit with everything written before it. Views mark what was
late when they loaded it (`Mark`, `WriteView`), the list marks what is late now
(`Sweep`), a patch and a delete act on the status they loaded, and a payment can
go past the plan (`PayDirect`). `overlapped`, `reopened` and `outdated` record
which wrong states need an overlap.

### Leave

The requests of one employee and the stored balances. Nothing here runs in a
transaction, so every statement is an action and `pc[c]` says where a call is.
A change of a request (`File`, `Edit`, `Decide`) is followed by the recompute of
the balances in `heal[c]`: two counts (`CountApproved`, `CountPending`) and a
write (`Recompute`); the desk first applies its increment: it reads the request,
then the balance, and writes (`ReadShift`, `LoadShift`, `Shift`). An edit reads
its request (`LoadEdit`), later the balance, to whose free days it adds those of
the request as it read it (`CheckEdit`), and later still writes (`Edit`). `Adjust` writes an allocation it computed earlier,
`Grant` sets one to any number, negative ones included, and recomputes every type. Three history variables keep the
bookkeeping of staleness: `misled` calls read a balance that is no longer, or
never was, true, or add back days that their request no longer takes; `spoiled` balances were last written from such a reading or
left behind by a call that failed; `doubtful` ones were drawn on blindly.

`MC*.tla` extend these modules with symmetry sets and small tables. `*Proofs.tla`
hold the theorems (those of both payroll modules are in `PayrollProofs`, for which
`PayrollRun` prefixes its specification and type invariant with `Run`; those of the
outbox stand at the end of `Outbox`, so that the refinement is next to what it is
about), and `Sums` what they share: the laws of
sums over finite sets. Definitions marked as mutated forms, next to the definition
they mutate, are plausible bugs; no specification uses them: substituting one
for its neighbour makes TLC report the property it is listed with.

## 3. The runs

| run | instance | shows |
|---|---|---|
| `b2c_safety` | 1 payslip, 2 handlers, 2 rows, a crash, a loss | the ways to pay twice are the four named in `DoublePayOnlyThroughHoles`; FAILED rows moved no money, receipts are real, results are applied once, a run is stamped paid only when it is (`RecordsAreTrue`); nothing is settled a second time but after a crash |
| `b2c_recovery` | 2 payslips (one without phone), 1 handler, daraja and mock | lost results are queried until settled, paid money reaches the payslip |
| `b2c_foreign_retry` | 1 handler, a payslip of another run | *violation*: a targeted retry pays a payslip of a run never approved |
| `outbox_delivery` | 2 pumps, 1 batch, 1 invoice event, 3 attempts, a crash, a lost write | one deliverer at a time, attempts count runs and DEAD means exhausted (`AttemptsAreTrue`), one effect, the loops implement `WorkQueue` (and so take up neither COMPLETED nor DEAD events again), every event settles |
| `stk_payment` | pump, 1 cashier, 3 rows, 2 pushes (one with another amount), a fault | where a paid push can get lost, the sweep claims only rows no push is recorded on and then closes the sale (`SweepIsSafe`), rows without a recorded push do not stay PENDING |
| `stk_never_settles` | 1 push, no fault | *violation*: the callback's claim asks for a status the push has already replaced |
| `payroll_run_safety` | 2 owners, 2 requests, 2 runs, 1 correction, 2 troubles | payslips that were numbered and corrections that were applied are in the journal, with the computation that was paid (`WhatIsPaidIsBooked`), wages are booked once, what was voided or rejected is in the journal only through the holes named, twins need a race |
| `offline_sale` | 1 legacy row, 1 sale, 2 replays, 2 POSTs, 1 failure | which sales can be recorded twice, stock equals sales, follow-up steps run once, paper receipts are kept and cleared sales stay away (`QueueKeepsItsWord`) |
| `store_transfer` | 2 transfers over 2 products, 2 requests, the till | movements match lines, RECEIVED means complete, no unit appears or vanishes, closed transfers move nothing; the first and the third unless an outdated read was written |
| `transfer_cancel` | 1 transfer, 1 request | *violation*: a cancelled shipment does not come back to the stock the tills sell from |
| `debt_plan` | 2 installments of 2 and 1, 2 requests, direct payments at any time | the ledger adds up whatever overlaps, installments settle once, the plan row agrees with them, cancelling and approving stand |
| `leave` | 2 requests, 2 types (one without a balance), 4 calls, 2 at a time | balances follow requests once nobody is at work on them, allocations are not overdrawn, decisions stand, each but for the overlaps it names |

Bounds. Two of every kind of actor are what a race needs, and each property
relates at most two rows of one entity. Rows suffice for a first attempt, its
duplicate and a retry. Two corrections, and two runs, are the smallest instance
in which a supplementary run meets another. The fault budgets (`MaxCrashes`,
`MaxLosses`, `MaxFaults`, `MaxTrouble`) are spent wherever TLC chooses, so that
one fault at every point of every interleaving is covered; the proofs of
section 5 need no bound at all. Store transfers: an order of two units can be
received in two batches, and three units in stock are too few for both
transfers and the till. Debt plan: an installment of two units can be paid in
part by two overlapping payments. Leave (`MaxCalls` 4 in all, two in progress, `Days`
1 and 2, adjusted allocations up to `Most` 2, grants of 1 and of -2): two requests fill a balance together, an
edit moves one between the types, or is overtaken by an edit and a filing between
its two reads (which takes all four calls), two calls overlap, and two more file, decide or
heal before and after them; with three at a time the instance no longer finishes,
and the proofs have no such bound. `CHECK_DEADLOCK FALSE` is set where the story of
the instance ends (one sale paid, all runs locked, an empty queue, a closed transfer, a deleted
plan, all leave decided).

The properties with *Holes* or *Unless* in their name, and those with an
exception for a history variable, are sharp on purpose: the
code does have those holes, and the property says that there are no others. Each
hole is a history variable that the state alone does not reveal.

## 4. Fairness

Safety runs use `Spec` without fairness. The liveness runs assume:

* handlers, loops and webhooks that have started go on (weak fairness): they
  are straight-line code, and dying is an action of its own;
* time passes (`Age`, `BecomeDue`) and Safaricom decides;
* the cron scheduler dispatches for ever: weak fairness of `Start` in Outbox and
  of `Sweep` in StkPayment, strong fairness of `StartSweep` in PayrollB2C, whose
  guard other handlers switch off and on. `vercel.json` and the hourly route are
  what justifies it.

The fairness of the abstract queue, `WF(Lease)`, is not assumed but implemented:
TLC checks it of `Outbox` under the fairness above (`ImplementsWorkQueue`).

Nothing is assumed of cashiers, owners or browsers. StoreTransfer, DebtPlan and Leave
have no liveness property, since every step of theirs waits for a person.
OfflineSale has none either: a failed replay is tried again only at the next `online` event or
click, and neither is certain.

## 5. What is proved

TLAPS checks every step; the only assumptions are the named ones on the
constants (`ConstAssumption`, `OutboxAssumption`, `SaleAssumption`, `StkAssumption`,
`RunAssumption` and those of the later modules), which TLC evaluates too. Where a
property speaks of a sum, they include that the set summed over (sales, transfers,
requests, installments) is finite, as what a database has stored is.

**PayrollProofs**, first part, for any number of payslips, handlers, rows, crashes and
losses: `TypeCorrect`, `DoublePayHoles`, `FailedSafe`, `ReceiptsAreReal`,
`StampMeansPaid`, the last three together as `RecordsHold`, and `SettledOnce`.
`DoublePayOnlyThroughHoles` is not inductive: it says nothing of rows that are
about to be sent. The strengthening `IInv` calls a row *open* while Safaricom
has its payment or may still get it. An open row that was acknowledged is in an
active status, so the check of the next handler sees it; a handler that passed
the check (its *window*) can miss only a row created after it looked, and
`CreateRow` records exactly those in `raced`. Two open rows of a payslip are
therefore raced or unacknowledged, from which the first three follow; the
stamp holds because a payslip, once PAID, is never anything else.
`SettledOnceUnlessCrashed` needs two more parts: *ClaimInv* (a webhook that is
still marking has claimed its row; a receipt is only that of a row which is claimed
and not being marked; Safaricom no longer decides about a claimed row, and a row
about to be sent is not claimed) and *NothingDropped* (without a crash, a claimed
success is marked or being marked, and a PENDING row has its handler). The steps
that do neither are one lemma (`AsideSettles`).

**Outbox**, for any number of events, pumps and batches: `TypeCorrect`,
`SingleDelivery`, `AttemptsHold` (of `AttemptsAreRuns` and `DeadIsExhausted`),
`OneEffect`, `FinalIsFinal`, and `Refinement`: every behaviour of `Spec` is one
of `WorkQueue`. The invariant has three parts: *Holding* (a loop with an event in
hand is alone, and the event is PROCESSING, hence nobody else's claim succeeds),
*Counting* (the attempts a loop read are below the maximum, and exact unless the
event is in `stale`), *Delivering* (successes and lost writes). For the
refinement they say that a claim finds its event open, that the effect is the
only one of its lease, and that an update by id finds the event leased. That
the fairness of WorkQueue is implemented as well is checked by TLC.

**OfflineSaleProofs**, for any number of sales, replays, POSTs, keys and
failures: `TypeCorrect`, `DoubleSaleHoles`, `QueueIsReliable` (of
`ReceiptIsKept` and `ClearedStaysForgotten`), `EffectsOnce`, `StockIsConserved`.
The server's unique index alone
does not bound the
records of a sale: a POST without a key is outside it. The invariant follows the
key: *Rows* (a sale that is no legacy gets one key, and every copy of its row
holds it), *Keys* (no key is sent or recorded that was not generated), *Callers*
(who waits for which POST, and that the till's POST is the only one without a
key), *Counting* (records of a sale are at most one for its key and one for that
POST, and the second only while no key exists or the sale fell back), *Recorded*
(a row is deleted only when there is a record) and *Gone*. The steps of the server
reduce to two (`Served`, `Inserted`), which is where the unique index is used.
`EffectsOncePerRecord` adds *Owed*: the records of a sale are the effects it has had
and the POSTs that have recorded it and still owe them (`Owing`). That a POST enters
`Owing` only with a record of its own needs *AloneUnderKey* (two POSTs of a sale at
the server have different keys, or the sale is in `together`) and *FreshKeys* (so
what the lookup did not find, the insert does not find either).

**StoreTransferProofs**, for any transfers, products, quantities and requests:
`TypeCorrect`, `MovementsAreLines`, `OnlyShippedMoves`, `StatusIsReceipt`,
`ClosedStays`, `StockIsConserved`. What a request has loaded fits the order whether it is outdated
or not (*Loaded*), because receipts only raise the lines and the loaded status
bounds the batch; the claims tie `shippedAt` and the lines to the status
(*Stages*). So `RECEIVED` never goes with a short line, and where the loaded
lines are those of the row, movements and lines grow by the same batch.

**DebtPlanProofs**, for any installments, amounts and requests: `TypeCorrect`,
`DebtAddsUp`, `InstallmentsSettleOnce`, `NoRevival`, `PlanRowAgrees`. *Asked* says what a request
has loaded lets it do: its amount fitted what was due when it looked, its plan
was payable, and a debt it saw settled is settled. *Claimed* says that the row a
request has claimed is open, locked by it alone, and as the claim saw it, so that
the commit adds the amount to what it read. The ledger then follows from the
guarded decrements, which move debt, customer and record in one commit.

**LeaveProofs**, for any requests, types, calls and amounts: `TypeCorrect`,
`BalancesHeal`, `DecisionsKept`, `LimitsKept`. `BalancesFollowRequests` is not inductive, for it
does not say what a call that is about to write has counted. The strengthening
adds *CountsTrue*: the counts of a call that is not misled are what the requests
say now; every change of a request misleads the calls that counted its
type and leaves the type owed a recompute by the call that changed it, or
spoiled. *Shape* gives what a call has loaded at each stage, and *NewRows* that a
request being filed is new and filed by one call, so that no decision is lost to
it. For these the sums never have to be opened: that a step leaves
the rows of a type alone is enough (`DaysStay`). `NeverOverCommitted` does need
them. *Limits* says that the days of the live rows (`Committed`) fit the allocation of
every type that is not doubtful, and, since a call that has checked a balance writes
only later, that there is room for its days in place of those its request takes
already (`Room`), unless it is misled; every write that takes room misleads the others.
For an edit, whose balance is read after its request, `ChecksRoom` needs that what it
adds back is no more than the request takes by then, and an edit of which that is not
so is misled. Allocations may be negative, as the code lets anybody with the right
grant them; `TypeCorrect` says that only grants and the defaults of the types are.

**StkPaymentProofs**, for any number of cashiers, rows, pushes, callbacks in hand
and faults: `TypeCorrect`, `PaidIsTraced`, `SweepHolds`, `NeverSettled`. A row that
was never sent carries no id of Safaricom's (*RowsHold*), and once sent it is never
PENDING again; so callbacks and polls in hand are about rows that the sweep, which
claims PENDING rows, leaves alone (*HandsHold*). For the same reason the claim of
the callback, which asks for PENDING as well, never succeeds: `NeverSettled` says
for every instance that no sale becomes COMPLETED, of which the run
`stk_never_settles` shows one. *Numbered* says that the next push and the next row
are unused, so that a step cannot drop the id of another push, and *AllTraced* is
`PaidPushIsOnRecord` for all pushes, paid or not.

**PayrollProofs**, second part, for any users, requests, runs, corrections and
computations: `RunTypeCorrect`, `BookedOnceHolds`, `PaidIsBooked`, `UndoneHolds`,
`TwinsHold`, that is, every property the run checks. A request is *fresh* while
its row is as it read it. *Knows* says what a fresh request may still rely on; an
update by id from a request that is not fresh puts the row into `stale`, so the
runs outside `stale` move along the status machine (*Orderly*) although no update
of the code repeats the check. *Ledger* is the unique key and who has an unposted
entry in hand, *Bookings* that a request past the booking has an entry to show,
*Granted* that a booked correction is decided or on its way. None of the
properties is inductive without them: that a voided run is booked only by a post
under way, for instance, needs that the post read APPROVED, that a booked run was
approved, and that a fresh void found a status from which voiding is allowed. The
steps that touch no row are one lemma (`CallSteps`), the others one each.

**Sums**. Four properties speak of a sum over a set of unknown size, written with
the community module's `MapThenSumSet`, a fold over an order that `CHOOSE` fixes.
Its defining equation is a recursion, which the library's induction theorems would
have to be instantiated with a formula for. `SmallestSubset` avoids that: strict
inclusion is well founded on the subsets of a finite set, so among the subsets that
*lack* a property, a set like any other, one is smallest. With it `SumIsBalance`
shows that the fold of a finite sum of integers is well defined and is the
number of its positive units less that of its negative ones, both cardinalities of
finite sets; and the laws follow: a sum is an integer (`SumIsInt`), changes by
what one term changes (`SumChanged`), is monotone (`SumOfPart`, `SumOfLarger`) and
additive (`SumOfBoth`). In `StockIsConserved` (of both stock models),
`PlanRowAgrees` and `LimitsKept` every step changes one term, and what is left is
the argument about that term.

So every safety invariant and every safety action property that a passing run
checks is a theorem. Only model-checked is the liveness (`StuckRowsResolve`,
`PaidMoneyReachesPayslip`, `EventsSettle`, `UnsentRowCloses`, and the fairness in
`ImplementsWorkQueue`), whose ENABLED is beyond this TLAPS, and the three
violations of section 6, which are counterexamples.

## 6. Disagreements between code and documentation

Three are *violation* runs; PROJECT.json quotes the sentence and the line.

* A targeted retry is not confined to its run (`b2c_foreign_retry`).
* The settlement of a paid sale is never executed (`stk_never_settles`).
* A cancelled shipment is returned to the Inventory table, and the stock the
  tills sell from stays short (`transfer_cancel`).

The others show as the exceptions of properties that pass: take the exception
away and TLC reports the behaviour.

* Overlapping dispatches pay a payslip twice (`DoublePayOnlyThroughHoles` excepts
  `raced`).
* An event whose loop dies stays PROCESSING for ever (`EventsSettle` excepts it,
  and so does the promise of WorkQueue). One claimed on an outdated read has its
  attempts set back (`AttemptsAreTrue` excepts `stale`).
* A second underpayment is booked without its replacement run
  (`UndoneBooksOnlyThroughHoles` excepts `blocked`).
* A sale whose online answer is lost is recorded twice, and a failed replay of
  a legacy row puts the row back without the key it was just given
  (`DoubleSaleOnlyThroughHoles` excepts `fellBack` and legacy rows); the second
  of two POSTs under one key repeats the follow-up steps (`EffectsOncePerRecord`
  excepts `together`); Clear Queue does not stop a replay that has already copied
  the row (`QueueKeepsItsWord` is about `forgotten`, not `cleared`).
* Two receipts, or a receipt and a cancel, that loaded the same lines credit the
  destination twice for one line total (`MovementsMatchLines` excepts `outdated`).
* Two payments of one installment pass each other's check and pay it beyond what
  is due (`InstallmentsHold` excepts `overlapped`); a view that loaded a plan
  before a payment marks the paid installment OVERDUE (`reopened`).
* An edit or a decision that loaded a leave request before it was decided writes
  over the decision (`DecisionsStand`), though `leave-service.ts:545` allows edits
  of PENDING requests only; a recompute that fails is swallowed and leaves the
  balance as it was (`BalancesFollowRequests` excepts `spoiled`).
* "The corrected range must fit the available balance", says
  `leave-service.ts:609-611` of an edit, with "the request's own current pending
  days" added back. They are those of the read at line 582, and the balance is
  read at line 616: an edit that shortens the request in between, and a filing
  that takes the days, are followed by a write that counts them again, and three
  days of two are applied for (`NeverOverCommitted` excepts it by `Outrun`; without
  that, TLC shows it in four calls).
* `adjustLeaveBalance` refuses to leave an allocation below zero
  (`leave-balance-governance.ts:319`); `api/leave/balances/route.ts:34-46` and
  `grantBalance` take any number, and `api/leave-types/route.ts:108` any default
  (`TypeOK` excepts `Grants` and `Standard`).

Two more show in what a passing property says, and are not its exceptions.

* A DEAD event is never taken up again (`TerminalIsFinal`, `ImplementsWorkQueue`).
  `etims/worker/route.ts:4-6` says of the worker that staff can "retry stuck
  invoices on demand from the UI - e.g. after a DEAD event", and
  `etims-queue.ts:223-226` that they "can re-issue via POST /api/etims/worker or
  /api/etims/issue-invoice". The batch the worker runs reads and claims PENDING and
  FAILED events only (lines 236 and 250): of the two routes only the second, which
  submits the sale without the outbox, does anything, and the event stays DEAD.
* A push that was recorded and is never answered is closed by no sweep, and its
  sale by nothing at all: a status poll, if a client asks, touches the row alone.
  `cron/payments-sweeper/route.ts:4-9` and `14-16` say that the sweep closes rows
  "whose callbacks never arrive". Recording a push moves its row to PROCESSING
  (`mpesa-daraja.ts:196-201`), and the sweep reads and claims PENDING rows only
  (lines 78 and 118), so it closes rows without a recorded push
  (`SweepSparesSentRows`). One of them may be of a push that Safaricom accepted and
  whose sender died before recording it: the customer can still pay for a sale that
  is FAILED. `UnsentRowCloses` speaks of PENDING rows for the same reason.

## 7. What the models leave out

* **Data**: amounts, names, phone formats, tokens, tax. `netPay` is positive;
  sales are of one unit.
* **PayrollB2C**: backoff times are nondeterministic (the ceiling on attempts is
  exact); the re-query of PROCESSING rows in mock mode; the refusal of mock mode
  in production; batch limits and order of the sweep; the queue-timeout webhook,
  which only logs.
* **Outbox**: batch size and order; the handlers' own effects.
* **StkPayment**: a lost result is one never read; the POS sends no
  idempotencyKey, so the dedupe of pushes is never reached; the life of the
  sale's outbox event is condensed to its status.
* **PayrollRun**: one payslip stands for all of a run; OFF_CYCLE and BONUS are
  like REGULAR; the caller's idempotencyKey of create; closed periods and missing
  accounts are refusals like any other; a prepare that is blocked only writes an
  error message; disbursement is in PayrollB2C; a request that dies before its
  first write leaves no trace.
* **OfflineSale**: attempts and errors of a row, the badge, `navigator.onLine`
  and the token check (a replay that returns at once changes nothing); IndexedDB
  missing; receipt number collisions (the suffix is random); tenders, credit
  limits and serials, whose failures are refusals; the minimum stock level is 0,
  its default; `discardQueuedTransaction`, which nothing calls. Follow-up steps
  succeed or fail together.
* **StoreTransfer**: the destination's Inventory row, which is credited like its
  product; creating the product copy at the destination; checks of who may act.
* **DebtPlan**: the cent of tolerance, interest and late fees (they are part of
  `Total`), two plans created for one debt at once, and MISSED and DEFAULTED,
  which nothing writes; a request that is refused leaves no trace.
* **Leave**: half days, requests across two years, notifications and the review
  stamps of the desk; carried days, which are none; `Skip` can also happen within
  the list of a grant, where the code stops.
* **Hazards outside the models**: a sale that is failed by the sweep still prompts
  the customer (`outbox-handlers.ts:28`, whose delivery to a person is not
  modelled); invoice numbers that count the rows of the day
  (`etims-queue.ts:105`); a supplementary run computes everyone in full
  (`run-service.ts:331`); the running balance of the cash drawer
  (`transactions/route.ts:1543`).
* **Not modelled at all**: see PROJECT.json, with the reason for each.

## 8. Plan

Modules, most important first:

1. PayrollB2C with proofs (done).
2. Outbox with proofs, and WorkQueue, which it implements (done).
3. StkPayment with proofs (done). Next: the callbacks that come after the sweep,
   as a refinement of a sale that is closed once.
4. PayrollRun with proofs (done). Next: supplementary runs, which pay everyone in
   full again.
5. OfflineSale with proofs, `EffectsOncePerRecord` included (done). Next: sales of
   several units, with the laws of Sums.
6. StoreTransfer, DebtPlan and Leave with proofs (done). Next: the re-check
   report of leave.
7. EtimsInvoice with Sequence: count-plus-one numbers, issue and cancel, the
   best-effort enqueue after the commit; property: numbers are not issued twice.
   Composed with Outbox's batches.
8. Checkout tenders: credit limit, gift cards, cash drawer, serials as
   conditional updates in one transaction; property: no balance is overdrawn,
   the drawer's running balance.
9. Shifts; then the circuit breaker and the dead letter queue.

Runs stay within two actors of each kind and a single fault where the full
product is too large; each new module gets one passing run, and a violation run
only where a sentence of the repository is contradicted.
