------------------------------- MODULE DebtPlan -----------------------------
(***************************************************************************)
(* A payment plan over one debt of a customer:                              *)
(*   api/debt-payment-plans/route.ts            create, overdue sweep       *)
(*   api/debt-payment-plans/[id]/route.ts       view, patch, delete         *)
(*   api/debt-payment-plans/[id]/approve/route.ts                           *)
(*   .../installments/[installmentId]/pay/route.ts and waive/route.ts       *)
(*   api/debt/route.ts                          paying the debt directly    *)
(*   lib/debt-plan-utils.ts                     totals and derived status   *)
(*                                                                         *)
(* A request loads the plan and decides; pay and waive then run one READ    *)
(* COMMITTED transaction. It claims the installment, whose row stays locked *)
(* until the commit, and reads all installments: what other transactions    *)
(* have not committed yet it does not see. The other writes of the          *)
(* transaction become visible at the commit and are one action with it.     *)
(* Amounts are whole units; the tolerance of a cent is left out, and so is  *)
(* MISSED, a status nothing writes.                                         *)
(***************************************************************************)
EXTENDS Integers, FiniteSets, FiniteSetsExt

CONSTANTS
    Installments,   \* the installments of the plan
    Requests,       \* requests in progress
    Due,            \* installment.amountDue
    Total,          \* plan.totalAmount at the create
    Owed,           \* debtLedger.amountOwed at the create
    None            \* no installment

ASSUME DebtAssumption ==
    /\ IsFiniteSet(Installments)
    /\ None \notin Installments
    /\ Due \in [Installments -> Nat \ {0}]
    /\ Total \in Nat \ {0}
    /\ Owed \in Nat /\ Total <= Owed

VARIABLES
    status,         \* plan.status, "NONE" before the create
    total,          \* plan.totalAmount
    totals,         \* plan.amountPaid and plan.balance, as last computed
    row,            \* status and amountPaid of each installment
    pastDue,        \* installments whose dueDate has passed
    owed,           \* debtLedger.amountOwed
    paid,           \* debtLedger.amountPaid
    balance,        \* debtLedger.balance
    debtStatus,     \* debtLedger.status
    customer,       \* customer.currentDebtBalance, for this debt
    received,       \* debtPayment rows summed up, through the plan ...
    direct,         \* ... and past it
    pc,             \* what a request is about to do
    inst,           \* the installment it is about
    amount,         \* the amount it pays
    target,         \* the status a patch asks for
    snap,           \* what it loaded before it decided
    fresh,          \* the installments it read inside its transaction
    waived,         \* history: what was waived of each installment
    overlapped,     \* history: paid by a request that knew an older amountPaid
    reopened,       \* history: settled, and marked OVERDUE by a late view
    outdated        \* history: the plan row was last written from old reads

plan    == <<status, total, totals>>
debt    == <<owed, paid, balance, debtStatus, customer, received, direct>>
request == <<pc, inst, amount, target, snap, fresh>>
history == <<waived, overlapped, reopened, outdated>>
vars    == <<plan, row, pastDue, debt, request, history>>

-----------------------------------------------------------------------------
PlanStatuses == {"PENDING_APPROVAL", "ACTIVE", "PAUSED", "DEFAULTED",
                 "COMPLETED", "CANCELLED"}
DebtStatuses == {"OUTSTANDING", "PARTIAL", "SETTLED"}
OpenStatuses == {"SCHEDULED", "PARTIAL", "OVERDUE"}
Rows == [Installments -> [status : OpenStatuses \cup {"PAID", "WAIVED"}, paid : Nat]]
Snaps == [status : PlanStatuses \cup {"NONE", "DELETED"}, total : Int,
          debt : DebtStatuses, row : Rows, late : SUBSET Installments]

NoRows == [i \in Installments |-> [status |-> "SCHEDULED", paid |-> 0]]
NoSnap == [status |-> "NONE", total |-> 0, debt |-> "OUTSTANDING",
           row |-> NoRows, late |-> {}]

\* The computed totals are left to PlanRowMatches.
TypeOK ==
    /\ status \in PlanStatuses \cup {"NONE", "DELETED"}
    /\ total \in Int
    /\ row \in Rows
    /\ pastDue \in SUBSET Installments
    /\ owed \in Nat /\ paid \in Nat /\ balance \in Nat
    /\ debtStatus \in DebtStatuses
    /\ customer \in Int
    /\ received \in Nat /\ direct \in Nat
    /\ pc \in [Requests -> {"idle", "create", "pay", "waive", "payClaimed",
                            "waiveClaimed", "view", "marked", "patch", "delete"}]
    /\ inst \in [Requests -> Installments \cup {None}]
    /\ amount \in [Requests -> Nat]
    /\ target \in [Requests -> PlanStatuses]
    /\ snap \in [Requests -> Snaps]
    /\ fresh \in [Requests -> Rows]
    /\ waived \in [Installments -> Nat]
    /\ overlapped \in SUBSET Installments
    /\ reopened \in SUBSET Installments
    /\ outdated \in BOOLEAN

Init ==
    /\ status = "NONE" /\ total = Total
    /\ totals = [paid |-> 0, balance |-> Total]
    /\ row = NoRows /\ pastDue = {}
    /\ owed = Owed /\ paid = 0 /\ balance = Owed /\ debtStatus = "OUTSTANDING"
    /\ customer = Owed
    /\ received = 0 /\ direct = 0
    /\ pc = [r \in Requests |-> "idle"]
    /\ inst = [r \in Requests |-> None]
    /\ amount = [r \in Requests |-> 0]
    /\ target = [r \in Requests |-> "ACTIVE"]
    /\ snap = [r \in Requests |-> NoSnap]
    /\ fresh = [r \in Requests |-> NoRows]
    /\ waived = [i \in Installments |-> 0]
    /\ overlapped = {} /\ reopened = {} /\ outdated = FALSE

-----------------------------------------------------------------------------
(* Mutated forms of the definitions below, one plausible bug each; the      *)
(* specification uses none of them.                                         *)

\* the ledger is decremented without looking at its balance
LedgerTakesAnything(a) == TRUE
\* the claim goes by id, the status was checked before
ClaimsById(i) == TRUE
\* a waiver that clears the debt leaves the status as it was loaded
KeepsLoadedStatus(r, b) == snap[r].debt
\* the totals are computed from the rows as they were before the claim
WithoutOwnRow(r, mine) == fresh[r]
\* CANCELLED is derived afresh like ACTIVE
HoldsPendingAndPaused(s) == s \in {"PENDING_APPROVAL", "PAUSED"}

-----------------------------------------------------------------------------
(* The claims, and what lib/debt-plan-utils.ts computes.                    *)

Payable == {"ACTIVE", "PAUSED", "DEFAULTED"}
Exists == status \notin {"NONE", "DELETED"}

InstallmentClaims(i) == row[i].status \in OpenStatuses
LedgerClaims(a) == balance >= a
NotSettled == debtStatus # "SETTLED"

\* The statuses getPlanStatus keeps.
Held(s) == s \in {"PENDING_APPROVAL", "CANCELLED", "PAUSED"}

Overdue(rows) == {i \in Installments : rows[i].status = "OVERDUE"}

\* getPlanStatus: a quarter of the installments overdue is a default.
PlanStatus(s, b, rows) ==
    CASE Held(s) -> s
      [] ~Held(s) /\ b <= 0 -> "COMPLETED"
      [] ~Held(s) /\ b > 0 /\ Overdue(rows) # {}
           /\ 4 * Cardinality(Overdue(rows)) >= Cardinality(Installments)
         -> "DEFAULTED"
      [] OTHER -> "ACTIVE"

\* pay and waive: a plan without a balance is complete, held or not.
StatusAfter(s, b, rows) == IF b <= 0 THEN "COMPLETED" ELSE PlanStatus(s, b, rows)

\* recalculatePlanTotals
Totals(t, rows) ==
    LET sum == MapThenSumSet(LAMBDA i : rows[i].paid, Installments)
    IN  [paid |-> sum, balance |-> IF t > sum THEN t - sum ELSE 0]

\* The installments as the transaction reads them after its own update.
AfterOwn(r, mine) == [fresh[r] EXCEPT ![inst[r]] = mine]

\* The installment after a payment, and what a waiver forgives.
PaidRow(i, a) == [status |-> IF row[i].paid + a >= Due[i] THEN "PAID" ELSE "PARTIAL",
                  paid |-> row[i].paid + a]
Remainder(i) == Due[i] - row[i].paid

\* The ledger's status after a payment and after a waiver.
DebtPaid(b) == IF b = 0 THEN "SETTLED" ELSE "PARTIAL"
DebtWaived(r, b) == IF b = 0 THEN "SETTLED" ELSE snap[r].debt

Locked(i) == \E r \in Requests : pc[r] \in {"payClaimed", "waiveClaimed"} /\ inst[r] = i

-----------------------------------------------------------------------------
(* Loading. Each request reads once and checks what it read.                *)

\* markOverdueInstallments on what is loaded
Late == {i \in pastDue : row[i].status \in {"SCHEDULED", "PARTIAL"}}

\* The request keeps what it will use: the installments in "kept", and what
\* of the rest "seen" names.
Load(r, op, kept, seen) ==
    /\ pc[r] = "idle"
    /\ pc' = [pc EXCEPT ![r] = op]
    /\ snap' = [snap EXCEPT ![r] =
          [status |-> status,
           total  |-> IF "total" \in seen THEN total ELSE 0,
           debt   |-> IF "debt" \in seen THEN debtStatus ELSE "OUTSTANDING",
           row    |-> [i \in Installments |-> IF i \in kept THEN row[i] ELSE NoRows[i]],
           late   |-> IF "late" \in seen THEN Late ELSE {}]]
    /\ UNCHANGED <<plan, row, pastDue, debt, fresh, history>>

LoadCreate(r) ==
    /\ status = "NONE" /\ Total <= balance
    /\ Load(r, "create", {}, {})
    /\ UNCHANGED <<inst, amount, target>>

LoadPay(r, i) ==
    /\ status \in Payable
    /\ row[i].status \in OpenStatuses
    /\ \E a \in 1..Remainder(i) :
          a <= totals.balance /\ amount' = [amount EXCEPT ![r] = a]
    /\ inst' = [inst EXCEPT ![r] = i]
    /\ Load(r, "pay", {i}, {"total"})
    /\ UNCHANGED target

LoadWaive(r, i) ==
    /\ status \in Payable
    /\ row[i].status \in OpenStatuses
    /\ inst' = [inst EXCEPT ![r] = i]
    /\ Load(r, "waive", {}, {"total", "debt"})
    /\ UNCHANGED <<amount, target>>

\* A view that finds nothing newly overdue writes nothing.
LoadView(r) ==
    /\ Exists /\ Late # {}
    /\ Load(r, "view", Installments, {"total", "late"})
    /\ UNCHANGED <<inst, amount, target>>

LoadPatch(r, s) ==
    /\ \/ status = "ACTIVE" /\ s = "PAUSED"
       \/ status = "PAUSED" /\ s = "ACTIVE"
       \/ status \in Payable /\ s = "CANCELLED"
    /\ target' = [target EXCEPT ![r] = s]
    /\ Load(r, "patch", {}, {})
    /\ UNCHANGED <<inst, amount>>

LoadDelete(r) ==
    /\ status \in {"PENDING_APPROVAL", "CANCELLED", "COMPLETED"}
    /\ Load(r, "delete", {}, {})
    /\ UNCHANGED <<inst, amount, target>>

\* The request is over.
End(r) ==
    /\ pc' = [pc EXCEPT ![r] = "idle"]
    /\ inst' = [inst EXCEPT ![r] = None]
    /\ amount' = [amount EXCEPT ![r] = 0]
    /\ target' = [target EXCEPT ![r] = "ACTIVE"]
    /\ snap' = [snap EXCEPT ![r] = NoSnap]
    /\ fresh' = [fresh EXCEPT ![r] = NoRows]

\* It loses a claim, rolls back, or dies.
GiveUp(r) ==
    /\ pc[r] # "idle"
    /\ End(r)
    /\ UNCHANGED <<plan, row, pastDue, debt, history>>

-----------------------------------------------------------------------------
(* The plan's life.                                                         *)

Create(r) ==
    /\ pc[r] = "create" /\ status = "NONE"
    /\ status' = "PENDING_APPROVAL"
    /\ End(r)
    /\ UNCHANGED <<total, totals, row, pastDue, debt, history>>

\* By somebody else than who created it, in one guarded update.
Approve ==
    /\ status = "PENDING_APPROVAL"
    /\ status' = "ACTIVE"
    /\ UNCHANGED <<total, totals, row, pastDue, debt, request, history>>

\* The update is by id, whatever has become of the status that was checked.
Patch(r) ==
    /\ pc[r] = "patch" /\ Exists
    /\ status' = target[r]
    /\ outdated' = (outdated \/ snap[r].status # status)
    /\ End(r)
    /\ UNCHANGED <<total, totals, row, pastDue, debt, waived, overlapped, reopened>>

\* The installments go with the plan; the model leaves them as they were. A
\* delete and a transaction on an installment block each other, and the
\* database lets one of them fail.
Delete(r) ==
    /\ pc[r] = "delete" /\ Exists
    /\ \A i \in Installments : ~Locked(i)
    /\ status' = "DELETED"
    /\ End(r)
    /\ UNCHANGED <<total, totals, row, pastDue, debt, history>>

-----------------------------------------------------------------------------
(* Paying and waiving.                                                      *)

\* The claim locks the row; then all installments are read. A waiver that
\* finds nothing left to forgive is refused.
Claim(r) ==
    /\ pc[r] \in {"pay", "waive"} /\ Exists
    /\ ~Locked(inst[r])
    /\ InstallmentClaims(inst[r])
    /\ pc[r] = "waive" => Remainder(inst[r]) > 0
    /\ pc' = [pc EXCEPT ![r] = IF pc[r] = "pay" THEN "payClaimed" ELSE "waiveClaimed"]
    /\ fresh' = [fresh EXCEPT ![r] = row]
    /\ UNCHANGED <<plan, row, pastDue, debt, inst, amount, target, snap, history>>

\* What the rest of the transaction writes to the plan and to the installment:
\* totals and status of what it has read, over whatever was committed since.
Write(r, t, mine) ==
    LET rows == AfterOwn(r, mine) IN
    /\ totals' = Totals(t, rows)
    /\ status' = StatusAfter(snap[r].status, Totals(t, rows).balance, rows)
    /\ row' = [row EXCEPT ![inst[r]] = mine]
    /\ outdated' = (fresh[r] # row \/ snap[r].total # total \/ snap[r].status # status)

\* The commit of a payment, if the ledger still owes that much.
Pay(r) ==
    /\ pc[r] = "payClaimed" /\ Exists
    /\ NotSettled /\ LedgerClaims(amount[r])
    /\ Write(r, snap[r].total, PaidRow(inst[r], amount[r]))
    /\ paid' = paid + amount[r]
    /\ balance' = balance - amount[r]
    /\ debtStatus' = DebtPaid(balance - amount[r])
    /\ received' = received + amount[r]
    /\ customer' = customer - amount[r]
    /\ overlapped' = overlapped \cup
          {i \in {inst[r]} : snap[r].row[i].paid # row[i].paid}
    /\ End(r)
    /\ UNCHANGED <<total, pastDue, owed, direct, waived, reopened>>

\* The commit of a waiver. plan.totalAmount is decremented, the balance is
\* computed from the totalAmount that was loaded.
Waive(r) ==
    LET i == inst[r]
        w == Remainder(i)
    IN  /\ pc[r] = "waiveClaimed" /\ Exists
        /\ LedgerClaims(w)
        /\ Write(r, snap[r].total - w, [row[i] EXCEPT !.status = "WAIVED"])
        /\ total' = total - w
        /\ owed' = owed - w
        /\ balance' = balance - w
        /\ debtStatus' = DebtWaived(r, balance - w)
        /\ customer' = customer - w
        /\ waived' = [waived EXCEPT ![i] = @ + w]
        /\ End(r)
        /\ UNCHANGED <<pastDue, paid, received, direct, overlapped, reopened>>

\* A payment on the debt itself does not look at plans.
PayDirect(a) ==
    /\ NotSettled /\ LedgerClaims(a)
    /\ paid' = paid + a
    /\ balance' = balance - a
    /\ debtStatus' = DebtPaid(balance - a)
    /\ direct' = direct + a
    /\ customer' = customer - a
    /\ UNCHANGED <<plan, row, pastDue, owed, received, request, history>>

-----------------------------------------------------------------------------
(* Overdue marking.                                                         *)

Elapse(i) ==
    /\ i \notin pastDue
    /\ pastDue' = pastDue \cup {i}
    /\ UNCHANGED <<plan, row, debt, request, history>>

\* The list of plans marks with a condition on the status.
Sweep ==
    /\ Exists /\ Late # {}
    /\ \A i \in Late : ~Locked(i)
    /\ row' = [i \in Installments |->
                  IF i \in Late THEN [row[i] EXCEPT !.status = "OVERDUE"] ELSE row[i]]
    /\ UNCHANGED <<plan, pastDue, debt, request, history>>

\* The view of a plan marks what was late when it loaded, by id.
Mark(r) ==
    /\ pc[r] = "view" /\ Exists
    /\ \A i \in snap[r].late : ~Locked(i)
    /\ pc' = [pc EXCEPT ![r] = "marked"]
    /\ row' = [i \in Installments |->
                  IF i \in snap[r].late THEN [row[i] EXCEPT !.status = "OVERDUE"]
                                        ELSE row[i]]
    /\ reopened' = reopened \cup
          {i \in snap[r].late : row[i].status \in {"PAID", "WAIVED"}}
    /\ UNCHANGED <<plan, pastDue, debt, inst, amount, target, snap, fresh,
                   waived, overlapped, outdated>>

\* Then it writes the plan from the installments it loaded, as marked.
WriteView(r) ==
    LET marked == [i \in Installments |->
            IF i \in snap[r].late THEN [snap[r].row[i] EXCEPT !.status = "OVERDUE"]
                                  ELSE snap[r].row[i]]
    IN  /\ pc[r] = "marked" /\ Exists
        /\ totals' = Totals(snap[r].total, marked)
        /\ status' = PlanStatus(snap[r].status,
                                Totals(snap[r].total, marked).balance, marked)
        /\ outdated' = (marked # row \/ snap[r].total # total
                                     \/ snap[r].status # status)
        /\ End(r)
        /\ UNCHANGED <<total, row, pastDue, debt, waived, overlapped, reopened>>

Next ==
    \/ \E r \in Requests :
          \/ LoadCreate(r) \/ LoadView(r) \/ LoadDelete(r)
          \/ \E i \in Installments : LoadPay(r, i) \/ LoadWaive(r, i)
          \/ \E s \in PlanStatuses : LoadPatch(r, s)
          \/ Create(r) \/ Patch(r) \/ Delete(r)
          \/ Claim(r) \/ Pay(r) \/ Waive(r)
          \/ Mark(r) \/ WriteView(r) \/ GiveUp(r)
    \/ Approve
    \/ \E a \in 1..Owed : PayDirect(a)
    \/ \E i \in Installments : Elapse(i)
    \/ Sweep

Spec == Init /\ [][Next]_vars

-----------------------------------------------------------------------------
(* Safety.                                                                  *)

\* Whatever requests overlap, the debt adds up: the balance is what is owed
\* less what was paid, every payment is on record and off the customer's
\* balance, a waiver came off the plan and the debt alike, and the debt is
\* settled exactly when nothing is left. It rests on the guarded decrements.
LedgerAddsUp ==
    /\ balance = owed - paid
    /\ customer = balance
    /\ paid = received + direct
    /\ Owed - owed = Total - total
    /\ debtStatus = "SETTLED" <=> balance = 0

\* An installment is paid or waived in full, once: beyond what is due only
\* where two payments overlapped, settled and open again only where a view
\* marked it late from an older read.
InstallmentsHold ==
    \A i \in Installments \ overlapped :
        /\ row[i].paid <= Due[i]
        /\ i \notin reopened =>
              /\ row[i].status = "PAID" <=> row[i].paid = Due[i]
              /\ waived[i] = IF row[i].status = "WAIVED" THEN Due[i] - row[i].paid ELSE 0

\* What came in through the plan is what its installments say, and the plan
\* row agrees with them unless its last writer had read something that was no
\* longer true. So a plan is complete exactly when every installment is
\* settled, if it carries no interest and no overlapping request has distorted
\* it.
PlanRowMatches ==
    /\ received = MapThenSumSet(LAMBDA i : row[i].paid, Installments)
    /\ ~outdated => totals = Totals(total, row)
    /\ /\ ~outdated /\ overlapped = {} /\ reopened = {}
       /\ Exists
       /\ Total = MapThenSumSet(LAMBDA i : Due[i], Installments)
       => (status = "COMPLETED"
             <=> \A i \in Installments : row[i].status \in {"PAID", "WAIVED"})

\* Nobody revives a cancelled plan or withdraws an approval, but a request
\* that had loaded the plan before.
DecisionsStand ==
    [][\/ status = "CANCELLED" /\ status' \notin {"CANCELLED", "DELETED"}
       \/ status \notin {"NONE", "PENDING_APPROVAL"} /\ status' = "PENDING_APPROVAL"
       => \E r \in Requests : pc'[r] = "idle" /\ pc[r] # "idle"
                              /\ snap[r].status # status]_vars

=============================================================================
