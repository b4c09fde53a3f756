--------------------------- MODULE DebtPlanProofs ---------------------------
(***************************************************************************)
(* Proofs about DebtPlan for any installments, amounts and requests. The    *)
(* argument: a request that acts has loaded a plan in a payable status and  *)
(* an amount that fitted then; a claimed installment is open and locked, so *)
(* what the commit adds to it is added to what the claim saw; and the       *)
(* guarded decrements move the debt, the customer and the records together. *)
(* What the plan row says it received is the sum over its installments.     *)
(***************************************************************************)
EXTENDS DebtPlan, Sums, TLAPS

\* What a request has loaded lets it do what it is about to do, and it has not
\* seen a debt settled that is not.
Asked ==
    \A r \in Requests :
        /\ pc[r] \in {"pay", "waive", "payClaimed", "waiveClaimed"} => inst[r] \in Installments
        /\ pc[r] \in {"pay", "payClaimed"}
              => amount[r] >= 1 /\ snap[r].row[inst[r]].paid + amount[r] <= Due[inst[r]]
        /\ pc[r] \in {"pay", "waive", "payClaimed", "waiveClaimed", "patch"}
              => snap[r].status \in Payable
        /\ pc[r] = "patch" => target[r] \in {"PAUSED", "ACTIVE", "CANCELLED"}
        /\ snap[r].debt = "SETTLED" => debtStatus = "SETTLED"

\* A request between its claim and its commit.
Holding(r) == pc[r] \in {"payClaimed", "waiveClaimed"}

\* A claimed installment is open, has something left if it is to be waived,
\* and is claimed once.
Claimed ==
    \A r \in Requests :
        /\ Holding(r) => row[inst[r]].status \in OpenStatuses
        /\ pc[r] = "waiveClaimed" => row[inst[r]].paid < Due[inst[r]]
        /\ \A q \in Requests \ {r} : Holding(r) /\ Holding(q) => inst[r] # inst[q]

IInv ==
    /\ TypeOK
    /\ Asked
    /\ Claimed
    /\ LedgerAddsUp
    /\ InstallmentsHold

-----------------------------------------------------------------------------
\* The derived status is a status, and PENDING_APPROVAL or CANCELLED only
\* where it was loaded.
LEMMA StatusType ==
    ASSUME NEW s \in PlanStatuses \cup {"NONE", "DELETED"}, NEW b, NEW rows
    PROVE  /\ PlanStatus(s, b, rows) \in PlanStatuses
           /\ s \in Payable => PlanStatus(s, b, rows) \in Payable \cup {"COMPLETED"}
           /\ s = "CANCELLED" => PlanStatus(s, b, rows) = "CANCELLED"
           /\ s # "PENDING_APPROVAL" => PlanStatus(s, b, rows) # "PENDING_APPROVAL"
<1>1. CASE Held(s) BY <1>1 DEF Held, PlanStatus, PlanStatuses, Payable
<1>2. CASE ~Held(s)
  <2>1. PlanStatus(s, b, rows) \in {"COMPLETED", "DEFAULTED", "ACTIVE"}
    BY <1>2 DEF PlanStatus
  <2>. QED BY <1>2, <2>1 DEF Held, PlanStatuses, Payable
<1>. QED BY <1>1, <1>2

\* The same for the status after a payment or a waiver.
LEMMA StatusAfterType ==
    ASSUME NEW s \in Payable, NEW b, NEW rows
    PROVE  StatusAfter(s, b, rows) \in Payable \cup {"COMPLETED"}
<1>1. s \in PlanStatuses \cup {"NONE", "DELETED"} BY DEF Payable, PlanStatuses
<1>2. PlanStatus(s, b, rows) \in Payable \cup {"COMPLETED"} BY <1>1, StatusType
<1>. QED BY <1>2 DEF StatusAfter

\* No installment is paid at first.
LEMMA NoRowsType ==
    /\ NoRows \in Rows
    /\ NoSnap \in Snaps
    /\ \A i \in Installments : NoRows[i] = [status |-> "SCHEDULED", paid |-> 0]
BY DEF NoRows, NoSnap, Rows, Snaps, OpenStatuses, DebtStatuses

\* What a load leaves behind.
LEMMA LoadEffect ==
    ASSUME TypeOK, NEW r \in Requests, NEW op, NEW kept, NEW seen,
           Load(r, op, kept, seen)
    PROVE  /\ pc[r] = "idle"
           /\ pc' = [pc EXCEPT ![r] = op]
           /\ snap' \in [Requests -> Snaps]
           /\ \A q \in Requests \ {r} : snap'[q] = snap[q]
           /\ snap'[r].status = status
           /\ snap'[r].debt = "SETTLED" => debtStatus = "SETTLED"
           /\ \A i \in Installments \cap kept : snap'[r].row[i] = row[i]
           /\ UNCHANGED <<plan, row, pastDue, debt, fresh, history>>
<1>. DEFINE new == [status |-> status,
           total  |-> IF "total" \in seen THEN total ELSE 0,
           debt   |-> IF "debt" \in seen THEN debtStatus ELSE "OUTSTANDING",
           row    |-> [i \in Installments |-> IF i \in kept THEN row[i] ELSE NoRows[i]],
           late   |-> IF "late" \in seen THEN Late ELSE {}]
<1>1. new.row \in Rows BY NoRowsType DEF TypeOK, Rows
<1>2. new.late \in SUBSET Installments BY DEF TypeOK, Late
<1>3. new \in Snaps BY <1>1, <1>2 DEF TypeOK, Snaps, DebtStatuses
<1>4. snap' = [snap EXCEPT ![r] = new] /\ snap \in [Requests -> Snaps]
  BY DEF Load, TypeOK
<1>5. snap'[r] = new /\ \A q \in Requests \ {r} : snap'[q] = snap[q] BY <1>4
<1>6. snap' \in [Requests -> Snaps] BY <1>3, <1>4
<1>7. \A i \in Installments \cap kept : new.row[i] = row[i] OBVIOUS
<1>8. new.debt = "SETTLED" => debtStatus = "SETTLED" OBVIOUS
<1>9. new.status = status OBVIOUS
<1>. HIDE DEF new
<1>. QED BY <1>5, <1>6, <1>7, <1>8, <1>9 DEF Load

\* What the end of a request leaves behind.
LEMMA EndEffect ==
    ASSUME TypeOK, NEW r \in Requests, End(r)
    PROVE  /\ pc'[r] = "idle" /\ snap'[r] = NoSnap
           /\ \A q \in Requests \ {r} :
                 /\ pc'[q] = pc[q] /\ inst'[q] = inst[q] /\ amount'[q] = amount[q]
                 /\ target'[q] = target[q] /\ snap'[q] = snap[q]
           /\ pc' \in [Requests -> {"idle", "create", "pay", "waive", "payClaimed",
                                    "waiveClaimed", "view", "marked", "patch", "delete"}]
           /\ inst' \in [Requests -> Installments \cup {None}]
           /\ amount' \in [Requests -> Nat]
           /\ target' \in [Requests -> PlanStatuses]
           /\ snap' \in [Requests -> Snaps]
           /\ fresh' \in [Requests -> Rows]
BY NoRowsType DEF End, TypeOK, PlanStatuses

-----------------------------------------------------------------------------
\* The initial state has all parts of the invariant.
LEMMA InitInv == Init => IInv
<1>. SUFFICES ASSUME Init PROVE IInv OBVIOUS
<1>. USE DebtAssumption, NoRowsType DEF Init
<1>1. TypeOK
  <2>1. total \in Int /\ owed \in Nat /\ paid \in Nat /\ balance \in Nat
        /\ customer \in Int /\ received \in Nat /\ direct \in Nat
    OBVIOUS
  <2>2. /\ snap \in [Requests -> Snaps] /\ fresh \in [Requests -> Rows]
        /\ target \in [Requests -> PlanStatuses]
    BY DEF PlanStatuses
  <2>3. /\ status \in PlanStatuses \cup {"NONE", "DELETED"} /\ row \in Rows
        /\ debtStatus \in DebtStatuses
    BY DEF DebtStatuses
  <2>4. /\ pc \in [Requests -> {"idle", "create", "pay", "waive", "payClaimed",
                                 "waiveClaimed", "view", "marked", "patch", "delete"}]
        /\ inst \in [Requests -> Installments \cup {None}]
        /\ amount \in [Requests -> Nat]
        /\ waived \in [Installments -> Nat]
    OBVIOUS
  <2>5. /\ pastDue \in SUBSET Installments /\ overlapped \in SUBSET Installments
        /\ reopened \in SUBSET Installments /\ outdated \in BOOLEAN
    OBVIOUS
  <2>. QED BY ONLY <2>1, <2>2, <2>3, <2>4, <2>5 DEF TypeOK
<1>2. Asked BY DEF Asked, NoSnap
<1>3. Claimed BY DEF Claimed, Holding
<1>4. LedgerAddsUp
  <2>1. Owed # 0 BY DEF Init
  <2>. QED BY <2>1 DEF LedgerAddsUp
<1>5. InstallmentsHold
  <2>1. ASSUME NEW i \in Installments
        PROVE  row[i].paid = 0 /\ row[i].status = "SCHEDULED" /\ waived[i] = 0
               /\ Due[i] \in Nat /\ Due[i] # 0
    OBVIOUS
  <2>. QED BY <2>1 DEF InstallmentsHold
<1>. QED BY <1>1, <1>2, <1>3, <1>4, <1>5 DEF IInv

-----------------------------------------------------------------------------
\* What an installment's row may hold.
RowType == [status : OpenStatuses \cup {"PAID", "WAIVED"}, paid : Nat]

\* The commit of a payment: it was asked for, it fits the debt, and the
\* installment grows by it.
LEMMA PayEffect ==
    ASSUME TypeOK, Asked, Claimed, NEW r \in Requests, Pay(r)
    PROVE  /\ inst[r] \in Installments
           /\ amount[r] \in Nat /\ amount[r] >= 1 /\ amount[r] <= balance
           /\ Holding(r) /\ debtStatus # "SETTLED"
           /\ status' \in Payable \cup {"COMPLETED"}
           /\ snap[r].status # "CANCELLED"
           /\ row' = [row EXCEPT ![inst[r]] = PaidRow(inst[r], amount[r])]
           /\ PaidRow(inst[r], amount[r]) \in RowType
           /\ outdated' \in BOOLEAN
           /\ End(r)
<1>1. /\ inst[r] \in Installments /\ amount[r] >= 1 /\ amount[r] \in Nat
      /\ snap[r].status \in Payable /\ Holding(r)
  BY DEF Pay, Asked, Holding, TypeOK
<1>2. status' \in Payable \cup {"COMPLETED"}
  <2>1. \E b, rows : status' = StatusAfter(snap[r].status, b, rows) BY DEF Pay, Write
  <2>. QED BY <1>1, <2>1, StatusAfterType
<1>3. row[inst[r]] \in RowType /\ Due[inst[r]] \in Nat
  BY <1>1, DebtAssumption DEF TypeOK, Rows, RowType
<1>4. PaidRow(inst[r], amount[r]) \in RowType
  BY <1>1, <1>3 DEF PaidRow, RowType, OpenStatuses
<1>5. /\ row' = [row EXCEPT ![inst[r]] = PaidRow(inst[r], amount[r])]
      /\ outdated' \in BOOLEAN
  BY DEF Pay, Write
<1>6. amount[r] <= balance /\ debtStatus # "SETTLED" /\ End(r)
  BY <1>1 DEF Pay, LedgerClaims, NotSettled, TypeOK
<1>7. snap[r].status # "CANCELLED" BY <1>1 DEF Payable
<1>. QED BY <1>1, <1>2, <1>4, <1>5, <1>6, <1>7

\* The commit of a waiver: what it forgives is what the installment lacks.
LEMMA WaiveEffect ==
    ASSUME TypeOK, Asked, Claimed, NEW r \in Requests, Waive(r)
    PROVE  /\ inst[r] \in Installments
           /\ Remainder(inst[r]) \in Nat /\ Remainder(inst[r]) >= 1
           /\ Remainder(inst[r]) <= balance
           /\ Holding(r)
           /\ status' \in Payable \cup {"COMPLETED"}
           /\ snap[r].status # "CANCELLED"
           /\ row' = [row EXCEPT ![inst[r]] =
                        [status |-> "WAIVED", paid |-> row[inst[r]].paid]]
           /\ outdated' \in BOOLEAN
           /\ End(r)
<1>1. /\ inst[r] \in Installments /\ snap[r].status \in Payable
      /\ Holding(r) /\ row[inst[r]].paid < Due[inst[r]]
  BY DEF Waive, Asked, Claimed, Holding
<1>2. status' \in Payable \cup {"COMPLETED"}
  <2>1. \E b, rows : status' = StatusAfter(snap[r].status, b, rows) BY DEF Waive, Write
  <2>. QED BY <1>1, <2>1, StatusAfterType
<1>3. row[inst[r]] \in RowType /\ Due[inst[r]] \in Nat
  BY <1>1, DebtAssumption DEF TypeOK, Rows, RowType
<1>4. Remainder(inst[r]) \in Nat /\ Remainder(inst[r]) >= 1
  BY <1>1, <1>3 DEF Remainder, RowType
<1>5. /\ row' = [row EXCEPT ![inst[r]] = [row[inst[r]] EXCEPT !.status = "WAIVED"]]
      /\ outdated' \in BOOLEAN
  BY DEF Waive, Write
<1>6. [row[inst[r]] EXCEPT !.status = "WAIVED"]
        = [status |-> "WAIVED", paid |-> row[inst[r]].paid]
  BY <1>3 DEF RowType
<1>7. Remainder(inst[r]) <= balance /\ End(r)
  BY <1>4 DEF Waive, LedgerClaims, TypeOK
<1>8. snap[r].status # "CANCELLED" BY <1>1 DEF Payable
<1>. QED BY <1>1, <1>2, <1>4, <1>5, <1>6, <1>7, <1>8

\* Marking installments OVERDUE changes the status of those and nothing else.
LEMMA MarkEffect ==
    ASSUME TypeOK, NEW L \in SUBSET Installments,
           row' = [i \in Installments |->
                      IF i \in L THEN [row[i] EXCEPT !.status = "OVERDUE"] ELSE row[i]]
    PROVE  /\ row' \in Rows
           /\ \A i \in Installments : row'[i].paid = row[i].paid
           /\ \A i \in L : row'[i].status = "OVERDUE"
           /\ \A i \in Installments \ L : row'[i] = row[i]
<1>1. ASSUME NEW i \in Installments
      PROVE  /\ row[i] \in RowType
             /\ [row[i] EXCEPT !.status = "OVERDUE"] \in RowType
             /\ [row[i] EXCEPT !.status = "OVERDUE"].paid = row[i].paid
             /\ [row[i] EXCEPT !.status = "OVERDUE"].status = "OVERDUE"
  BY DEF TypeOK, Rows, RowType, OpenStatuses
<1>2. row' \in [Installments -> RowType] BY <1>1
<1>3. ASSUME NEW i \in Installments
      PROVE row'[i].paid = row[i].paid /\ (i \in L => row'[i].status = "OVERDUE")
  BY <1>1
<1>. QED BY <1>2, <1>3 DEF Rows, RowType

\* What each load does is a load, of the plan as it stands.
LEMMA LoadsLoad ==
    ASSUME NEW r \in Requests,
           \/ LoadCreate(r) \/ LoadView(r) \/ LoadDelete(r)
           \/ \E i \in Installments : LoadPay(r, i) \/ LoadWaive(r, i)
           \/ \E s \in PlanStatuses : LoadPatch(r, s)
    PROVE  \E op \in {"create", "view", "delete", "pay", "waive", "patch"} :
              \E kept, seen : Load(r, op, kept, seen)
BY DEF LoadCreate, LoadView, LoadDelete, LoadPay, LoadWaive, LoadPatch

-----------------------------------------------------------------------------
\* No step breaks a type: the debt never goes below zero because the guarded
\* decrement fails first.
LEMMA NextType == ASSUME IInv, [Next]_vars PROVE TypeOK'
<1>. USE DEF IInv
<1>. DEFINE Stages == {"idle", "create", "pay", "waive", "payClaimed",
                       "waiveClaimed", "view", "marked", "patch", "delete"}
<1>1. ASSUME NEW r \in Requests, NEW op \in {"create", "view", "delete", "pay", "waive", "patch"},
             NEW kept, NEW seen, Load(r, op, kept, seen),
             inst' \in [Requests -> Installments \cup {None}],
             amount' \in [Requests -> Nat],
             target' \in [Requests -> PlanStatuses]
      PROVE  TypeOK'
  <2>1. /\ snap' \in [Requests -> Snaps]
        /\ UNCHANGED <<plan, row, pastDue, debt, fresh, history>>
        /\ pc' = [pc EXCEPT ![r] = op]
    BY <1>1, LoadEffect
  <2>2. pc' \in [Requests -> Stages] BY <2>1 DEF TypeOK
  <2>. QED BY <1>1, <2>1, <2>2 DEF TypeOK, plan, debt, history
<1>2. ASSUME NEW r \in Requests, LoadCreate(r) \/ LoadView(r) \/ LoadDelete(r)
      PROVE  TypeOK'
  <2>1. UNCHANGED <<inst, amount, target>>
    BY <1>2 DEF LoadCreate, LoadView, LoadDelete
  <2>2. PICK op \in {"create", "view", "delete"} :
           \E kept, seen : Load(r, op, kept, seen)
    BY <1>2 DEF LoadCreate, LoadView, LoadDelete
  <2>. QED BY <1>1, <2>1, <2>2 DEF TypeOK
<1>3. ASSUME NEW r \in Requests, NEW i \in Installments, LoadPay(r, i) PROVE TypeOK'
  <2>1. PICK a \in 1..Remainder(i) : amount' = [amount EXCEPT ![r] = a]
    BY <1>3 DEF LoadPay
  <2>2. a \in Nat
    <3>1. Remainder(i) \in Int BY DebtAssumption DEF Remainder, TypeOK, Rows
    <3>. QED BY <2>1, <3>1
  <2>3. /\ inst' \in [Requests -> Installments \cup {None}]
        /\ amount' \in [Requests -> Nat]
        /\ target' \in [Requests -> PlanStatuses]
    BY <1>3, <2>1, <2>2 DEF LoadPay, TypeOK
  <2>. QED BY <1>1, <1>3, <2>3 DEF LoadPay
<1>4. ASSUME NEW r \in Requests, NEW i \in Installments, LoadWaive(r, i) PROVE TypeOK'
  <2>1. /\ inst' \in [Requests -> Installments \cup {None}]
        /\ amount' \in [Requests -> Nat]
        /\ target' \in [Requests -> PlanStatuses]
    BY <1>4 DEF LoadWaive, TypeOK
  <2>. QED BY <1>1, <1>4, <2>1 DEF LoadWaive
<1>5. ASSUME NEW r \in Requests, NEW s \in PlanStatuses, LoadPatch(r, s) PROVE TypeOK'
  <2>1. /\ inst' \in [Requests -> Installments \cup {None}]
        /\ amount' \in [Requests -> Nat]
        /\ target' \in [Requests -> PlanStatuses]
    BY <1>5 DEF LoadPatch, TypeOK
  <2>. QED BY <1>1, <1>5, <2>1 DEF LoadPatch
<1>6. ASSUME NEW r \in Requests, End(r),
             status' \in PlanStatuses \cup {"NONE", "DELETED"}, total' \in Int,
             row' \in Rows, UNCHANGED pastDue,
             owed' \in Nat, paid' \in Nat, balance' \in Nat,
             debtStatus' \in DebtStatuses, customer' \in Int,
             received' \in Nat, direct' \in Nat,
             waived' \in [Installments -> Nat], overlapped' \in SUBSET Installments,
             reopened' \in SUBSET Installments, outdated' \in BOOLEAN
      PROVE  TypeOK'
  BY <1>6, EndEffect DEF TypeOK
<1>7. ASSUME NEW r \in Requests, Create(r) \/ Patch(r) \/ Delete(r) \/ GiveUp(r)
      PROVE  TypeOK'
  <2>1. /\ status' \in PlanStatuses \cup {"NONE", "DELETED"}
        /\ outdated' \in BOOLEAN
    BY <1>7 DEF Create, Patch, Delete, GiveUp, TypeOK, PlanStatuses, plan, history
  <2>2. /\ End(r)
        /\ UNCHANGED <<total, row, pastDue, debt, waived, overlapped, reopened>>
    BY <1>7 DEF Create, Patch, Delete, GiveUp, plan, history
  <2>. QED BY <1>6, <2>1, <2>2 DEF TypeOK, debt
<1>8. CASE Approve BY <1>8 DEF Approve, TypeOK, PlanStatuses, debt, request, history
<1>9. ASSUME NEW r \in Requests, Claim(r) PROVE TypeOK'
  BY <1>9 DEF Claim, TypeOK, plan, debt, history
<1>10. ASSUME NEW r \in Requests, Pay(r) PROVE TypeOK'
  <2>1. /\ inst[r] \in Installments /\ amount[r] \in Nat /\ amount[r] <= balance
        /\ status' \in Payable \cup {"COMPLETED"} /\ End(r) /\ outdated' \in BOOLEAN
        /\ row' = [row EXCEPT ![inst[r]] = PaidRow(inst[r], amount[r])]
        /\ PaidRow(inst[r], amount[r]) \in RowType
    BY <1>10, PayEffect
  <2>2. row' \in Rows BY <2>1 DEF TypeOK, Rows, RowType
  <2>3. /\ paid' = paid + amount[r] /\ balance' = balance - amount[r]
        /\ received' = received + amount[r] /\ customer' = customer - amount[r]
        /\ debtStatus' \in DebtStatuses
        /\ UNCHANGED <<total, pastDue, owed, direct, waived, reopened>>
        /\ overlapped' \in SUBSET Installments
    BY <1>10, <2>1 DEF Pay, DebtPaid, DebtStatuses, TypeOK
  <2>4. paid' \in Nat /\ balance' \in Nat /\ received' \in Nat /\ customer' \in Int
    BY <2>1, <2>3 DEF TypeOK
  <2>5. status' \in PlanStatuses \cup {"NONE", "DELETED"}
    BY <2>1 DEF Payable, PlanStatuses
  <2>. QED BY <1>6, <2>1, <2>2, <2>3, <2>4, <2>5 DEF TypeOK
<1>11. ASSUME NEW r \in Requests, Waive(r) PROVE TypeOK'
  <2>. DEFINE w == Remainder(inst[r])
  <2>1. /\ inst[r] \in Installments /\ w \in Nat /\ w <= balance
        /\ status' \in Payable \cup {"COMPLETED"} /\ End(r) /\ outdated' \in BOOLEAN
        /\ row' = [row EXCEPT ![inst[r]] = [status |-> "WAIVED", paid |-> row[inst[r]].paid]]
    BY <1>11, WaiveEffect
  <2>2. row' \in Rows
    <3>1. [status |-> "WAIVED", paid |-> row[inst[r]].paid] \in RowType
      BY <2>1 DEF TypeOK, Rows, RowType
    <3>. QED BY <2>1, <3>1 DEF TypeOK, Rows, RowType
  <2>3. /\ total' = total - w /\ owed' = owed - w /\ balance' = balance - w
        /\ customer' = customer - w
        /\ waived' = [waived EXCEPT ![inst[r]] = @ + w]
        /\ UNCHANGED <<pastDue, paid, received, direct, overlapped, reopened>>
    BY <1>11 DEF Waive
  <2>4. debtStatus' \in DebtStatuses
    BY <1>11 DEF Waive, DebtWaived, TypeOK, Snaps, DebtStatuses
  <2>5. w <= owed BY <2>1 DEF LedgerAddsUp, TypeOK
  <2>. HIDE DEF w
  <2>6. /\ total' \in Int /\ owed' \in Nat /\ balance' \in Nat /\ customer' \in Int
        /\ waived' \in [Installments -> Nat]
    BY <2>1, <2>3, <2>5 DEF TypeOK
  <2>7. status' \in PlanStatuses \cup {"NONE", "DELETED"}
    BY <2>1 DEF Payable, PlanStatuses
  <2>. QED BY <1>6, <2>1, <2>2, <2>3, <2>4, <2>6, <2>7 DEF TypeOK
<1>12. ASSUME NEW a \in 1..Owed, PayDirect(a) PROVE TypeOK'
  <2>1. a \in Nat /\ a <= balance BY <1>12, DebtAssumption DEF PayDirect, LedgerClaims, TypeOK
  <2>2. /\ paid' \in Nat /\ balance' \in Nat /\ direct' \in Nat /\ customer' \in Int
        /\ debtStatus' \in DebtStatuses
    BY <1>12, <2>1 DEF PayDirect, DebtPaid, DebtStatuses, TypeOK
  <2>. QED BY <1>12, <2>2 DEF PayDirect, TypeOK, plan, request, history
<1>13. ASSUME NEW i \in Installments, Elapse(i) PROVE TypeOK'
  BY <1>13 DEF Elapse, TypeOK, plan, debt, request, history
<1>14. CASE Sweep
  <2>1. Late \in SUBSET Installments BY DEF Late, TypeOK
  <2>2. row' \in Rows BY <1>14, <2>1, MarkEffect DEF Sweep
  <2>. QED BY <1>14, <2>2 DEF Sweep, TypeOK, plan, debt, request, history
<1>15. ASSUME NEW r \in Requests, Mark(r) PROVE TypeOK'
  <2>1. snap[r].late \in SUBSET Installments BY DEF TypeOK, Snaps
  <2>2. row' \in Rows BY <1>15, <2>1, MarkEffect DEF Mark
  <2>3. /\ pc' \in [Requests -> Stages] /\ reopened' \in SUBSET Installments
        /\ UNCHANGED <<plan, pastDue, debt, inst, amount, target, snap, fresh,
                       waived, overlapped, outdated>>
    BY <1>15, <2>1 DEF Mark, TypeOK
  <2>. QED BY <2>2, <2>3 DEF TypeOK, plan, debt
<1>16. ASSUME NEW r \in Requests, WriteView(r) PROVE TypeOK'
  <2>1. \E b, rows : status' = PlanStatus(snap[r].status, b, rows) BY <1>16 DEF WriteView
  <2>2. snap[r].status \in PlanStatuses \cup {"NONE", "DELETED"} BY DEF TypeOK, Snaps
  <2>3. status' \in PlanStatuses BY <2>1, <2>2, StatusType
  <2>4. /\ End(r) /\ outdated' \in BOOLEAN
        /\ UNCHANGED <<total, row, pastDue, debt, waived, overlapped, reopened>>
    BY <1>16 DEF WriteView
  <2>. QED BY <1>6, <2>3, <2>4 DEF TypeOK, debt
<1>17. CASE UNCHANGED vars
  BY <1>17 DEF vars, TypeOK, plan, debt, request, history
<1>. QED BY <1>2, <1>3, <1>4, <1>5, <1>7, <1>8, <1>9, <1>10, <1>11, <1>12, <1>13,
            <1>14, <1>15, <1>16, <1>17 DEF Next

\* A settled debt stays settled: nothing of it is left to pay or to waive.
LEMMA Settled ==
    ASSUME IInv, [Next]_vars, debtStatus = "SETTLED"
    PROVE  debtStatus' = "SETTLED"
<1>. USE DEF IInv
<1>1. balance = 0 BY DEF LedgerAddsUp
<1>2. ASSUME NEW r \in Requests, Pay(r) PROVE FALSE BY <1>2, PayEffect
<1>3. ASSUME NEW r \in Requests, Waive(r) PROVE FALSE
  <2>1. PICK w \in Nat : w >= 1 /\ w <= balance BY <1>3, WaiveEffect
  <2>. QED BY ONLY <1>1, <2>1
<1>4. ASSUME NEW a \in 1..Owed, PayDirect(a) PROVE FALSE
  BY <1>4 DEF PayDirect, NotSettled
<1>5. ASSUME NEW r \in Requests,
             \/ LoadCreate(r) \/ LoadView(r) \/ LoadDelete(r)
             \/ \E i \in Installments : LoadPay(r, i) \/ LoadWaive(r, i)
             \/ \E s \in PlanStatuses : LoadPatch(r, s)
      PROVE UNCHANGED debt
  <2>1. PICK op \in {"create", "view", "delete", "pay", "waive", "patch"} :
           \E kept, seen : Load(r, op, kept, seen)
    BY <1>5, LoadsLoad
  <2>. QED BY <2>1 DEF Load
<1>6. ASSUME NEW r \in Requests,
             Create(r) \/ Patch(r) \/ Delete(r) \/ Claim(r) \/ Mark(r) \/ WriteView(r) \/ GiveUp(r)
      PROVE UNCHANGED debt
  BY <1>6 DEF Create, Patch, Delete, Claim, Mark, WriteView, GiveUp
<1>7. Approve \/ Sweep \/ (\E i \in Installments : Elapse(i)) => UNCHANGED debt
  BY DEF Approve, Sweep, Elapse
<1>8. UNCHANGED vars => UNCHANGED debt BY DEF vars
<1>9. UNCHANGED debt
  BY <1>2, <1>3, <1>4, <1>5, <1>6, <1>7, <1>8 DEF Next
<1>. QED BY <1>9 DEF debt

\* What a request may be about to do, one request at a time.
AskedBy(r) ==
    /\ pc[r] \in {"pay", "waive", "payClaimed", "waiveClaimed"} => inst[r] \in Installments
    /\ pc[r] \in {"pay", "payClaimed"}
          => amount[r] >= 1 /\ snap[r].row[inst[r]].paid + amount[r] <= Due[inst[r]]
    /\ pc[r] \in {"pay", "waive", "payClaimed", "waiveClaimed", "patch"}
          => snap[r].status \in Payable
    /\ pc[r] = "patch" => target[r] \in {"PAUSED", "ACTIVE", "CANCELLED"}
    /\ snap[r].debt = "SETTLED" => debtStatus = "SETTLED"

\* A request that a step leaves alone still has what it asked for.
LEMMA AskedStays ==
    ASSUME IInv, [Next]_vars, NEW q \in Requests,
           pc'[q] = pc[q], inst'[q] = inst[q], amount'[q] = amount[q],
           target'[q] = target[q], snap'[q] = snap[q]
    PROVE  AskedBy(q)'
<1>1. AskedBy(q) BY DEF IInv, Asked, AskedBy
<1>2. debtStatus = "SETTLED" => debtStatus' = "SETTLED" BY Settled
<1>. QED BY ONLY <1>1, <1>2, pc'[q] = pc[q], inst'[q] = inst[q], amount'[q] = amount[q],
                 target'[q] = target[q], snap'[q] = snap[q] DEF AskedBy

\* No step takes from a request what it acts on.
LEMMA NextAsked == ASSUME IInv, [Next]_vars PROVE Asked'
<1>. SUFFICES ASSUME NEW q \in Requests PROVE AskedBy(q)' BY DEF Asked, AskedBy
<1>. USE DEF IInv
<1>1. ASSUME NEW r \in Requests, End(r) PROVE AskedBy(q)'
  <2>1. CASE q = r
    <3>1. pc'[q] = "idle" /\ snap'[q] = NoSnap BY <1>1, <2>1, EndEffect
    <3>. QED BY <3>1 DEF AskedBy, NoSnap
  <2>2. CASE q # r BY <1>1, <2>2, EndEffect, AskedStays
  <2>. QED BY <2>1, <2>2
<1>2. ASSUME NEW r \in Requests, r # q, NEW op, NEW kept, NEW seen, Load(r, op, kept, seen),
             inst'[q] = inst[q], amount'[q] = amount[q], target'[q] = target[q]
      PROVE AskedBy(q)'
  BY <1>2, LoadEffect, AskedStays DEF TypeOK
<1>3. ASSUME LoadCreate(q) \/ LoadView(q) \/ LoadDelete(q) PROVE AskedBy(q)'
  <2>1. PICK op \in {"create", "view", "delete"} :
           \E kept, seen : Load(q, op, kept, seen)
    BY <1>3 DEF LoadCreate, LoadView, LoadDelete
  <2>2. pc'[q] = op /\ (snap'[q].debt = "SETTLED" => debtStatus = "SETTLED")
    BY <2>1, LoadEffect DEF TypeOK
  <2>3. debtStatus' = debtStatus BY <2>1 DEF Load, debt
  <2>. QED BY <2>2, <2>3 DEF AskedBy
<1>4. ASSUME NEW i \in Installments, LoadPay(q, i) PROVE AskedBy(q)'
  <2>1. PICK a \in 1..Remainder(i) : amount' = [amount EXCEPT ![q] = a]
    BY <1>4 DEF LoadPay
  <2>2. /\ status \in Payable /\ inst' = [inst EXCEPT ![q] = i]
        /\ Load(q, "pay", {i}, {"total"})
    BY <1>4 DEF LoadPay
  <2>3. /\ pc'[q] = "pay" /\ snap'[q].status = status
        /\ snap'[q].row[i] = row[i]
        /\ snap'[q].debt = "SETTLED" => debtStatus = "SETTLED"
    BY <2>2, LoadEffect DEF TypeOK
  <2>4. a >= 1 /\ row[i].paid + a <= Due[i]
    <3>1. row[i].paid \in Nat /\ Due[i] \in Nat BY DebtAssumption DEF TypeOK, Rows
    <3>2. a \in 1..(Due[i] - row[i].paid) BY DEF Remainder
    <3>. QED BY ONLY <3>1, <3>2
  <2>5. inst'[q] = i /\ amount'[q] = a BY <2>1, <2>2 DEF TypeOK
  <2>6. debtStatus' = debtStatus BY <2>2 DEF Load, debt
  <2>. QED BY <2>2, <2>3, <2>4, <2>5, <2>6 DEF AskedBy
<1>5. ASSUME NEW i \in Installments, LoadWaive(q, i) PROVE AskedBy(q)'
  <2>1. /\ status \in Payable /\ inst' = [inst EXCEPT ![q] = i]
        /\ Load(q, "waive", {}, {"total", "debt"})
    BY <1>5 DEF LoadWaive
  <2>2. /\ pc'[q] = "waive" /\ snap'[q].status = status
        /\ snap'[q].debt = "SETTLED" => debtStatus = "SETTLED"
    BY <2>1, LoadEffect DEF TypeOK
  <2>3. inst'[q] = i BY <2>1 DEF TypeOK
  <2>4. debtStatus' = debtStatus BY <2>1 DEF Load, debt
  <2>. QED BY <2>1, <2>2, <2>3, <2>4 DEF AskedBy
<1>6. ASSUME NEW s \in PlanStatuses, LoadPatch(q, s) PROVE AskedBy(q)'
  <2>1. /\ status \in Payable /\ s \in {"PAUSED", "ACTIVE", "CANCELLED"}
        /\ target' = [target EXCEPT ![q] = s]
        /\ Load(q, "patch", {}, {})
    BY <1>6 DEF LoadPatch, Payable
  <2>2. /\ pc'[q] = "patch" /\ snap'[q].status = status
        /\ snap'[q].debt = "SETTLED" => debtStatus = "SETTLED"
    BY <2>1, LoadEffect DEF TypeOK
  <2>3. target'[q] = s BY <2>1 DEF TypeOK
  <2>4. debtStatus' = debtStatus BY <2>1 DEF Load, debt
  <2>. QED BY <2>1, <2>2, <2>3, <2>4 DEF AskedBy
<1>7. ASSUME NEW r \in Requests, r # q,
             \/ LoadCreate(r) \/ LoadView(r) \/ LoadDelete(r)
             \/ \E i \in Installments : LoadPay(r, i) \/ LoadWaive(r, i)
             \/ \E s \in PlanStatuses : LoadPatch(r, s)
      PROVE AskedBy(q)'
  <2>1. inst'[q] = inst[q] /\ amount'[q] = amount[q] /\ target'[q] = target[q]
    BY <1>7 DEF LoadCreate, LoadView, LoadDelete, LoadPay, LoadWaive, LoadPatch, TypeOK
  <2>2. PICK op \in {"create", "view", "delete", "pay", "waive", "patch"} :
           \E kept, seen : Load(r, op, kept, seen)
    BY <1>7, LoadsLoad
  <2>. QED BY <1>2, <1>7, <2>1, <2>2
<1>8. ASSUME NEW r \in Requests,
             \/ Create(r) \/ Patch(r) \/ Delete(r) \/ GiveUp(r)
             \/ Pay(r) \/ Waive(r) \/ WriteView(r)
      PROVE AskedBy(q)'
  <2>1. End(r) BY <1>8 DEF Create, Patch, Delete, GiveUp, Pay, Waive, WriteView
  <2>. QED BY <1>1, <2>1
<1>9. ASSUME NEW r \in Requests, Claim(r) PROVE AskedBy(q)'
  <2>1. /\ inst' = inst /\ amount' = amount /\ target' = target /\ snap' = snap
        /\ pc[r] \in {"pay", "waive"}
        /\ pc' = [pc EXCEPT ![r] = IF pc[r] = "pay" THEN "payClaimed" ELSE "waiveClaimed"]
    BY <1>9 DEF Claim
  <2>2. CASE q = r
    <3>1. pc'[q] = IF pc[q] = "pay" THEN "payClaimed" ELSE "waiveClaimed"
      BY <2>1, <2>2 DEF TypeOK
    <3>2. AskedBy(q) BY DEF Asked, AskedBy
    <3>3. debtStatus = "SETTLED" => debtStatus' = "SETTLED" BY Settled
    <3>. QED BY ONLY <2>1, <2>2, <3>1, <3>2, <3>3 DEF AskedBy
  <2>3. CASE q # r
    <3>1. pc'[q] = pc[q] BY <2>1, <2>3 DEF TypeOK
    <3>. QED BY <2>1, <3>1, AskedStays
  <2>. QED BY <2>2, <2>3
<1>10. ASSUME NEW r \in Requests, Mark(r) PROVE AskedBy(q)'
  <2>1. /\ inst' = inst /\ amount' = amount /\ target' = target /\ snap' = snap
        /\ pc' = [pc EXCEPT ![r] = "marked"]
    BY <1>10 DEF Mark
  <2>2. CASE q = r
    <3>1. pc'[q] = "marked" BY <2>1, <2>2 DEF TypeOK
    <3>2. snap[q].debt = "SETTLED" => debtStatus = "SETTLED" BY DEF Asked
    <3>3. debtStatus = "SETTLED" => debtStatus' = "SETTLED" BY Settled
    <3>. QED BY ONLY <2>1, <3>1, <3>2, <3>3 DEF AskedBy
  <2>3. CASE q # r
    <3>1. pc'[q] = pc[q] BY <2>1, <2>3 DEF TypeOK
    <3>. QED BY <2>1, <3>1, AskedStays
  <2>. QED BY <2>2, <2>3
<1>11. ASSUME UNCHANGED request PROVE AskedBy(q)'
  BY <1>11, AskedStays DEF request
<1>12. \/ Approve \/ Sweep \/ (\E i \in Installments : Elapse(i))
       \/ (\E a \in 1..Owed : PayDirect(a)) \/ UNCHANGED vars
       => UNCHANGED request
  BY DEF Approve, Sweep, Elapse, PayDirect, vars
<1>. QED BY <1>3, <1>4, <1>5, <1>6, <1>7, <1>8, <1>9, <1>10, <1>11, <1>12 DEF Next

-----------------------------------------------------------------------------
\* A step that leaves stages, installments and rows of all claims alone, and
\* makes no new one, keeps them.
LEMMA ClaimsStay ==
    ASSUME TypeOK, Asked, Claimed, TypeOK',
           \A r \in Requests : Holding(r)' => pc'[r] = pc[r] /\ inst'[r] = inst[r],
           \A r \in Requests : Holding(r)' =>
              row'[inst[r]].paid = row[inst[r]].paid
                /\ (row[inst[r]].status \in OpenStatuses => row'[inst[r]].status \in OpenStatuses)
    PROVE  Claimed'
<1>1. ASSUME NEW r \in Requests
      PROVE  /\ Holding(r)' => row'[inst'[r]].status \in OpenStatuses
             /\ pc'[r] = "waiveClaimed" => row'[inst'[r]].paid < Due[inst'[r]]
             /\ \A q \in Requests \ {r} : Holding(r)' /\ Holding(q)' => inst'[r] # inst'[q]
  <2>1. \A q \in Requests : Holding(q)' => Holding(q) /\ inst'[q] = inst[q] /\ pc'[q] = pc[q]
    BY DEF Holding
  <2>2. Holding(r)' => row'[inst'[r]].status \in OpenStatuses BY <2>1 DEF Claimed
  <2>3. pc'[r] = "waiveClaimed" => row'[inst'[r]].paid < Due[inst'[r]]
    <3>1. pc'[r] = "waiveClaimed" => Holding(r)' BY DEF Holding
    <3>. QED BY <2>1, <3>1 DEF Claimed
  <2>4. \A q \in Requests \ {r} : Holding(r)' /\ Holding(q)' => inst'[r] # inst'[q]
    BY <2>1 DEF Claimed
  <2>. QED BY <2>2, <2>3, <2>4
<1>. QED BY <1>1 DEF Claimed, Holding

\* No step touches an installment that somebody else has claimed.
LEMMA NextClaimed == ASSUME IInv, [Next]_vars PROVE Claimed'
<1>. USE DebtAssumption DEF IInv
<1>0. TypeOK' BY NextType
<1>1. ASSUME NEW r \in Requests, End(r), UNCHANGED row PROVE Claimed'
  <2>1. \A q \in Requests : Holding(q)' => pc'[q] = pc[q] /\ inst'[q] = inst[q]
    BY <1>1, EndEffect DEF Holding
  <2>. QED BY <1>0, <1>1, <2>1, ClaimsStay
<1>2. ASSUME NEW r \in Requests,
             \/ LoadCreate(r) \/ LoadView(r) \/ LoadDelete(r)
             \/ \E i \in Installments : LoadPay(r, i) \/ LoadWaive(r, i)
             \/ \E s \in PlanStatuses : LoadPatch(r, s)
      PROVE Claimed'
  <2>1. PICK op \in {"create", "view", "delete", "pay", "waive", "patch"} :
           \E kept, seen : Load(r, op, kept, seen)
    BY <1>2, LoadsLoad
  <2>2. \A q \in Requests \ {r} : inst'[q] = inst[q]
    BY <1>2 DEF LoadCreate, LoadView, LoadDelete, LoadPay, LoadWaive, LoadPatch, TypeOK
  <2>3. pc' = [pc EXCEPT ![r] = op] /\ UNCHANGED row BY <2>1 DEF Load
  <2>4. \A q \in Requests : Holding(q)' => q # r /\ pc'[q] = pc[q]
    BY <2>3 DEF Holding, TypeOK
  <2>. QED BY <1>0, <2>2, <2>3, <2>4, ClaimsStay
<1>3. ASSUME NEW r \in Requests, Create(r) \/ Patch(r) \/ Delete(r) \/ GiveUp(r) \/ WriteView(r)
      PROVE Claimed'
  <2>1. End(r) /\ UNCHANGED row
    BY <1>3 DEF Create, Patch, Delete, GiveUp, WriteView
  <2>. QED BY <1>1, <2>1
<1>4. ASSUME NEW r \in Requests, NEW mine, End(r), Holding(r),
             row' = [row EXCEPT ![inst[r]] = mine]
      PROVE Claimed'
  <2>1. \A q \in Requests : Holding(q)' => q # r /\ pc'[q] = pc[q] /\ inst'[q] = inst[q]
    BY <1>4, EndEffect DEF Holding
  <2>2. ASSUME NEW q \in Requests, Holding(q)'
        PROVE  row'[inst[q]] = row[inst[q]]
    <3>1. q # r /\ Holding(q) BY <2>1, <2>2 DEF Holding
    <3>2. inst[q] # inst[r] /\ inst[q] \in Installments
      BY <1>4, <3>1 DEF Claimed, Asked, Holding
    <3>. QED BY <1>4, <3>2 DEF TypeOK, Rows
  <2>. QED BY <1>0, <2>1, <2>2, ClaimsStay
<1>5. ASSUME NEW r \in Requests, Pay(r) PROVE Claimed'
  BY <1>4, <1>5, PayEffect
<1>6. ASSUME NEW r \in Requests, Waive(r) PROVE Claimed'
  BY <1>4, <1>6, WaiveEffect
<1>7. ASSUME NEW r \in Requests, Claim(r) PROVE Claimed'
  <2>1. /\ inst[r] \in Installments /\ pc[r] \in {"pay", "waive"}
        /\ row[inst[r]].status \in OpenStatuses
        /\ pc[r] = "waive" => Remainder(inst[r]) > 0
        /\ \A q \in Requests : Holding(q) => inst[q] # inst[r]
        /\ pc' = [pc EXCEPT ![r] = IF pc[r] = "pay" THEN "payClaimed" ELSE "waiveClaimed"]
        /\ UNCHANGED <<row, inst>>
    BY <1>7 DEF Claim, Asked, InstallmentClaims, Locked, Holding
  <2>2. \A q \in Requests \ {r} : pc'[q] = pc[q] BY <2>1
  <2>3. pc'[r] = "waiveClaimed" => row[inst[r]].paid < Due[inst[r]]
    <3>1. pc'[r] = "waiveClaimed" => pc[r] = "waive" BY <2>1 DEF TypeOK
    <3>2. row[inst[r]].paid \in Nat /\ Due[inst[r]] \in Nat BY <2>1 DEF TypeOK, Rows
    <3>. QED BY <2>1, <3>1, <3>2 DEF Remainder
  <2>4. \A q \in Requests \ {r} : Holding(q)' <=> Holding(q) BY <2>2 DEF Holding
  <2>5. \A q \in Requests \ {r} : pc'[q] = "waiveClaimed" => row[inst[q]].paid < Due[inst[q]]
    BY <2>2 DEF Claimed
  <2>6. ASSUME NEW q \in Requests, NEW s \in Requests \ {q}, Holding(q)', Holding(s)'
        PROVE inst[q] # inst[s]
    BY <2>1, <2>4, <2>6 DEF Claimed
  <2>7. \A q \in Requests : Holding(q)' => row[inst[q]].status \in OpenStatuses
    BY <2>1, <2>4 DEF Claimed
  <2>. QED BY <2>1, <2>3, <2>5, <2>6, <2>7 DEF Claimed, Holding
<1>8. ASSUME NEW L \in SUBSET Installments,
             \A i \in L : ~Locked(i),
             row' = [i \in Installments |->
                        IF i \in L THEN [row[i] EXCEPT !.status = "OVERDUE"] ELSE row[i]],
             UNCHANGED inst,
             \A q \in Requests : Holding(q)' => pc'[q] = pc[q]
      PROVE Claimed'
  <2>1. ASSUME NEW q \in Requests, Holding(q)' PROVE row'[inst[q]] = row[inst[q]]
    <3>1. Holding(q) BY <1>8, <2>1 DEF Holding
    <3>2. inst[q] \in Installments \ L BY <1>8, <3>1 DEF Asked, Holding, Locked
    <3>. QED BY <1>8, <3>2
  <2>. QED BY <1>0, <1>8, <2>1, ClaimsStay
<1>9. CASE Sweep
  <2>1. Late \in SUBSET Installments BY DEF Late, TypeOK
  <2>2. UNCHANGED <<pc, inst>> BY <1>9 DEF Sweep, request
  <2>. QED BY <1>8, <1>9, <2>1, <2>2 DEF Sweep
<1>10. ASSUME NEW r \in Requests, Mark(r) PROVE Claimed'
  <2>1. snap[r].late \in SUBSET Installments BY DEF TypeOK, Snaps
  <2>2. \A q \in Requests : Holding(q)' => pc'[q] = pc[q]
    BY <1>10 DEF Mark, Holding, TypeOK
  <2>. QED BY <1>8, <1>10, <2>1, <2>2 DEF Mark
<1>11. ASSUME UNCHANGED <<pc, inst, row>> PROVE Claimed'
  BY <1>0, <1>11, ClaimsStay
<1>12. \/ Approve \/ (\E i \in Installments : Elapse(i))
       \/ (\E a \in 1..Owed : PayDirect(a)) \/ UNCHANGED vars
       => UNCHANGED <<pc, inst, row>>
  BY DEF Approve, Elapse, PayDirect, vars, request
<1>. QED BY <1>2, <1>3, <1>5, <1>6, <1>7, <1>9, <1>10, <1>11, <1>12 DEF Next

-----------------------------------------------------------------------------
\* Only payments and waivers move the debt, and they move all of it.
LEMMA NextLedger == ASSUME IInv, [Next]_vars PROVE LedgerAddsUp'
<1>. USE DEF IInv
<1>0. /\ owed \in Nat /\ paid \in Nat /\ balance \in Nat /\ customer \in Int
      /\ received \in Nat /\ direct \in Nat /\ total \in Int
      /\ Owed \in Nat /\ Total \in Nat
  BY DebtAssumption DEF TypeOK
<1>1. /\ balance = owed - paid /\ customer = balance /\ paid = received + direct
      /\ Owed - owed = Total - total
      /\ debtStatus = "SETTLED" <=> balance = 0
  BY DEF LedgerAddsUp
<1>2. ASSUME NEW r \in Requests, Pay(r) PROVE LedgerAddsUp'
  <2>. DEFINE a == amount[r]
  <2>1. a \in Nat /\ a >= 1 /\ a <= balance BY <1>2, PayEffect
  <2>2. /\ paid' = paid + a /\ balance' = balance - a /\ received' = received + a
        /\ customer' = customer - a /\ total' = total /\ owed' = owed /\ direct' = direct
        /\ debtStatus' = DebtPaid(balance - a)
    BY <1>2 DEF Pay
  <2>. HIDE DEF a
  <2>3. debtStatus' = "SETTLED" <=> balance' = 0 BY <2>2 DEF DebtPaid
  <2>4. /\ balance' = owed' - paid' /\ customer' = balance'
        /\ paid' = received' + direct' /\ Owed - owed' = Total - total'
    BY ONLY <1>0, <1>1, <2>1, <2>2
  <2>. QED BY <2>3, <2>4 DEF LedgerAddsUp
<1>3. ASSUME NEW r \in Requests, Waive(r) PROVE LedgerAddsUp'
  <2>. DEFINE w == Remainder(inst[r])
  <2>1. w \in Nat /\ w >= 1 /\ w <= balance BY <1>3, WaiveEffect
  <2>2. /\ total' = total - w /\ owed' = owed - w /\ balance' = balance - w
        /\ customer' = customer - w /\ paid' = paid /\ received' = received
        /\ direct' = direct /\ debtStatus' = DebtWaived(r, balance - w)
    BY <1>3 DEF Waive
  <2>. HIDE DEF w
  <2>3. balance # 0 BY ONLY <1>0, <2>1
  <2>4. snap[r].debt # "SETTLED" BY <1>1, <2>3 DEF Asked
  <2>5. debtStatus' = "SETTLED" <=> balance' = 0 BY <2>2, <2>4 DEF DebtWaived
  <2>6. /\ balance' = owed' - paid' /\ customer' = balance'
        /\ paid' = received' + direct' /\ Owed - owed' = Total - total'
    BY ONLY <1>0, <1>1, <2>1, <2>2
  <2>. QED BY <2>5, <2>6 DEF LedgerAddsUp
<1>4. ASSUME NEW a \in 1..Owed, PayDirect(a) PROVE LedgerAddsUp'
  <2>1. a \in Nat BY <1>0
  <2>2. /\ paid' = paid + a /\ balance' = balance - a /\ direct' = direct + a
        /\ customer' = customer - a /\ total' = total /\ owed' = owed
        /\ received' = received /\ debtStatus' = DebtPaid(balance - a)
    BY <1>4 DEF PayDirect, plan
  <2>3. debtStatus' = "SETTLED" <=> balance' = 0 BY <2>2 DEF DebtPaid
  <2>4. /\ balance' = owed' - paid' /\ customer' = balance'
        /\ paid' = received' + direct' /\ Owed - owed' = Total - total'
    BY ONLY <1>0, <1>1, <2>1, <2>2
  <2>. QED BY <2>3, <2>4 DEF LedgerAddsUp
<1>5. ASSUME UNCHANGED <<debt, total>> PROVE LedgerAddsUp'
  BY <1>5 DEF LedgerAddsUp, debt
<1>6. ASSUME NEW r \in Requests,
             \/ LoadCreate(r) \/ LoadView(r) \/ LoadDelete(r)
             \/ \E i \in Installments : LoadPay(r, i) \/ LoadWaive(r, i)
             \/ \E s \in PlanStatuses : LoadPatch(r, s)
      PROVE UNCHANGED <<debt, total>>
  <2>1. PICK op \in {"create", "view", "delete", "pay", "waive", "patch"} :
           \E kept, seen : Load(r, op, kept, seen)
    BY <1>6, LoadsLoad
  <2>. QED BY <2>1 DEF Load, plan
<1>7. ASSUME NEW r \in Requests,
             Create(r) \/ Patch(r) \/ Delete(r) \/ Claim(r) \/ Mark(r) \/ WriteView(r) \/ GiveUp(r)
      PROVE UNCHANGED <<debt, total>>
  BY <1>7 DEF Create, Patch, Delete, Claim, Mark, WriteView, GiveUp, plan
<1>8. Approve \/ Sweep \/ (\E i \in Installments : Elapse(i)) \/ UNCHANGED vars
      => UNCHANGED <<debt, total>>
  BY DEF Approve, Sweep, Elapse, vars, plan
<1>. QED BY <1>2, <1>3, <1>4, <1>5, <1>6, <1>7, <1>8 DEF Next

-----------------------------------------------------------------------------
\* What InstallmentsHold says of one installment.
Holds(i) ==
    i \notin overlapped =>
        /\ row[i].paid <= Due[i]
        /\ i \notin reopened =>
              /\ row[i].status = "PAID" <=> row[i].paid = Due[i]
              /\ waived[i] = IF row[i].status = "WAIVED" THEN Due[i] - row[i].paid ELSE 0

\* A payment fills an open installment at most up to what is due, unless it
\* knew less of it than is there now.
LEMMA PayHolds ==
    ASSUME IInv, NEW r \in Requests, Pay(r) PROVE \A i \in Installments : Holds(i)'
<1>. USE DEF IInv
<1>0. PICK j \in Installments, a \in Nat : j = inst[r] /\ a = amount[r]
  BY PayEffect
<1>1. /\ j \in Installments /\ a \in Nat /\ a >= 1 /\ Holding(r)
      /\ row' = [row EXCEPT ![j] = PaidRow(j, a)]
  BY <1>0, PayEffect
<1>2. row[j].paid \in Nat /\ Due[j] \in Nat /\ snap[r].row[j].paid \in Nat
  <2>1. snap[r].row \in Rows BY DEF TypeOK, Snaps
  <2>. QED BY <1>1, <2>1, DebtAssumption DEF TypeOK, Rows
<1>3. /\ row[j].status \in OpenStatuses
      /\ snap[r].row[j].paid + a <= Due[j]
  BY <1>0, <1>1 DEF Claimed, Asked, Pay
<1>4. Holds(j) /\ \A i \in Installments : Holds(i)
  BY <1>1 DEF InstallmentsHold, Holds
<1>5. /\ overlapped' = overlapped \cup {i \in {j} : snap[r].row[i].paid # row[i].paid}
      /\ UNCHANGED <<waived, reopened>>
  BY <1>0 DEF Pay
<1>6. /\ row'[j].paid = row[j].paid + a
      /\ row'[j].status = IF row[j].paid + a >= Due[j] THEN "PAID" ELSE "PARTIAL"
  BY <1>1 DEF TypeOK, Rows, PaidRow
<1>7. \A i \in Installments \ {j} : row'[i] = row[i] BY <1>1 DEF TypeOK, Rows
<1>8. ASSUME NEW i \in Installments \ {j} PROVE Holds(i)'
  <2>1. row'[i] = row[i] /\ (i \in overlapped' <=> i \in overlapped) BY <1>5, <1>7
  <2>. QED BY <1>4, <1>5, <2>1 DEF Holds
<1>9. Holds(j)'
  <2>1. SUFFICES ASSUME j \notin overlapped' PROVE Holds(j)' BY DEF Holds
  <2>2. j \notin overlapped /\ snap[r].row[j].paid = row[j].paid BY <1>5, <2>1
  <2>3. row'[j].paid <= Due[j] BY ONLY <1>1, <1>2, <1>3, <1>6, <2>2
  <2>4. row'[j].status = "PAID" <=> row'[j].paid = Due[j]
    BY ONLY <1>1, <1>2, <1>6, <2>3
  <2>5. row'[j].status # "WAIVED" BY <1>6
  <2>6. j \notin reopened => waived[j] = 0
    BY <1>3, <1>4, <2>2 DEF Holds, OpenStatuses
  <2>. QED BY <1>5, <2>3, <2>4, <2>5, <2>6 DEF Holds
<1>. QED BY <1>8, <1>9

\* A waiver forgives exactly what an open installment lacks.
LEMMA WaiveHolds ==
    ASSUME IInv, NEW r \in Requests, Waive(r) PROVE \A i \in Installments : Holds(i)'
<1>. USE DEF IInv
<1>0. PICK j \in Installments, w \in Nat : j = inst[r] /\ w = Remainder(j)
  BY WaiveEffect
<1>1. /\ j \in Installments /\ w \in Nat /\ w >= 1 /\ Holding(r)
      /\ row' = [row EXCEPT ![j] = [status |-> "WAIVED", paid |-> row[j].paid]]
  BY <1>0, WaiveEffect
<1>2. row[j].paid \in Nat /\ Due[j] \in Nat /\ waived[j] \in Nat
  BY <1>1, DebtAssumption DEF TypeOK, Rows
<1>3. row[j].status \in OpenStatuses BY <1>0, <1>1 DEF Claimed
<1>4. \A i \in Installments : Holds(i) BY DEF InstallmentsHold, Holds
<1>5. waived' = [waived EXCEPT ![j] = @ + w] /\ UNCHANGED <<overlapped, reopened>>
  BY <1>0 DEF Waive
<1>6. row'[j].paid = row[j].paid /\ row'[j].status = "WAIVED" BY <1>1 DEF TypeOK, Rows
<1>7. \A i \in Installments \ {j} : row'[i] = row[i] /\ waived'[i] = waived[i]
  BY <1>1, <1>5 DEF TypeOK, Rows
<1>8. w = Due[j] - row[j].paid BY <1>0 DEF Remainder
<1>9. waived'[j] = waived[j] + w BY <1>1, <1>5 DEF TypeOK
<1>10. ASSUME NEW i \in Installments \ {j} PROVE Holds(i)'
  BY <1>4, <1>5, <1>7 DEF Holds
<1>11. Holds(j)'
  <2>1. SUFFICES ASSUME j \notin overlapped PROVE Holds(j)' BY <1>5 DEF Holds
  <2>2. row'[j].paid <= Due[j] BY <1>1, <1>4, <1>6, <2>1 DEF Holds
  <2>3. row'[j].paid # Due[j] BY ONLY <1>1, <1>2, <1>6, <1>8
  <2>4. j \notin reopened => waived'[j] = Due[j] - row'[j].paid
    <3>1. j \notin reopened => waived[j] = 0
      BY <1>1, <1>3, <1>4, <2>1 DEF Holds, OpenStatuses
    <3>. QED BY ONLY <1>1, <1>2, <1>6, <1>8, <1>9, <3>1
  <2>. QED BY <1>5, <1>6, <2>2, <2>3, <2>4 DEF Holds
<1>. QED BY <1>10, <1>11

\* Marking leaves an open installment open, and notes one that was settled.
LEMMA MarkHolds ==
    ASSUME IInv, NEW L \in SUBSET Installments,
           row' = [i \in Installments |->
                      IF i \in L THEN [row[i] EXCEPT !.status = "OVERDUE"] ELSE row[i]],
           reopened' = reopened \cup {i \in L : row[i].status \in {"PAID", "WAIVED"}},
           UNCHANGED <<overlapped, waived>>
    PROVE  \A i \in Installments : Holds(i)'
<1>. USE DEF IInv
<1>1. /\ \A i \in Installments : row'[i].paid = row[i].paid
      /\ \A i \in L : row'[i].status = "OVERDUE"
      /\ \A i \in Installments \ L : row'[i] = row[i]
  BY MarkEffect
<1>2. ASSUME NEW i \in Installments PROVE Holds(i)'
  <2>1. Holds(i) BY DEF InstallmentsHold, Holds
  <2>2. CASE i \notin L BY <1>1, <2>1, <2>2 DEF Holds
  <2>3. CASE i \in L
    <3>1. row'[i].paid = row[i].paid /\ row'[i].status = "OVERDUE" BY <1>1, <2>3
    <3>2. i \notin reopened' => i \notin reopened /\ row[i].status \notin {"PAID", "WAIVED"}
      BY <2>3
    <3>. QED BY <2>1, <3>1, <3>2 DEF Holds
  <2>. QED BY <2>2, <2>3
<1>. QED BY <1>2

\* Paying and waiving and marking are all that happens to an installment.
LEMMA NextInstallments == ASSUME IInv, [Next]_vars PROVE InstallmentsHold'
<1>. USE DEF IInv
<1>1. SUFFICES \A i \in Installments : Holds(i)' BY DEF InstallmentsHold, Holds
<1>2. ASSUME UNCHANGED <<row, history>> PROVE \A i \in Installments : Holds(i)'
  BY <1>2 DEF InstallmentsHold, Holds, history
<1>3. ASSUME NEW r \in Requests,
             \/ LoadCreate(r) \/ LoadView(r) \/ LoadDelete(r)
             \/ \E i \in Installments : LoadPay(r, i) \/ LoadWaive(r, i)
             \/ \E s \in PlanStatuses : LoadPatch(r, s)
      PROVE UNCHANGED <<row, history>>
  <2>1. PICK op \in {"create", "view", "delete", "pay", "waive", "patch"} :
           \E kept, seen : Load(r, op, kept, seen)
    BY <1>3, LoadsLoad
  <2>. QED BY <2>1 DEF Load
<1>4. ASSUME UNCHANGED <<row, waived, overlapped, reopened>>
      PROVE \A i \in Installments : Holds(i)'
  BY <1>4 DEF InstallmentsHold, Holds
<1>5. ASSUME NEW r \in Requests,
             Create(r) \/ Patch(r) \/ Delete(r) \/ Claim(r) \/ WriteView(r) \/ GiveUp(r)
      PROVE UNCHANGED <<row, waived, overlapped, reopened>>
  BY <1>5 DEF Create, Patch, Delete, Claim, WriteView, GiveUp, history
<1>6. \/ Approve \/ (\E i \in Installments : Elapse(i))
      \/ (\E a \in 1..Owed : PayDirect(a)) \/ UNCHANGED vars
      => UNCHANGED <<row, history>>
  BY DEF Approve, Elapse, PayDirect, vars
<1>7. ASSUME Sweep PROVE \A i \in Installments : Holds(i)'
  <2>1. Late \in SUBSET Installments BY DEF Late, TypeOK
  <2>2. {i \in Late : row[i].status \in {"PAID", "WAIVED"}} = {} BY DEF Late
  <2>3. UNCHANGED <<overlapped, waived, reopened>> BY <1>7 DEF Sweep, history
  <2>. QED BY <1>7, <2>1, <2>2, <2>3, MarkHolds DEF Sweep
<1>8. ASSUME NEW r \in Requests, Mark(r) PROVE \A i \in Installments : Holds(i)'
  <2>1. snap[r].late \in SUBSET Installments BY DEF TypeOK, Snaps
  <2>. QED BY <1>8, <2>1, MarkHolds DEF Mark
<1>. QED BY <1>2, <1>3, <1>4, <1>5, <1>6, <1>7, <1>8, PayHolds, WaiveHolds DEF Next

-----------------------------------------------------------------------------
\* IInv holds in every reachable state.
THEOREM Inductive == Spec => []IInv
<1>1. ASSUME IInv, [Next]_vars PROVE IInv'
  BY <1>1, NextType, NextAsked, NextClaimed, NextLedger, NextInstallments DEF IInv
<1>. QED BY InitInv, <1>1, PTL DEF Spec

\* Every variable keeps its type; in particular the debt never goes below zero.
THEOREM TypeCorrect == Spec => []TypeOK
<1>1. IInv => TypeOK BY DEF IInv
<1>. QED BY <1>1, Inductive, PTL

\* Whatever requests overlap, the debt adds up (LedgerAddsUp).
THEOREM DebtAddsUp == Spec => []LedgerAddsUp
<1>1. IInv => LedgerAddsUp BY DEF IInv
<1>. QED BY <1>1, Inductive, PTL

\* Installments are paid or waived in full and once, but for overlapping
\* payments and late marks (InstallmentsHold).
THEOREM InstallmentsSettleOnce == Spec => []InstallmentsHold
<1>1. IInv => InstallmentsHold BY DEF IInv
<1>. QED BY <1>1, Inductive, PTL

\* A decision is undone, and a request that ends had loaded the plan before.
Undone ==
    \/ status = "CANCELLED" /\ status' \notin {"CANCELLED", "DELETED"}
    \/ status \notin {"NONE", "PENDING_APPROVAL"} /\ status' = "PENDING_APPROVAL"
ByOld ==
    \E r \in Requests : pc'[r] = "idle" /\ pc[r] # "idle" /\ snap[r].status # status

\* Payments, waivers, patches and views write the status; each writes what it
\* loaded, or what cannot undo a decision.
LEMMA NextDecisions == ASSUME IInv, [Next]_vars, Undone PROVE ByOld
<1>0. TypeOK /\ Asked /\ Claimed BY DEF IInv
<1>1. ASSUME NEW r \in Requests, End(r), pc[r] # "idle", snap[r].status # status
      PROVE ByOld
  <2>1. pc'[r] = "idle" BY <1>0, <1>1, EndEffect
  <2>. QED BY <1>1, <2>1 DEF ByOld
<1>2. ASSUME NEW r \in Requests, Pay(r) \/ Waive(r) PROVE ByOld
  <2>1. End(r) /\ Holding(r) /\ status' \in Payable \cup {"COMPLETED"}
    <3>1. CASE Pay(r) BY <1>0, <3>1, PayEffect
    <3>2. CASE Waive(r) BY <1>0, <3>2, WaiveEffect
    <3>. QED BY <1>2, <3>1, <3>2
  <2>2. pc[r] # "idle" /\ snap[r].status \in Payable BY <1>0, <2>1 DEF Asked, Holding
  <2>3. status = "CANCELLED" BY <2>1 DEF Payable, Undone
  <2>. QED BY <1>1, <2>1, <2>2, <2>3 DEF Payable
<1>3. ASSUME NEW r \in Requests, Patch(r) PROVE ByOld
  <2>1. /\ End(r) /\ pc[r] = "patch" /\ snap[r].status \in Payable
        /\ status' \in {"PAUSED", "ACTIVE", "CANCELLED"}
    BY <1>0, <1>3 DEF Patch, Asked
  <2>2. status = "CANCELLED" BY <2>1 DEF Undone
  <2>3. pc[r] # "idle" /\ snap[r].status # status BY <2>1, <2>2 DEF Payable
  <2>. QED BY <1>1, <2>1, <2>3
<1>4. ASSUME NEW r \in Requests, WriteView(r) PROVE ByOld
  <2>1. \E b, rows : status' = PlanStatus(snap[r].status, b, rows)
    BY <1>4 DEF WriteView
  <2>2. snap[r].status \in PlanStatuses \cup {"NONE", "DELETED"} BY <1>0 DEF TypeOK, Snaps
  <2>3. /\ snap[r].status = "CANCELLED" => status' = "CANCELLED"
        /\ snap[r].status # "PENDING_APPROVAL" => status' # "PENDING_APPROVAL"
    BY <2>1, <2>2, StatusType
  <2>4. snap[r].status # status BY <2>3 DEF Undone
  <2>5. End(r) /\ pc[r] # "idle" BY <1>4 DEF WriteView
  <2>. QED BY <1>1, <2>4, <2>5
<1>5. ASSUME NEW r \in Requests PROVE ~Create(r) /\ ~Delete(r)
  BY DEF Create, Delete, Undone
<1>6. status' # status BY DEF Undone
<1>7. ASSUME NEW r \in Requests,
             \/ LoadCreate(r) \/ LoadView(r) \/ LoadDelete(r)
             \/ \E i \in Installments : LoadPay(r, i) \/ LoadWaive(r, i)
             \/ \E s \in PlanStatuses : LoadPatch(r, s)
      PROVE status' = status
  <2>1. PICK op \in {"create", "view", "delete", "pay", "waive", "patch"} :
           \E kept, seen : Load(r, op, kept, seen)
    BY <1>7, LoadsLoad
  <2>. QED BY <2>1 DEF Load, plan
<1>8. ASSUME NEW r \in Requests, Claim(r) \/ Mark(r) \/ GiveUp(r) PROVE status' = status
  BY <1>8 DEF Claim, Mark, GiveUp, plan
<1>9. ~Approve BY DEF Approve, Undone
<1>10. \/ Sweep \/ (\E i \in Installments : Elapse(i))
       \/ (\E a \in 1..Owed : PayDirect(a)) \/ UNCHANGED vars
       => status' = status
  BY DEF Sweep, Elapse, PayDirect, vars, plan
<1>. QED BY <1>2, <1>3, <1>4, <1>5, <1>6, <1>7, <1>8, <1>9, <1>10 DEF Next

\* A cancelled plan and an approval are only undone by a request that had
\* loaded the plan before (DecisionsStand).
THEOREM NoRevival == Spec => DecisionsStand
<1>1. ASSUME IInv, [Next]_vars PROVE [Undone => ByOld]_vars
  BY <1>1, NextDecisions
<1>2. DecisionsStand <=> [][Undone => ByOld]_vars BY DEF DecisionsStand, Undone, ByOld
<1>. QED BY <1>1, <1>2, Inductive, PTL DEF Spec
-----------------------------------------------------------------------------
(* The plan row. What came in is the sum of the installments; the totals     *)
(* written from true reads are the totals of the rows; and with nothing      *)
(* distorted, what the totals leave is the sum of what each row still lacks. *)

Amounts(rows) == [i \in Installments |-> rows[i].paid]
PaidSum(rows) == SumOver(Amounts(rows), Installments)
PlanTotals(t, rows) ==
    [paid |-> PaidSum(rows), balance |-> IF t > PaidSum(rows) THEN t - PaidSum(rows) ELSE 0]

\* Nobody wrote the plan row from an old read, and no installment is off.
Undistorted ==
    /\ ~outdated /\ overlapped = {} /\ reopened = {}
    /\ Exists
    /\ Total = SumOver(Due, Installments)

TotalsTrue == ~outdated => totals = PlanTotals(total, row)
Completes == Undistorted => (status = "COMPLETED" <=> totals.balance = 0)

PlanRow ==
    /\ received = PaidSum(row)
    /\ total = Total - SumOver(waived, Installments)
    /\ TotalsTrue
    /\ Completes
    /\ status = "NONE" => totals.balance # 0
    /\ \A r \in Requests : pc[r] \in {"view", "marked"} => snap[r].late # {}

\* The sum the specification takes is the sum of the amounts.
LEMMA PaidIsSum ==
    ASSUME NEW rows
    PROVE  MapThenSumSet(LAMBDA i : rows[i].paid, Installments) = PaidSum(rows)
<1>. DEFINE pick(T) == CHOOSE x \in T : TRUE
            value(i) == rows[i].paid
            F(iter) == [T \in SUBSET Installments |->
                          IF T = {} THEN 0 ELSE value(pick(T)) + iter[T \ {pick(T)}]]
            G(iter) == [T \in SUBSET Installments |->
                          IF T = {} THEN 0
                          ELSE Amounts(rows)[pick(T)] + iter[T \ {pick(T)}]]
<1>1. ASSUME NEW iter PROVE F(iter) = G(iter)
  <2>1. ASSUME NEW T \in SUBSET Installments, T # {}
        PROVE  Amounts(rows)[pick(T)] = value(pick(T))
    <3>1. pick(T) \in Installments BY <2>1
    <3>. HIDE DEF pick
    <3>. QED BY <3>1 DEF Amounts
  <2>. HIDE DEF pick, value
  <2>. QED BY <2>1
<1>2. (CHOOSE iter : iter = F(iter)) = (CHOOSE iter : iter = G(iter))
  <2>. HIDE DEF F, G
  <2>. QED BY <1>1
<1>3. MapThenSumSet(LAMBDA i : value(i), Installments)
        = (CHOOSE iter : iter = F(iter))[Installments]
  BY DEF MapThenSumSet, MapThenFoldSet
<1>4. PaidSum(rows) = (CHOOSE iter : iter = G(iter))[Installments]
  BY DEF PaidSum, SumOver, MapThenSumSet, MapThenFoldSet
<1>5. MapThenSumSet(LAMBDA i : rows[i].paid, Installments)
        = MapThenSumSet(LAMBDA i : value(i), Installments)
  OBVIOUS
<1>. HIDE DEF F, G
<1>. QED BY <1>2, <1>3, <1>4, <1>5

\* So are the totals.
LEMMA TotalsAre ==
    ASSUME NEW t, NEW rows
    PROVE  Totals(t, rows) = PlanTotals(t, rows)
BY PaidIsSum DEF Totals, PlanTotals

\* The sum of the amounts, of other rows with the same amounts, and of rows of
\* which one has changed.
LEMMA PaidSums ==
    ASSUME NEW r \in Rows
    PROVE  /\ PaidSum(r) \in Nat
           /\ \A s : (\A i \in Installments : s[i].paid = r[i].paid) => PaidSum(s) = PaidSum(r)
           /\ \A s \in Rows : \A j \in Installments :
                 (\A i \in Installments \ {j} : s[i] = r[i])
                 => PaidSum(s) = PaidSum(r) - r[j].paid + s[j].paid
<1>. IsFiniteSet(Installments) BY DebtAssumption
<1>1. ASSUME NEW s \in Rows, NEW i \in Installments
      PROVE  Amounts(s)[i] = s[i].paid /\ s[i].paid \in Nat
  BY DEF Amounts, Rows
<1>2. PaidSum(r) \in Nat BY <1>1, SumOfNaturals DEF PaidSum
<1>3. ASSUME NEW s, \A i \in Installments : s[i].paid = r[i].paid
      PROVE  PaidSum(s) = PaidSum(r)
  <2>1. Amounts(s) = Amounts(r) BY <1>3 DEF Amounts
  <2>. QED BY <2>1 DEF PaidSum
<1>4. ASSUME NEW s \in Rows, NEW j \in Installments, \A i \in Installments \ {j} : s[i] = r[i]
      PROVE  PaidSum(s) = PaidSum(r) - r[j].paid + s[j].paid
  <2>1. \A i \in Installments : Amounts(r)[i] \in Int BY <1>1
  <2>2. Amounts(s)[j] \in Int BY <1>1
  <2>3. \A i \in Installments \ {j} : Amounts(s)[i] = Amounts(r)[i] BY <1>1, <1>4
  <2>4. SumOver(Amounts(s), Installments)
          = SumOver(Amounts(r), Installments) - Amounts(r)[j] + Amounts(s)[j]
    BY <2>1, <2>2, <2>3, SumChanged
  <2>. QED BY <1>1, <2>4 DEF PaidSum
<1>. QED BY <1>2, <1>3, <1>4

\* With no installment off, nothing is left of the total exactly when every
\* installment is settled.
LEMMA NothingLeft ==
    ASSUME IInv, total = Total - SumOver(waived, Installments),
           overlapped = {}, reopened = {}, Total = SumOver(Due, Installments)
    PROVE  /\ PaidSum(row) \in Nat /\ PaidSum(row) <= total
           /\ PaidSum(row) = total
                <=> \A i \in Installments : row[i].status \in {"PAID", "WAIVED"}
<1>. USE DEF IInv
<1>. DEFINE rest == [i \in Installments |-> Due[i] - waived[i]]
            left == [i \in Installments |-> Due[i] - waived[i] - row[i].paid]
            paids == Amounts(row)
<1>0. /\ IsFiniteSet(Installments) /\ row \in Rows
      /\ \A i \in Installments : Due[i] \in Int /\ waived[i] \in Int /\ row[i].paid \in Int
  BY DebtAssumption DEF TypeOK, Rows
<1>1. ASSUME NEW i \in Installments
      PROVE  /\ left[i] \in Nat
             /\ left[i] = 0 <=> row[i].status \in {"PAID", "WAIVED"}
  <2>1. /\ row[i].paid <= Due[i]
        /\ row[i].status = "PAID" <=> row[i].paid = Due[i]
        /\ waived[i] = IF row[i].status = "WAIVED" THEN Due[i] - row[i].paid ELSE 0
    BY DEF InstallmentsHold
  <2>2. Due[i] \in Int /\ row[i].paid \in Int BY <1>0
  <2>. QED BY <2>1, <2>2
<1>2. /\ \A i \in Installments : /\ Due[i] \in Int /\ waived[i] \in Int /\ rest[i] \in Int
                                 /\ Due[i] = waived[i] + rest[i]
      /\ \A i \in Installments : /\ paids[i] \in Int /\ left[i] \in Int
                                 /\ rest[i] = paids[i] + left[i]
  BY <1>0 DEF Amounts
<1>. HIDE DEF rest, left, paids
<1>3. /\ SumOver(Due, Installments) = SumOver(waived, Installments) + SumOver(rest, Installments)
      /\ SumOver(rest, Installments) = SumOver(paids, Installments) + SumOver(left, Installments)
  BY <1>0, <1>2, SumOfBoth
<1>4. /\ SumOver(waived, Installments) \in Int /\ SumOver(paids, Installments) \in Int
  BY <1>0, <1>2, SumIsInt
<1>5. /\ SumOver(left, Installments) \in Nat
      /\ \A i \in Installments : left[i] <= SumOver(left, Installments)
  BY <1>0, <1>1, SumOfNaturals
<1>6. SumOver(left, Installments) = 0
        <=> \A i \in Installments : row[i].status \in {"PAID", "WAIVED"}
  <2>1. ASSUME SumOver(left, Installments) = 0, NEW i \in Installments
        PROVE  row[i].status \in {"PAID", "WAIVED"}
    <3>1. left[i] \in Nat /\ left[i] <= 0 BY <1>1, <1>5, <2>1
    <3>2. left[i] = 0 BY <3>1
    <3>. QED BY <1>1, <3>2
  <2>2. ASSUME \A i \in Installments : row[i].status \in {"PAID", "WAIVED"}
        PROVE  SumOver(left, Installments) = 0
    <3>1. \A i \in Installments : left[i] = 0 BY <1>1, <2>2
    <3>. QED BY <1>0, <3>1, SumOfZeros
  <2>. QED BY <2>1, <2>2
<1>7. total = PaidSum(row) + SumOver(left, Installments)
  <2>1. PaidSum(row) = SumOver(paids, Installments) BY DEF PaidSum, paids
  <2>. QED BY <1>3, <1>4, <1>5, <2>1
<1>8. PaidSum(row) \in Nat BY <1>0, PaidSums
<1>9. PaidSum(row) <= total /\ (PaidSum(row) = total <=> SumOver(left, Installments) = 0)
  BY <1>5, <1>7, <1>8
<1>. QED BY <1>6, <1>8, <1>9

\* A derived status is COMPLETED where nothing is left, and nothing holds it.
LEMMA StatusCompletes ==
    ASSUME NEW s, NEW b \in Nat, NEW rows
    PROVE  /\ PlanStatus(s, b, rows) = "COMPLETED" => b = 0
           /\ ~Held(s) /\ b = 0 => PlanStatus(s, b, rows) = "COMPLETED"
           /\ s \in Payable => (StatusAfter(s, b, rows) = "COMPLETED" <=> b = 0)
<1>1. CASE Held(s)
  <2>1. PlanStatus(s, b, rows) = s /\ s # "COMPLETED" BY <1>1 DEF PlanStatus, Held
  <2>. QED BY <1>1, <2>1 DEF StatusAfter
<1>2. CASE ~Held(s)
  <2>1. CASE b = 0 BY <1>2, <2>1 DEF PlanStatus, StatusAfter
  <2>2. CASE b # 0
    <3>1. b > 0 /\ ~(b <= 0) BY <2>2
    <3>2. PlanStatus(s, b, rows) # "COMPLETED" BY <1>2, <3>1 DEF PlanStatus
    <3>. QED BY <2>2, <3>1, <3>2 DEF StatusAfter
  <2>. QED BY <2>1, <2>2
<1>. QED BY <1>1, <1>2
\* A step that leaves the totals alone, and the amounts, leaves the plan row as
\* true and as complete as it was.
LEMMA PlanStays ==
    ASSUME IInv, PlanRow, IInv',
           UNCHANGED <<total, totals, received, waived>>,
           \A i \in Installments : row'[i].paid = row[i].paid,
           outdated => outdated', overlapped \subseteq overlapped', reopened \subseteq reopened',
           status' = "NONE" => status = "NONE",
           ~outdated' /\ Exists' =>
              \/ Exists /\ (status' = "COMPLETED" <=> status = "COMPLETED")
              \/ status' # "COMPLETED" /\ totals.balance # 0,
           \A r \in Requests : pc'[r] \in {"view", "marked"} => snap'[r].late # {}
    PROVE  PlanRow'
<1>. USE DEF PlanRow
<1>1. PaidSum(row') = PaidSum(row) BY PaidSums DEF IInv, TypeOK
<1>2. received' = PaidSum(row') BY <1>1
<1>3. total' = Total - SumOver(waived', Installments) OBVIOUS
<1>4. TotalsTrue' BY <1>1 DEF TotalsTrue, PlanTotals
<1>5. Completes' BY DEF Completes, Undistorted
<1>6. status' = "NONE" => totals'.balance # 0 OBVIOUS
<1>. QED BY <1>2, <1>3, <1>4, <1>5, <1>6

\* A step that computes the totals: they are those of the rows it leaves, and
\* the status says whether they leave anything, unless the reads were old.
LEMMA PlanWritten ==
    ASSUME IInv', NEW t, NEW s,
           received' = PaidSum(row'), total' = Total - SumOver(waived', Installments),
           totals' = PlanTotals(t, s), ~outdated' => t = total' /\ s = row',
           Undistorted' => (status' = "COMPLETED" <=> totals'.balance = 0),
           status' # "NONE",
           \A r \in Requests : pc'[r] \in {"view", "marked"} => snap'[r].late # {}
    PROVE  PlanRow'
<1>1. TotalsTrue' BY DEF TotalsTrue
<1>2. Completes' BY DEF Completes
<1>. QED BY <1>1, <1>2 DEF PlanRow

\* What the totals leave of a plan is a natural number.
LEMMA BalanceType ==
    ASSUME NEW t \in Int, NEW s \in Rows
    PROVE  /\ PlanTotals(t, s).balance \in Nat
           /\ PlanTotals(t, s).balance = 0 <=> t <= PaidSum(s)
<1>1. PaidSum(s) \in Nat BY PaidSums
<1>2. PlanTotals(t, s).balance = IF t > PaidSum(s) THEN t - PaidSum(s) ELSE 0
  BY DEF PlanTotals
<1>. QED BY <1>1, <1>2

\* The commit of a payment or a waiver computes totals and status.
LEMMA WriteWritten ==
    ASSUME IInv, PlanRow, TypeOK', IInv', NEW r \in Requests, NEW t, NEW mine,
           Write(r, t, mine), snap[r].status \in Payable, inst[r] \in Installments,
           received' = PaidSum(row'), total' = Total - SumOver(waived', Installments),
           snap[r].total = total => t = total',
           End(r)
    PROVE  PlanRow'
<1>0. PICK s : s = AfterOwn(r, mine) OBVIOUS
<1>1. /\ totals' = PlanTotals(t, s)
      /\ status' = StatusAfter(snap[r].status, PlanTotals(t, s).balance, s)
      /\ row' = [row EXCEPT ![inst[r]] = mine]
      /\ outdated' = (fresh[r] # row \/ snap[r].total # total \/ snap[r].status # status)
  BY <1>0, TotalsAre DEF Write
<1>2. ~outdated' => t = total' /\ s = row'
  BY <1>0, <1>1 DEF AfterOwn
<1>3. status' # "NONE"
  <2>1. status' \in Payable \cup {"COMPLETED"} BY <1>1, StatusAfterType
  <2>. QED BY <2>1 DEF Payable
<1>4. Undistorted' => (status' = "COMPLETED" <=> totals'.balance = 0)
  <2>. SUFFICES ASSUME Undistorted' PROVE status' = "COMPLETED" <=> totals'.balance = 0
    OBVIOUS
  <2>1. t = total' /\ s = row' BY <1>2 DEF Undistorted
  <2>2. t \in Int /\ s \in Rows BY <2>1 DEF TypeOK
  <2>3. PlanTotals(t, s).balance \in Nat BY <2>2, BalanceType
  <2>. QED BY <1>1, <2>3, StatusCompletes
<1>5. \A q \in Requests : pc'[q] \in {"view", "marked"} => snap'[q].late # {}
  BY EndEffect DEF IInv, PlanRow
<1>. QED BY <1>1, <1>2, <1>3, <1>4, <1>5, PlanWritten

\* A payment is added to its installment and to the plan alike.
LEMMA PayWritten ==
    ASSUME IInv, PlanRow, IInv', NEW r \in Requests, Pay(r)
    PROVE  PlanRow'
<1>. USE DEF IInv
<1>0. PICK j \in Installments, a \in Nat : j = inst[r] /\ a = amount[r]
  BY PayEffect
<1>1. /\ Write(r, snap[r].total, PaidRow(j, a)) /\ End(r)
      /\ received' = received + a /\ total' = total /\ waived' = waived
      /\ row' = [row EXCEPT ![j] = PaidRow(j, a)] /\ row \in Rows /\ row' \in Rows
  BY <1>0, PayEffect DEF Pay, TypeOK
<1>2. snap[r].status \in Payable BY DEF Asked, Pay
<1>3. row'[j].paid = row[j].paid + a /\ \A i \in Installments \ {j} : row'[i] = row[i]
  BY <1>1 DEF PaidRow, Rows
<1>4. PaidSum(row') = PaidSum(row) - row[j].paid + row'[j].paid /\ PaidSum(row) \in Nat
  BY <1>1, <1>3, PaidSums
<1>5. row[j].paid \in Nat BY <1>1 DEF Rows
<1>6. received' = PaidSum(row') BY <1>1, <1>3, <1>4, <1>5 DEF PlanRow
<1>7. total' = Total - SumOver(waived', Installments) BY <1>1 DEF PlanRow
<1>. QED BY <1>0, <1>1, <1>2, <1>6, <1>7, WriteWritten

\* A waiver takes what is left of the installment off the total of the plan.
LEMMA WaiveWritten ==
    ASSUME IInv, PlanRow, IInv', NEW r \in Requests, Waive(r)
    PROVE  PlanRow'
<1>. USE DEF IInv
<1>0. PICK j \in Installments, w \in Nat : j = inst[r] /\ w = Remainder(j)
  BY WaiveEffect
<1>1. /\ Write(r, snap[r].total - w, [row[j] EXCEPT !.status = "WAIVED"]) /\ End(r)
      /\ received' = received /\ total' = total - w
      /\ waived' = [waived EXCEPT ![j] = @ + w]
      /\ row' = [row EXCEPT ![j] = [status |-> "WAIVED", paid |-> row[j].paid]]
      /\ row \in Rows /\ waived \in [Installments -> Nat]
  BY <1>0, WaiveEffect DEF Waive, TypeOK
<1>2. snap[r].status \in Payable BY DEF Asked, Waive
<1>3. \A i \in Installments : row'[i].paid = row[i].paid BY <1>1 DEF Rows
<1>4. received' = PaidSum(row')
  <2>1. PaidSum(row') = PaidSum(row) BY <1>1, <1>3, PaidSums
  <2>. QED BY <1>1, <2>1 DEF PlanRow
<1>5. total' = Total - SumOver(waived', Installments)
  <2>1. /\ \A i \in Installments : waived[i] \in Int
        /\ waived'[j] = waived[j] + w /\ waived'[j] \in Int
        /\ \A i \in Installments \ {j} : waived'[i] = waived[i]
    BY <1>1
  <2>2. IsFiniteSet(Installments) BY DebtAssumption
  <2>3. SumOver(waived', Installments) = SumOver(waived, Installments) - waived[j] + waived'[j]
    BY <2>1, <2>2, SumChanged
  <2>4. SumOver(waived, Installments) \in Int BY <2>1, <2>2, SumIsInt
  <2>5. total = Total - SumOver(waived, Installments) /\ Total \in Int
    BY DebtAssumption DEF PlanRow
  <2>6. waived[j] \in Int BY <2>1
  <2>. QED BY <1>1, <2>1, <2>3, <2>4, <2>5, <2>6
<1>. QED BY <1>0, <1>1, <1>2, <1>4, <1>5, WriteWritten

\* The view finds something overdue, so it never leaves nothing.
LEMMA ViewWritten ==
    ASSUME IInv, PlanRow, IInv', NEW r \in Requests, WriteView(r)
    PROVE  PlanRow'
<1>. USE DEF IInv
<1>0. PICK s : s = [i \in Installments |->
            IF i \in snap[r].late THEN [snap[r].row[i] EXCEPT !.status = "OVERDUE"]
                                  ELSE snap[r].row[i]]
  OBVIOUS
<1>1. /\ pc[r] = "marked" /\ End(r)
      /\ totals' = PlanTotals(snap[r].total, s)
      /\ status' = PlanStatus(snap[r].status, PlanTotals(snap[r].total, s).balance, s)
      /\ outdated' = (s # row \/ snap[r].total # total \/ snap[r].status # status)
      /\ UNCHANGED <<total, row, received, waived, overlapped, reopened>>
  BY <1>0, TotalsAre DEF WriteView, debt
<1>2. ~outdated' => snap[r].total = total' /\ s = row' BY <1>1
<1>3. status' # "NONE"
  <2>1. snap[r].status \in PlanStatuses \cup {"NONE", "DELETED"} BY DEF TypeOK, Snaps
  <2>2. status' \in PlanStatuses BY <1>1, <2>1, StatusType
  <2>. QED BY <2>2 DEF PlanStatuses
<1>4. Undistorted' => status' # "COMPLETED" /\ totals'.balance # 0
  <2>. SUFFICES ASSUME Undistorted' PROVE status' # "COMPLETED" /\ totals'.balance # 0
    OBVIOUS
  <2>1. s = row /\ snap[r].total = total BY <1>1, <1>2 DEF Undistorted
  <2>2. PICK i \in snap[r].late : TRUE BY <1>1 DEF PlanRow
  <2>3. i \in Installments /\ snap[r].row[i] \in RowType
    BY <2>2 DEF TypeOK, Snaps, Rows, RowType
  <2>4. row[i].status = "OVERDUE" BY <1>0, <2>1, <2>2, <2>3 DEF RowType
  <2>5. IInv' /\ total' = Total - SumOver(waived', Installments)
    BY <1>1 DEF PlanRow
  <2>6. /\ overlapped = {} /\ reopened = {} /\ Total = SumOver(Due, Installments)
    BY <1>1 DEF Undistorted
  <2>7. PaidSum(row) < total
    <3>1. /\ PaidSum(row) \in Nat /\ PaidSum(row) <= total
          /\ PaidSum(row) = total
               <=> \A k \in Installments : row[k].status \in {"PAID", "WAIVED"}
      BY <2>6, NothingLeft DEF PlanRow
    <3>2. PaidSum(row) # total BY <2>3, <2>4, <3>1
    <3>3. total \in Int BY DEF TypeOK
    <3>. QED BY <3>1, <3>2, <3>3
  <2>8. PlanTotals(total, row).balance \in Nat /\ PlanTotals(total, row).balance # 0
    <3>1. total \in Int /\ row \in Rows BY DEF TypeOK
    <3>2. PaidSum(row) \in Nat BY <3>1, PaidSums
    <3>3. ~(total <= PaidSum(row)) BY <2>7, <3>1, <3>2
    <3>. QED BY <3>1, <3>3, BalanceType
  <2>9. PlanStatus(snap[r].status, PlanTotals(total, row).balance, row) # "COMPLETED"
    <3>1. PICK b \in Nat : b = PlanTotals(total, row).balance /\ b # 0 BY <2>8
    <3>2. PlanStatus(snap[r].status, b, row) # "COMPLETED"
      BY ONLY <3>1, StatusCompletes
    <3>. QED BY <3>1, <3>2
  <2>. QED BY <1>1, <2>1, <2>8, <2>9
<1>5. received' = PaidSum(row') /\ total' = Total - SumOver(waived', Installments)
  BY <1>1 DEF PlanRow
<1>6. \A q \in Requests : pc'[q] \in {"view", "marked"} => snap'[q].late # {}
  BY <1>1, EndEffect DEF PlanRow
<1>7. Undistorted' => (status' = "COMPLETED" <=> totals'.balance = 0) BY <1>4
<1>. QED BY <1>1, <1>2, <1>3, <1>5, <1>6, <1>7, PlanWritten
\* Every step keeps the plan row.
LEMMA NextPlanRow == ASSUME IInv, PlanRow, IInv', [Next]_vars PROVE PlanRow'
<1>. DEFINE LateKept == \A q \in Requests : pc'[q] \in {"view", "marked"} => snap'[q].late # {}
<1>0. TypeOK /\ \A q \in Requests : pc[q] \in {"view", "marked"} => snap[q].late # {}
  BY DEF IInv, PlanRow
<1>a. ASSUME UNCHANGED <<plan, row, received, history>>, LateKept PROVE PlanRow'
  BY <1>a, PlanStays DEF plan, history, Exists
<1>b. ASSUME NEW r \in Requests, End(r) PROVE LateKept
  BY <1>0, <1>b, EndEffect
<1>c. ASSUME UNCHANGED request PROVE LateKept
  BY <1>0, <1>c DEF request
<1>1. ASSUME NEW r \in Requests,
             \/ LoadCreate(r) \/ LoadView(r) \/ LoadDelete(r)
             \/ \E i \in Installments : LoadPay(r, i) \/ LoadWaive(r, i)
             \/ \E s \in PlanStatuses : LoadPatch(r, s)
      PROVE PlanRow'
  <2>1. PICK op \in {"create", "view", "delete", "pay", "waive", "patch"} :
           \E kept, seen : Load(r, op, kept, seen)
    BY <1>1, LoadsLoad
  <2>2. /\ UNCHANGED <<plan, row, received, history>>
        /\ pc' = [pc EXCEPT ![r] = op]
        /\ \A q \in Requests \ {r} : snap'[q] = snap[q]
    BY <1>0, <2>1, LoadEffect DEF debt
  <2>3. op = "view" => snap'[r].late # {}
    <3>. SUFFICES ASSUME op = "view" PROVE snap'[r].late # {} OBVIOUS
    <3>1. LoadView(r)
      <4>1. pc'[r] = "view" BY <1>0, <2>2 DEF TypeOK
      <4>2. LoadCreate(r) => pc'[r] = "create" BY <1>0 DEF LoadCreate, Load, TypeOK
      <4>3. LoadDelete(r) => pc'[r] = "delete" BY <1>0 DEF LoadDelete, Load, TypeOK
      <4>4. \A i \in Installments : LoadPay(r, i) => pc'[r] = "pay"
        BY <1>0 DEF LoadPay, Load, TypeOK
      <4>5. \A i \in Installments : LoadWaive(r, i) => pc'[r] = "waive"
        BY <1>0 DEF LoadWaive, Load, TypeOK
      <4>6. \A s \in PlanStatuses : LoadPatch(r, s) => pc'[r] = "patch"
        BY <1>0 DEF LoadPatch, Load, TypeOK
      <4>. QED BY <1>1, <4>1, <4>2, <4>3, <4>4, <4>5, <4>6
    <3>2. Late # {} /\ snap'[r].late = Late
      BY <1>0, <3>1 DEF LoadView, Load, TypeOK
    <3>. QED BY <3>2
  <2>4. LateKept BY <1>0, <2>2, <2>3 DEF TypeOK
  <2>. QED BY <1>a, <2>2, <2>4
<1>2. ASSUME NEW r \in Requests, Create(r) PROVE PlanRow'
  <2>1. /\ UNCHANGED <<total, totals, row, debt, history>> /\ status = "NONE"
        /\ status' = "PENDING_APPROVAL" /\ LateKept
    BY <1>2, <1>b DEF Create
  <2>2. totals.balance # 0 BY <2>1 DEF PlanRow
  <2>. QED BY <2>1, <2>2, PlanStays DEF debt, history
<1>3. CASE Approve
  <2>1. /\ UNCHANGED <<total, totals, row, debt, history>> /\ status = "PENDING_APPROVAL"
        /\ status' = "ACTIVE" /\ LateKept
    BY <1>3, <1>c DEF Approve
  <2>. QED BY <2>1, PlanStays DEF debt, history, Exists
<1>4. ASSUME NEW r \in Requests, Patch(r) PROVE PlanRow'
  <2>1. /\ UNCHANGED <<total, totals, row, debt, waived, overlapped, reopened>>
        /\ status' = target[r] /\ outdated' = (outdated \/ snap[r].status # status)
        /\ Exists /\ LateKept
    BY <1>4, <1>b DEF Patch
  <2>2. snap[r].status \in Payable /\ target[r] \in {"PAUSED", "ACTIVE", "CANCELLED"}
    BY <1>4 DEF Patch, IInv, Asked
  <2>3. status' \notin {"NONE", "COMPLETED"} BY <2>1, <2>2
  <2>4. ~outdated' => status # "COMPLETED" BY <2>1, <2>2 DEF Payable
  <2>. QED BY <2>1, <2>3, <2>4, PlanStays DEF debt
<1>5. ASSUME NEW r \in Requests, Delete(r) PROVE PlanRow'
  <2>1. /\ UNCHANGED <<total, totals, row, debt, history>>
        /\ status' = "DELETED" /\ LateKept
    BY <1>5, <1>b DEF Delete
  <2>2. ~Exists' BY <2>1 DEF Exists
  <2>. QED BY <2>1, <2>2, PlanStays DEF debt, history
<1>6. ASSUME NEW r \in Requests, GiveUp(r) PROVE PlanRow'
  <2>1. UNCHANGED <<plan, row, debt, history>> /\ LateKept BY <1>6, <1>b DEF GiveUp
  <2>. QED BY <1>a, <2>1 DEF debt
<1>7. ASSUME NEW r \in Requests, Claim(r) PROVE PlanRow'
  <2>1. /\ UNCHANGED <<plan, row, debt, history, snap>>
        /\ pc' = [pc EXCEPT ![r] = IF pc[r] = "pay" THEN "payClaimed" ELSE "waiveClaimed"]
    BY <1>7 DEF Claim
  <2>2. LateKept BY <1>0, <2>1 DEF TypeOK
  <2>. QED BY <1>a, <2>1, <2>2 DEF debt
<1>8. ASSUME NEW a \in 1..Owed, PayDirect(a) PROVE PlanRow'
  BY <1>8, <1>a, <1>c DEF PayDirect
<1>9. ASSUME NEW i \in Installments, Elapse(i) PROVE PlanRow'
  BY <1>9, <1>a, <1>c DEF Elapse, debt
<1>10. CASE Sweep
  <2>1. Late \in SUBSET Installments BY <1>0 DEF Late, TypeOK
  <2>2. \A i \in Installments : row'[i].paid = row[i].paid
    BY <1>0, <1>10, <2>1, MarkEffect DEF Sweep
  <2>3. UNCHANGED <<plan, debt, history>> /\ LateKept BY <1>10, <1>c DEF Sweep
  <2>. QED BY <2>2, <2>3, PlanStays DEF plan, debt, history, Exists
<1>11. ASSUME NEW r \in Requests, Mark(r) PROVE PlanRow'
  <2>1. snap[r].late \in SUBSET Installments BY <1>0 DEF TypeOK, Snaps
  <2>2. \A i \in Installments : row'[i].paid = row[i].paid
    BY <1>0, <1>11, <2>1, MarkEffect DEF Mark
  <2>3. /\ UNCHANGED <<plan, debt, snap, waived, overlapped, outdated>>
        /\ reopened \subseteq reopened'
        /\ pc[r] = "view" /\ pc' = [pc EXCEPT ![r] = "marked"]
    BY <1>11 DEF Mark
  <2>4. LateKept BY <1>0, <2>3 DEF TypeOK
  <2>. QED BY <2>2, <2>3, <2>4, PlanStays DEF plan, debt, Exists
<1>12. CASE UNCHANGED vars
  BY <1>12, <1>a, <1>c DEF vars, debt
<1>. QED BY <1>1, <1>2, <1>3, <1>4, <1>5, <1>6, <1>7, <1>8, <1>9, <1>10, <1>11, <1>12,
            PayWritten, WaiveWritten, ViewWritten DEF Next

\* What came in through the plan is what its installments say; the plan row
\* agrees with them, and is complete exactly when all are settled, unless its
\* last writer had read something that was no longer true.
THEOREM PlanRowAgrees == Spec => []PlanRowMatches
<1>1. Init => PlanRow
  <2>. SUFFICES ASSUME Init PROVE PlanRow OBVIOUS
  <2>0. IsFiniteSet(Installments) /\ Total \in Nat \ {0} BY DebtAssumption
  <2>1. PaidSum(row) = 0
    <3>1. \A i \in Installments : Amounts(row)[i] = 0
      BY NoRowsType DEF Init, Amounts
    <3>. QED BY <2>0, <3>1, SumOfZeros DEF PaidSum
  <2>2. SumOver(waived, Installments) = 0
    <3>1. \A i \in Installments : waived[i] = 0 BY DEF Init
    <3>. QED BY <2>0, <3>1, SumOfZeros
  <2>3. totals.balance # 0 /\ totals = PlanTotals(total, row)
    BY <2>0, <2>1 DEF Init, PlanTotals
  <2>4. received = 0 /\ total = Total /\ status = "NONE" BY DEF Init
  <2>5. \A r \in Requests : pc[r] \notin {"view", "marked"} BY DEF Init
  <2>. QED BY <2>0, <2>1, <2>2, <2>3, <2>4, <2>5
       DEF PlanRow, TotalsTrue, Completes, Undistorted, Exists
<1>2. ASSUME IInv, PlanRow PROVE PlanRowMatches
  <2>1. /\ received = MapThenSumSet(LAMBDA i : row[i].paid, Installments)
        /\ ~outdated => totals = Totals(total, row)
    BY <1>2, PaidIsSum, TotalsAre DEF PlanRow, TotalsTrue
  <2>2. SumOver(Due, Installments) = MapThenSumSet(LAMBDA i : Due[i], Installments)
    BY DEF SumOver
  <2>3. ASSUME Undistorted
        PROVE  status = "COMPLETED"
                 <=> \A i \in Installments : row[i].status \in {"PAID", "WAIVED"}
    <3>1. status = "COMPLETED" <=> PlanTotals(total, row).balance = 0
      BY <1>2, <2>3 DEF PlanRow, Completes, TotalsTrue, Undistorted
    <3>2. total \in Int /\ row \in Rows BY <1>2 DEF IInv, TypeOK
    <3>3. PlanTotals(total, row).balance = 0 <=> total <= PaidSum(row)
      BY <3>2, BalanceType
    <3>4. /\ PaidSum(row) \in Nat /\ PaidSum(row) <= total
          /\ PaidSum(row) = total
               <=> \A i \in Installments : row[i].status \in {"PAID", "WAIVED"}
      BY <1>2, <2>3, NothingLeft DEF PlanRow, Undistorted
    <3>5. total <= PaidSum(row) <=> PaidSum(row) = total BY <3>2, <3>4
    <3>. QED BY <3>1, <3>3, <3>4, <3>5
  <2>. QED BY <2>1, <2>2, <2>3 DEF PlanRowMatches, Undistorted
<1>3. IInv /\ PlanRow /\ IInv' /\ [Next]_vars => PlanRow' BY NextPlanRow
<1>. QED BY <1>1, <1>2, <1>3, Inductive, PTL DEF Spec

=============================================================================
