-------------------------------- MODULE Leave -------------------------------
(***************************************************************************)
(* The leave of one employee: requests, and the stored balance of each      *)
(* leave type and year.                                                     *)
(*   lib/hr/leave-service.ts     requestLeave, editLeaveRequest,            *)
(*                               decideLeaveRequest, recomputeBalances,     *)
(*                               grantBalance                               *)
(*   api/leaves/route.ts         approve, reject, cancel at the HR desk     *)
(*   lib/payroll-helpers.ts      the increment the desk applies             *)
(*   lib/hr/leave-balance-governance.ts   adjustLeaveBalance                *)
(*                                                                         *)
(* No call runs in a transaction: each statement is an action, and what a   *)
(* call read is kept until it writes. A balance is derived: every change of *)
(* a request is followed by a recompute, which counts the approved days,    *)
(* counts the pending days and overwrites both. Days are whole, none are    *)
(* carried over, and a request lies within one year.                        *)
(***************************************************************************)
EXTENDS Integers, Sequences, SequencesExt, FiniteSets

CONSTANTS
    Leaves,         \* leave requests that may come to be
    Types,          \* leave types, each of one year
    Listed,         \* the types in the order the database lists them
    Calls,          \* calls in progress
    Days,           \* the working days a request may ask for
    Entitled,       \* allocated days at first, of the types with a balance
    Standard,       \* leaveType.defaultDaysPerYear, as unchecked as a grant
    Steps,          \* what adjustments add
    Grants,         \* the days a grant may allocate: any numbers, the route
                    \* and grantBalance check none
    Most,           \* bound on the days an adjustment leaves allocated
    MaxCalls,       \* bound on the calls that begin
    None            \* no request, no type

ASSUME LeaveAssumption ==
    /\ IsFiniteSet(Leaves) /\ IsFiniteSet(Types)
    /\ None \notin Leaves /\ None \notin Types
    /\ Listed \in Seq(Types) /\ ToSet(Listed) = Types /\ Types # {}
    /\ Days \subseteq Nat \ {0}
    /\ DOMAIN Entitled \subseteq Types
    /\ Entitled \in [DOMAIN Entitled -> Nat]
    /\ Standard \in Int /\ Steps \subseteq Int \ {0} /\ Most \in Nat /\ Grants \subseteq Int
    /\ MaxCalls \in Nat

VARIABLES
    row,            \* status, type and working days of each request
    kept,           \* types with a stored balance
    allocated,      \* allocatedDays
    used,           \* usedDays
    pending,        \* pendingDays
    pc,             \* what a call is about to do
    leave,          \* the request it is about
    want,           \* type and days it asks for, or is to write or count
    verdict,        \* the status it is about to write
    seen,           \* the request as it loaded it
    approved,       \* approved days it has counted, or is to write
    awaited,        \* pending days it has counted, or is to write
    heal,           \* the balances it still has to recompute
    begun,          \* calls that have begun
    misled,         \* history: calls whose reading of a balance, or of the days
                    \* of their own request, is not true
    spoiled,        \* history: balances last written from such a reading, or
                    \* left behind by a call that failed or looked elsewhere
    doubtful        \* history: balances that were lowered, or drawn on blindly

request == <<row>>
balance == <<kept, allocated, used, pending>>
call    == <<pc, leave, want, verdict, seen, approved, awaited, heal>>
history == <<misled, spoiled, doubtful>>
vars    == <<request, balance, call, begun, history>>

-----------------------------------------------------------------------------
Decided == {"APPROVED", "REJECTED", "CANCELLED"}
Rows == [status : {"NONE", "PENDING"} \cup Decided, type : Types \cup {None}, days : Int]
NoRow == [status |-> "NONE", type |-> None, days |-> 0]

\* Less than nothing is allocated only where it was granted, or is the default of
\* the type: no adjustment goes below zero. What is counted is left to
\* BalancesFollowRequests.
TypeOK ==
    /\ row \in [Leaves -> Rows]
    /\ kept \in SUBSET Types
    /\ allocated \in [Types -> Nat \cup Grants \cup {Standard}]
    /\ DOMAIN used = Types /\ DOMAIN pending = Types
    /\ pc \in [Calls -> {"idle", "file", "check", "edit", "decide", "put", "shift", "weigh",
                         "shifting", "adjust", "heal", "counted", "recompute"}]
    /\ leave \in [Calls -> Leaves \cup {None}]
    /\ want \in [Calls -> [type : Types \cup {None}, days : Int]]
    /\ verdict \in [Calls -> Decided]
    /\ seen \in [Calls -> Rows]
    /\ DOMAIN approved = Calls /\ DOMAIN awaited = Calls
    /\ heal \in [Calls -> Seq(Types)]
    /\ begun \in 0..MaxCalls
    /\ misled \in SUBSET Calls
    /\ spoiled \in SUBSET Types /\ doubtful \in SUBSET Types

NoWant == [type |-> None, days |-> 0]

Init ==
    /\ row = [l \in Leaves |-> NoRow]
    /\ kept = DOMAIN Entitled
    /\ allocated = [t \in Types |-> IF t \in DOMAIN Entitled THEN Entitled[t] ELSE 0]
    /\ used = [t \in Types |-> 0] /\ pending = [t \in Types |-> 0]
    /\ pc = [c \in Calls |-> "idle"]
    /\ leave = [c \in Calls |-> None]
    /\ want = [c \in Calls |-> NoWant]
    /\ verdict = [c \in Calls |-> "APPROVED"]
    /\ seen = [c \in Calls |-> NoRow]
    /\ approved = [c \in Calls |-> 0] /\ awaited = [c \in Calls |-> 0]
    /\ heal = [c \in Calls |-> <<>>]
    /\ begun = 0
    /\ misled = {} /\ spoiled = {} /\ doubtful = {}

-----------------------------------------------------------------------------
(* Mutated forms of the definitions below, one plausible bug each; the      *)
(* specification uses none of them.                                         *)

\* an edit recomputes the balance of the new type only
HealsTarget(old, new) == <<new>>
\* the request's own days are headroom whatever type it moves to
AlwaysHeadroom(c) == seen[c].days
\* a rejected request can be decided again
DecidableUnlessCancelled(l) == row[l].status \in {"PENDING", "REJECTED"}
\* an adjustment claws back more than was allocated
AdjustsBelowZero(n) == n <= Most

-----------------------------------------------------------------------------
(* The sums, and the checks calls make on what they load.                   *)

Of(t, statuses) == {l \in Leaves : row[l].type = t /\ row[l].status \in statuses}
\* The database sums no rows to null, which counts as 0.
SumOf(days) ==
    IF DOMAIN days = {} THEN 0 ELSE FoldFunction(LAMBDA d, n : d + n, 0, days)
DaysOf(t, statuses) == SumOf([l \in Of(t, statuses) |-> row[l].days])

\* Allocated days less what is used and pending.
Available(t) == allocated[t] - used[t] - pending[t]

\* A type without a stored balance is not limited.
Fits(t, days, headroom) == t \in kept => days <= Available(t) + headroom

\* What editLeaveRequest adds back: the request's own days as it loaded them,
\* when the type stays.
Headroom(c) == IF seen[c].type = want[c].type THEN seen[c].days ELSE 0

Decidable(l) == row[l].status = "PENDING"
Cancellable(l) == row[l].status \in {"PENDING", "APPROVED", "REJECTED"}

\* adjustLeaveBalance stops at zero; the upper bound is the model's.
Adjustable(n) == n \in 0..Most

\* The balances an edit recomputes, each once.
ToHeal(old, new) == IF old = new THEN <<new>> ELSE <<old, new>>

\* leaveStatusTransitionDelta, from the status the call loaded.
Delta(old, new, days) ==
    [pending |-> IF old = "PENDING" THEN -days ELSE 0,
     used    |-> CASE old = "PENDING" /\ new = "APPROVED" -> days
                   [] old = "APPROVED" /\ new = "CANCELLED" -> -days
                   [] OTHER -> 0]

NotNegative(n) == IF n < 0 THEN 0 ELSE n

-----------------------------------------------------------------------------
(* History: who relies on the balance of a type, and who still owes it a    *)
(* recompute.                                                               *)

Owes(c, t) == \E k \in DOMAIN heal[c] : heal[c][k] = t
Healing(t) == \E c \in Calls : Owes(c, t)

Relying(t) == {c \in Calls : \/ pc[c] \in {"file", "edit"} /\ want[c].type = t
                             \/ pc[c] \in {"counted", "recompute"} /\ Head(heal[c]) = t}

\* A change of the requests of these types makes false what others have read.
Disturbs(types) == misled' = misled \cup UNION {Relying(t) : t \in types}

\* A balance that is off, or missing.
Off(t) == Healing(t) \/ t \in spoiled \/ t \notin kept

\* The days a request takes of a type.
Takes(l, t) ==
    IF row[l].type = t /\ row[l].status \in {"PENDING", "APPROVED"} THEN row[l].days ELSE 0

\* A call counts on days of its request that the request has lost.
Outrun(c) == seen[c].type = want[c].type /\ Takes(leave[c], want[c].type) < seen[c].days

Misleads(c, untrue) == misled' = IF untrue THEN misled \cup {c} ELSE misled \ {c}

-----------------------------------------------------------------------------
(* Calls.                                                                   *)

\* A new call, within the bound.
Begin(c) == pc[c] = "idle" /\ begun < MaxCalls /\ begun' = begun + 1

Load(c, op, l, w, v, s) ==
    /\ Begin(c)
    /\ pc' = [pc EXCEPT ![c] = op]
    /\ leave' = [leave EXCEPT ![c] = l]
    /\ want' = [want EXCEPT ![c] = w]
    /\ verdict' = [verdict EXCEPT ![c] = v]
    /\ seen' = [seen EXCEPT ![c] = s]
    /\ UNCHANGED <<request, balance, approved, awaited, heal, spoiled, doubtful>>

\* What the call has loaded no longer matters ...
Forget(c) ==
    /\ leave' = [leave EXCEPT ![c] = None]
    /\ want' = [want EXCEPT ![c] = NoWant]
    /\ verdict' = [verdict EXCEPT ![c] = "APPROVED"]
    /\ seen' = [seen EXCEPT ![c] = NoRow]
    /\ approved' = [approved EXCEPT ![c] = 0]
    /\ awaited' = [awaited EXCEPT ![c] = 0]

\* ... and the call is over.
Over(c) ==
    /\ Forget(c)
    /\ pc' = [pc EXCEPT ![c] = "idle"]
    /\ heal' = [heal EXCEPT ![c] = <<>>]

\* requestLeave up to its check; the id is new.
LoadFile(c, l, t, d) ==
    /\ row[l].status = "NONE" /\ \A q \in Calls : leave[q] # l
    /\ Fits(t, d, 0)
    /\ Load(c, "file", l, [type |-> t, days |-> d], "APPROVED", NoRow)
    /\ Misleads(c, Off(t))

\* editLeaveRequest loads the request, ...
LoadEdit(c, l, t, d) ==
    /\ row[l].status = "PENDING"
    /\ Load(c, "check", l, [type |-> t, days |-> d], "APPROVED", row[l])
    /\ UNCHANGED misled

\* ... and checks the balance by then, adding back what it has loaded.
CheckEdit(c) ==
    LET t == want[c].type IN
    /\ pc[c] = "check"
    /\ Fits(t, want[c].days, Headroom(c))
    /\ pc' = [pc EXCEPT ![c] = "edit"]
    /\ Misleads(c, Off(t) \/ Outrun(c))
    /\ UNCHANGED <<request, balance, leave, want, verdict, seen, approved, awaited, heal,
                   begun, spoiled, doubtful>>

\* decideLeaveRequest, and approve, reject or cancel at the desk.
LoadDecide(c, l, v) ==
    /\ Decidable(l) /\ v # "CANCELLED"
    /\ Load(c, "decide", l, NoWant, v, row[l])
    /\ UNCHANGED misled

LoadPut(c, l, v) ==
    /\ IF v = "CANCELLED" THEN Cancellable(l) ELSE Decidable(l)
    /\ Load(c, "put", l, NoWant, v, row[l])
    /\ UNCHANGED misled

\* adjustLeaveBalance keeps the allocation it is going to write.
LoadAdjust(c, t, d) ==
    /\ t \in kept /\ Adjustable(allocated[t] + d)
    /\ Load(c, "adjust", None, [type |-> t, days |-> allocated[t] + d], "APPROVED", NoRow)
    /\ UNCHANGED misled

\* The process dies, or an error ends the call: after a change of a request an
\* error in the recompute is swallowed.
GiveUp(c) ==
    /\ pc[c] # "idle"
    /\ Over(c)
    /\ spoiled' = spoiled \cup ToSet(heal[c])
    /\ misled' = misled \ {c}
    /\ UNCHANGED <<request, balance, begun, doubtful>>

-----------------------------------------------------------------------------
(* Changing a request. The update goes by id.                               *)

\* What follows: the balances of these types are recomputed, after the desk's
\* increment, if the call comes from there.
Heals(c, types) ==
    /\ heal' = [heal EXCEPT ![c] = types]
    /\ IF pc[c] = "put"
       THEN /\ pc' = [pc EXCEPT ![c] = "shift"]
            /\ UNCHANGED <<leave, want, verdict, seen, approved, awaited>>
       ELSE /\ pc' = [pc EXCEPT ![c] = "heal"]
            /\ Forget(c)
    /\ UNCHANGED <<balance, begun>>

File(c) ==
    LET t == want[c].type IN
    /\ pc[c] = "file"
    /\ row' = [row EXCEPT ![leave[c]] =
                  [status |-> "PENDING", type |-> t, days |-> want[c].days]]
    /\ doubtful' = IF c \in misled THEN doubtful \cup {t} ELSE doubtful
    /\ Disturbs({t})
    /\ Heals(c, <<t>>)
    /\ UNCHANGED spoiled

\* editLeaveRequest recomputes the type it loaded and the one it writes.
Edit(c) ==
    LET l == leave[c]
        t == want[c].type
    IN  /\ pc[c] = "edit"
        /\ row' = [row EXCEPT ![l] =
                      [status |-> @.status, type |-> t, days |-> want[c].days]]
        /\ doubtful' = IF c \in misled THEN doubtful \cup {t} ELSE doubtful
        /\ spoiled' = spoiled \cup ({row[l].type} \ {seen[c].type, t})
        /\ Disturbs({row[l].type, t})
        /\ Heals(c, ToHeal(seen[c].type, t))

\* decideLeaveRequest and the desk write their verdict over whatever the
\* status has become, and recompute the type they loaded.
Decide(c) ==
    LET l == leave[c] IN
    /\ pc[c] \in {"decide", "put"}
    /\ row' = [row EXCEPT ![l].status = verdict[c]]
    /\ doubtful' = IF /\ verdict[c] = "APPROVED"
                      /\ row[l].status \notin {"PENDING", "APPROVED"}
                   THEN doubtful \cup {row[l].type} ELSE doubtful
    /\ spoiled' = spoiled \cup ({row[l].type} \ {seen[c].type})
    /\ Disturbs({row[l].type})
    /\ Heals(c, <<seen[c].type>>)

-----------------------------------------------------------------------------
(* The allocation.                                                          *)

\* An allocation that sinks may leave less than is committed.
Allocates(t, n) ==
    /\ allocated' = [allocated EXCEPT ![t] = n]
    /\ doubtful' = IF n < allocated[t] THEN doubtful \cup {t} ELSE doubtful

-----------------------------------------------------------------------------
(* The desk's increment: updateLeaveBalanceOnStatusChange reads the request, *)
ReadShift(c) ==
    /\ pc[c] = "shift"
    /\ pc' = [pc EXCEPT ![c] = "weigh"]
    /\ want' = [want EXCEPT ![c] = [type |-> row[leave[c]].type, days |-> row[leave[c]].days]]
    /\ UNCHANGED <<request, balance, leave, verdict, seen, approved, awaited, heal,
                   begun, history>>

\* ... then its balance, which getOrCreateLeaveBalance creates if need be, ...
LoadShift(c) ==
    LET t == want[c].type
        d == Delta(seen[c].status, verdict[c], want[c].days)
    IN  /\ pc[c] = "weigh"
        /\ kept' = kept \cup {t}
        /\ IF t \in kept THEN UNCHANGED <<allocated, doubtful>> ELSE Allocates(t, Standard)
        /\ IF d = [pending |-> 0, used |-> 0]
           THEN pc' = [pc EXCEPT ![c] = "heal"] /\ Forget(c)
           ELSE /\ pc' = [pc EXCEPT ![c] = "shifting"]
                /\ approved' = [approved EXCEPT ![c] = NotNegative(used[t] + d.used)]
                /\ awaited' = [awaited EXCEPT ![c] = NotNegative(pending[t] + d.pending)]
                /\ UNCHANGED <<leave, want, verdict, seen>>
        /\ UNCHANGED <<request, used, pending, heal, begun, misled, spoiled>>

\* ... and writes the new values.
Shift(c) ==
    LET t == want[c].type IN
    /\ pc[c] = "shifting"
    /\ used' = [used EXCEPT ![t] = approved[c]]
    /\ pending' = [pending EXCEPT ![t] = awaited[c]]
    /\ spoiled' = spoiled \cup ({t} \ {seen[c].type})
    /\ pc' = [pc EXCEPT ![c] = "heal"]
    /\ Forget(c)
    /\ UNCHANGED <<request, kept, allocated, heal, begun, misled, doubtful>>

-----------------------------------------------------------------------------
(* recomputeBalances: two counts and a write.                               *)

CountApproved(c) ==
    /\ pc[c] = "heal"
    /\ pc' = [pc EXCEPT ![c] = "counted"]
    /\ approved' = [approved EXCEPT ![c] = DaysOf(Head(heal[c]), {"APPROVED"})]
    /\ misled' = misled \ {c}
    /\ UNCHANGED <<request, balance, leave, want, verdict, seen, awaited, heal,
                   begun, spoiled, doubtful>>

CountPending(c) ==
    /\ pc[c] = "counted"
    /\ pc' = [pc EXCEPT ![c] = "recompute"]
    /\ awaited' = [awaited EXCEPT ![c] = DaysOf(Head(heal[c]), {"PENDING"})]
    /\ UNCHANGED <<request, balance, leave, want, verdict, seen, approved, heal,
                   begun, history>>

\* A balance it creates has no days allocated.
Recompute(c) ==
    LET t == Head(heal[c]) IN
    /\ pc[c] = "recompute"
    /\ kept' = kept \cup {t}
    /\ used' = [used EXCEPT ![t] = approved[c]]
    /\ pending' = [pending EXCEPT ![t] = awaited[c]]
    /\ spoiled' = IF c \in misled THEN spoiled \cup {t} ELSE spoiled \ {t}
    /\ misled' = misled \ {c}
    /\ heal' = [heal EXCEPT ![c] = Tail(@)]
    /\ pc' = [pc EXCEPT ![c] = IF Tail(heal[c]) = <<>> THEN "idle" ELSE "heal"]
    /\ Forget(c)
    /\ UNCHANGED <<request, allocated, begun, doubtful>>

\* A recompute that fails after an edit does not keep the next from running.
Skip(c) ==
    /\ pc[c] \in {"heal", "counted", "recompute"} /\ Len(heal[c]) > 1
    /\ spoiled' = spoiled \cup {Head(heal[c])}
    /\ misled' = misled \ {c}
    /\ heal' = [heal EXCEPT ![c] = Tail(@)]
    /\ pc' = [pc EXCEPT ![c] = "heal"]
    /\ Forget(c)
    /\ UNCHANGED <<request, balance, begun, doubtful>>

-----------------------------------------------------------------------------
(* What the allocation is changed by otherwise.                             *)

Adjust(c) ==
    /\ pc[c] = "adjust"
    /\ Allocates(want[c].type, want[c].days)
    /\ Over(c)
    /\ UNCHANGED <<request, kept, used, pending, begun, misled, spoiled>>

\* A grant sets the allocation; its route then recomputes every type.
Grant(c, t, n) ==
    /\ Begin(c)
    /\ kept' = kept \cup {t}
    /\ Allocates(t, n)
    /\ pc' = [pc EXCEPT ![c] = "heal"]
    /\ heal' = [heal EXCEPT ![c] = Listed]
    /\ UNCHANGED <<request, used, pending, leave, want, verdict, seen, approved,
                   awaited, misled, spoiled>>

Next ==
    \E c \in Calls :
        \/ \E l \in Leaves, t \in Types, d \in Days : LoadFile(c, l, t, d) \/ LoadEdit(c, l, t, d)
        \/ \E l \in Leaves, v \in Decided : LoadDecide(c, l, v) \/ LoadPut(c, l, v)
        \/ \E t \in Types, d \in Steps : LoadAdjust(c, t, d)
        \/ \E t \in Types, n \in Grants : Grant(c, t, n)
        \/ CheckEdit(c) \/ File(c) \/ Edit(c) \/ Decide(c)
        \/ ReadShift(c) \/ LoadShift(c) \/ Shift(c)
        \/ CountApproved(c) \/ CountPending(c) \/ Recompute(c) \/ Skip(c)
        \/ Adjust(c) \/ GiveUp(c)

Spec == Init /\ [][Next]_vars

-----------------------------------------------------------------------------
(* Safety.                                                                  *)

\* A stored balance says what the requests say, as long as no call still owes
\* it a recompute: it can stay off only after two calls overlapped on it, after
\* one failed, or after one decided a request that had been moved meanwhile.
BalancesFollowRequests ==
    \A t \in Types :
        \/ t \in spoiled \/ Healing(t)
        \/ used[t] = DaysOf(t, {"APPROVED"}) /\ pending[t] = DaysOf(t, {"PENDING"})

\* No more days are granted and applied for than are allocated, unless the
\* allocation sank, nobody had allocated any, a call relied on a balance that
\* was off, an edit counted on days its request had lost since it was loaded, or
\* an approval overwrote another decision.
NeverOverCommitted ==
    \A t \in Types :
        t \in doubtful \/ DaysOf(t, {"PENDING", "APPROVED"}) <= allocated[t]

\* A decided request changes only by being cancelled, unless by a call that
\* loaded it before it was decided.
DecisionsStand ==
    [][\A l \in Leaves :
          row[l].status \in Decided /\ row'[l] # row[l]
          => \/ row'[l] = [row[l] EXCEPT !.status = "CANCELLED"]
             \/ \E c \in Calls : /\ leave[c] = l /\ pc'[c] # pc[c]
                                 /\ seen[c].status # row[l].status]_vars

=============================================================================
