---------------------------- MODULE LeaveProofs -----------------------------
(***************************************************************************)
(* Proofs about Leave for any requests, types and calls. The argument: a    *)
(* call that changes a request owes a recompute to every balance the change *)
(* touches, or the balance is spoiled; and what a call that is not misled   *)
(* has counted is what the requests still say when it writes it. There is   *)
(* room for what a call is about to file, or it has been misled.            *)
(***************************************************************************)
EXTENDS Leave, Sums, SequenceTheorems, TLAPS

\* A request that was filed has a type.
RowsTyped == \A l \in Leaves : row[l].status # "NONE" => row[l].type \in Types

\* What a call has loaded, and which balances it owes a recompute.
Shape(c) ==
    /\ pc[c] \in {"file", "check", "edit", "decide", "put", "shift", "weigh", "shifting"}
          => leave[c] \in Leaves
    /\ pc[c] \in {"check", "edit", "decide", "put", "shift", "weigh", "shifting"}
          => seen[c].type \in Types /\ row[leave[c]].status # "NONE"
    /\ pc[c] \in {"check", "edit", "decide", "put"}
          => \/ seen[c].status = "PENDING"
             \/ pc[c] \notin {"check", "edit"} /\ verdict[c] = "CANCELLED"
    /\ pc[c] \in {"file", "check", "edit", "weigh", "shifting", "adjust"} => want[c].type \in Types
    /\ pc[c] = "adjust" => want[c].days \in Nat
    /\ pc[c] \in {"heal", "counted", "recompute"} => heal[c] # <<>>
    /\ pc[c] \in {"shift", "weigh", "shifting"} => heal[c] = <<seen[c].type>>
    /\ pc[c] \in {"idle", "file", "check", "edit", "decide", "put", "adjust"} => heal[c] = <<>>

\* What a call has counted is true unless it is misled.
CountsTrue(c) ==
    c \notin misled =>
        /\ pc[c] \in {"counted", "recompute"} => approved[c] = DaysOf(Head(heal[c]), {"APPROVED"})
        /\ pc[c] = "recompute" => awaited[c] = DaysOf(Head(heal[c]), {"PENDING"})

\* A request being filed is new, and one call files it.
NewRows ==
    \A c \in Calls : pc[c] = "file" =>
        /\ row[leave[c]].status = "NONE"
        /\ \A q \in Calls : pc[q] = "file" /\ leave[q] = leave[c] => q = c

IInv ==
    /\ TypeOK
    /\ RowsTyped
    /\ NewRows
    /\ \A c \in Calls : Shape(c)
    /\ \A c \in Calls : CountsTrue(c)
    /\ BalancesFollowRequests

\* The steps of one call; the loads first.
Loading(c) ==
    \/ \E l \in Leaves, t \in Types, d \in Days : LoadFile(c, l, t, d) \/ LoadEdit(c, l, t, d)
    \/ \E l \in Leaves, v \in Decided : LoadDecide(c, l, v) \/ LoadPut(c, l, v)
    \/ \E t \in Types, d \in Steps : LoadAdjust(c, t, d)

StepOf(c) ==
    \/ Loading(c)
    \/ \E t \in Types, n \in Grants : Grant(c, t, n)
    \/ CheckEdit(c) \/ File(c) \/ Edit(c) \/ Decide(c)
    \/ ReadShift(c) \/ LoadShift(c) \/ Shift(c)
    \/ CountApproved(c) \/ CountPending(c) \/ Recompute(c) \/ Skip(c)
    \/ Adjust(c) \/ GiveUp(c)

-----------------------------------------------------------------------------
\* The days of a type depend on the requests of that type only.
LEMMA DaysStay ==
    ASSUME NEW t, NEW S, "NONE" \notin S,
           \A l \in Leaves : \/ row'[l] = row[l]
                             \/ /\ row[l].type # t \/ row[l].status = "NONE"
                                /\ row'[l].type # t
    PROVE  DaysOf(t, S)' = DaysOf(t, S)
<1>1. {l \in Leaves : row'[l].type = t /\ row'[l].status \in S}
        = {l \in Leaves : row[l].type = t /\ row[l].status \in S}
  OBVIOUS
<1>2. [l \in {l \in Leaves : row'[l].type = t /\ row'[l].status \in S} |-> row'[l].days]
        = [l \in {l \in Leaves : row[l].type = t /\ row[l].status \in S} |-> row[l].days]
  BY <1>1
<1>. QED BY <1>2 DEF DaysOf, Of

\* What a queue of recomputes owes besides its first, the rest of it owes.
LEMMA TailOwes ==
    ASSUME NEW s \in Seq(Types), s # <<>>, NEW k \in DOMAIN s, s[k] # Head(s)
    PROVE  \E j \in DOMAIN Tail(s) : Tail(s)[j] = s[k]
<1>1. k - 1 \in DOMAIN Tail(s) /\ Tail(s)[k - 1] = s[k] OBVIOUS
<1>. QED BY <1>1

\* Something is left of a queue of more than one.
LEMMA LongTail == ASSUME NEW s \in Seq(Types), Len(s) > 1 PROVE Tail(s) # <<>>
<1>1. s # <<>> /\ Len(s) \in Nat OBVIOUS
<1>2. Len(Tail(s)) = Len(s) - 1 BY <1>1, HeadTailProperties
<1>3. Len(Tail(s)) # 0 BY <1>1, <1>2
<1>4. Len(<<>>) = 0 OBVIOUS
<1>. QED BY <1>3, <1>4

\* The initial state has all parts of the invariant.
LEMMA InitInv == Init => IInv
<1>. SUFFICES ASSUME Init PROVE IInv OBVIOUS
<1>. USE LeaveAssumption DEF Init
<1>1. NoRow \in Rows /\ NoWant \in [type : Types \cup {None}, days : Int]
  BY DEF NoRow, NoWant, Rows
<1>2. TypeOK BY <1>1 DEF TypeOK, Decided
<1>3. RowsTyped BY DEF RowsTyped, NoRow
<1>4. NewRows /\ \A c \in Calls : Shape(c) /\ CountsTrue(c) BY DEF NewRows, Shape, CountsTrue
<1>5. BalancesFollowRequests
  <2>1. ASSUME NEW t \in Types, NEW S, "NONE" \notin S PROVE DaysOf(t, S) = SumOf(<<>>)
    <3>1. {l \in Leaves : row[l].type = t /\ row[l].status \in S} = {} BY <2>1 DEF NoRow
    <3>2. [l \in {} |-> row[l].days] = <<>> OBVIOUS
    <3>. QED BY <3>1, <3>2 DEF DaysOf, Of
  <2>2. SumOf(<<>>) = 0
    <3>1. DOMAIN <<>> = {} OBVIOUS
    <3>. QED BY <3>1 DEF SumOf
  <2>. QED BY <2>1, <2>2 DEF BalancesFollowRequests
<1>. QED BY <1>2, <1>3, <1>4, <1>5 DEF IInv
-----------------------------------------------------------------------------
Wants == [type : Types \cup {None}, days : Int]

\* A load that brings a call what it needs.
Loads(c, op, l, w, v, s) ==
    /\ Load(c, op, l, w, v, s)
    /\ op \in {"file", "check", "decide", "put", "adjust"}
    /\ l \in Leaves \cup {None} /\ w \in Wants /\ v \in Decided /\ s \in Rows
    /\ op # "adjust" => l \in Leaves
    /\ op \in {"check", "decide", "put"}
          => /\ s.type \in Types /\ row[l].status # "NONE"
             /\ s.status = "PENDING" \/ (op # "check" /\ v = "CANCELLED")
    /\ op = "file" => row[l].status = "NONE" /\ \A q \in Calls : leave[q] # l
    /\ op \in {"file", "check", "adjust"} => w.type \in Types
    /\ op = "adjust" => w.days \in Nat

\* Every call but a grant begins with such a load.
LEMMA LoadsLoad ==
    ASSUME IInv, NEW c \in Calls, Loading(c)
    PROVE  /\ \E op, l, w, v, s : Loads(c, op, l, w, v, s)
           /\ misled' \in SUBSET Calls
           /\ misled \ {c} \subseteq misled'
<1>. USE DEF IInv
<1>0. /\ NoRow \in Rows /\ NoWant \in Wants /\ "APPROVED" \in Decided
      /\ \A l \in Leaves : row[l] \in Rows
      /\ \A t \in Types, d \in Int : [type |-> t, days |-> d] \in Wants
  BY DEF NoRow, NoWant, Rows, Wants, Decided, TypeOK
<1>1. ASSUME NEW l \in Leaves, NEW t \in Types, NEW d \in Days, LoadFile(c, l, t, d)
      PROVE  Loads(c, "file", l, [type |-> t, days |-> d], "APPROVED", NoRow)
  <2>1. /\ Load(c, "file", l, [type |-> t, days |-> d], "APPROVED", NoRow) /\ d \in Int
        /\ row[l].status = "NONE" /\ \A q \in Calls : leave[q] # l
    BY <1>1, LeaveAssumption DEF LoadFile
  <2>. QED BY <1>0, <2>1 DEF Loads
<1>2. ASSUME NEW l \in Leaves, NEW t \in Types, NEW d \in Days, LoadEdit(c, l, t, d)
      PROVE  Loads(c, "check", l, [type |-> t, days |-> d], "APPROVED", row[l])
  <2>1. /\ Load(c, "check", l, [type |-> t, days |-> d], "APPROVED", row[l]) /\ d \in Int
        /\ row[l].status = "PENDING" /\ row[l].type \in Types
    BY <1>2, LeaveAssumption DEF LoadEdit, RowsTyped
  <2>. QED BY <1>0, <2>1 DEF Loads
<1>3. ASSUME NEW l \in Leaves, NEW v \in Decided, LoadDecide(c, l, v)
      PROVE  Loads(c, "decide", l, NoWant, v, row[l])
  <2>1. /\ Load(c, "decide", l, NoWant, v, row[l])
        /\ row[l].status = "PENDING" /\ row[l].type \in Types
    BY <1>3 DEF LoadDecide, Decidable, RowsTyped
  <2>. QED BY <1>0, <2>1 DEF Loads
<1>4. ASSUME NEW l \in Leaves, NEW v \in Decided, LoadPut(c, l, v)
      PROVE  Loads(c, "put", l, NoWant, v, row[l])
  <2>1. /\ Load(c, "put", l, NoWant, v, row[l])
        /\ row[l].status # "NONE" /\ row[l].type \in Types
        /\ row[l].status = "PENDING" \/ v = "CANCELLED"
    BY <1>4 DEF LoadPut, Decidable, Cancellable, RowsTyped
  <2>. QED BY <1>0, <2>1 DEF Loads
<1>5. ASSUME NEW t \in Types, NEW d \in Steps, LoadAdjust(c, t, d)
      PROVE  Loads(c, "adjust", None, [type |-> t, days |-> allocated[t] + d],
                   "APPROVED", NoRow)
  <2>1. /\ Load(c, "adjust", None, [type |-> t, days |-> allocated[t] + d],
                "APPROVED", NoRow)
        /\ allocated[t] + d \in Nat
    BY <1>5, LeaveAssumption DEF LoadAdjust, Adjustable, TypeOK
  <2>2. PICK n \in Nat : n = allocated[t] + d BY <2>1
  <2>3. Loads(c, "adjust", None, [type |-> t, days |-> n], "APPROVED", NoRow)
    BY <1>0, <2>1, <2>2 DEF Loads
  <2>. QED BY <2>2, <2>3
<1>6. misled' \in SUBSET Calls /\ misled \ {c} \subseteq misled'
  BY DEF Loading, LoadFile, LoadEdit, LoadDecide, LoadPut, LoadAdjust, Misleads, TypeOK
<1>7. \E op, l, w, v, s : Loads(c, op, l, w, v, s)
  BY <1>1, <1>2, <1>3, <1>4, <1>5 DEF Loading
<1>. QED BY <1>6, <1>7

\* A call forgets with its types kept.
LEMMA ForgetType ==
    ASSUME TypeOK, NEW c \in Calls, Forget(c)
    PROVE  /\ leave' \in [Calls -> Leaves \cup {None}]
           /\ want' \in [Calls -> Wants]
           /\ verdict' \in [Calls -> Decided]
           /\ seen' \in [Calls -> Rows]
           /\ DOMAIN approved' = Calls /\ DOMAIN awaited' = Calls
           /\ \A q \in Calls \ {c} :
                 /\ leave'[q] = leave[q] /\ want'[q] = want[q] /\ verdict'[q] = verdict[q]
                 /\ seen'[q] = seen[q]
                 /\ approved'[q] = approved[q] /\ awaited'[q] = awaited[q]
<1>1. NoRow \in Rows /\ NoWant \in Wants /\ "APPROVED" \in Decided
  BY DEF NoRow, NoWant, Rows, Wants, Decided
<1>. QED BY <1>1 DEF Forget, TypeOK, Wants

-----------------------------------------------------------------------------
\* The types of the request's types, and of what a call that changes it leaves.
LEMMA HealsType ==
    ASSUME TypeOK, NEW c \in Calls, NEW s \in Seq(Types), Heals(c, s)
    PROVE  /\ kept' = kept /\ allocated' = allocated /\ used' = used /\ pending' = pending
           /\ begun' = begun
           /\ pc' \in [Calls -> {"idle", "file", "check", "edit", "decide", "put", "shift", "weigh",
                                 "shifting", "adjust", "heal", "counted", "recompute"}]
           /\ leave' \in [Calls -> Leaves \cup {None}]
           /\ want' \in [Calls -> Wants]
           /\ verdict' \in [Calls -> Decided]
           /\ seen' \in [Calls -> Rows]
           /\ DOMAIN approved' = Calls /\ DOMAIN awaited' = Calls
           /\ heal' \in [Calls -> Seq(Types)]
<1>1. CASE pc[c] = "put" BY <1>1 DEF Heals, TypeOK, Wants, balance
<1>2. CASE pc[c] # "put" BY <1>2, ForgetType DEF Heals, TypeOK, balance
<1>. QED BY <1>1, <1>2

\* Changing requests misleads calls only.
LEMMA DisturbsType ==
    ASSUME TypeOK, NEW types, Disturbs(types)
    PROVE  misled' \in SUBSET Calls
BY DEF Disturbs, TypeOK, Relying

\* An edited or decided request is a request.
LEMMA RowChanged ==
    ASSUME NEW r \in Rows
    PROVE  /\ \A t \in Types, d \in Int : [status |-> r.status, type |-> t, days |-> d] \in Rows
           /\ \A v \in Decided : [r EXCEPT !.status = v] \in Rows
BY DEF Rows

\* Every step is a step of one call.
LEMMA StepsAreCalls == Next <=> \E c \in Calls : StepOf(c)
BY DEF Next, StepOf, Loading

\* The next step keeps the types.
LEMMA NextType == IInv /\ Next => TypeOK'
<1>. SUFFICES ASSUME IInv, Next PROVE TypeOK' OBVIOUS
<1>. USE DEF IInv
<1>0. PICK c \in Calls : StepOf(c) BY StepsAreCalls
<1>a. /\ TypeOK /\ Shape(c) /\ heal[c] \in Seq(Types)
      /\ want \in [Calls -> Wants]
  BY DEF TypeOK, Wants
<1>1. ASSUME Loading(c) PROVE TypeOK'
  <2>1. (\E op, l, w, v, s : Loads(c, op, l, w, v, s)) /\ misled' \in SUBSET Calls
    BY <1>1, LoadsLoad
  <2>2. PICK op, l, w, v, s : Loads(c, op, l, w, v, s) BY <2>1
  <2>3. begun + 1 \in 0..MaxCalls
    BY <2>2, LeaveAssumption DEF Loads, Load, Begin, TypeOK
  <2>. QED BY <2>1, <2>2, <2>3 DEF Loads, Load, Begin, TypeOK, Wants, request, balance
<1>2. ASSUME NEW t \in Types, NEW n \in Grants, Grant(c, t, n) PROVE TypeOK'
  <2>1. begun + 1 \in 0..MaxCalls /\ n \in Grants /\ Listed \in Seq(Types)
    BY <1>2, LeaveAssumption DEF Grant, Begin, TypeOK
  <2>. QED BY <1>2, <2>1 DEF Grant, Begin, Allocates, TypeOK, request
<1>3. CASE File(c)
  <2>1. /\ leave[c] \in Leaves /\ want[c].type \in Types
    BY <1>a, <1>3 DEF Shape, File
  <2>2. [status |-> "PENDING", type |-> want[c].type, days |-> want[c].days] \in Rows
    BY <2>1, <1>a DEF Rows, Wants
  <2>3. row' \in [Leaves -> Rows] BY <1>3, <2>1, <2>2 DEF File, TypeOK
  <2>4. Heals(c, <<want[c].type>>) /\ <<want[c].type>> \in Seq(Types) BY <1>3, <2>1 DEF File
  <2>5. misled' \in SUBSET Calls BY <1>3, <1>a, DisturbsType DEF File
  <2>6. spoiled' = spoiled /\ doubtful' \in SUBSET Types BY <1>3, <2>1 DEF File, TypeOK
  <2>. QED BY <1>a, <2>3, <2>4, <2>5, <2>6, HealsType DEF TypeOK, Wants
<1>4. CASE Edit(c)
  <2>1. /\ leave[c] \in Leaves /\ want[c].type \in Types /\ seen[c].type \in Types
        /\ row[leave[c]].type \in Types
    BY <1>a, <1>4 DEF Shape, Edit, RowsTyped
  <2>2. [status |-> row[leave[c]].status, type |-> want[c].type, days |-> want[c].days] \in Rows
    <3>1. row[leave[c]] \in Rows /\ want[c].days \in Int BY <2>1, <1>a DEF TypeOK, Wants
    <3>. QED BY <2>1, <3>1, RowChanged
  <2>3. row' \in [Leaves -> Rows]
    <3>1. row' = [row EXCEPT ![leave[c]] =
                     [status |-> row[leave[c]].status, type |-> want[c].type, days |-> want[c].days]]
      BY <1>4, <1>a, <2>1 DEF Edit, TypeOK
    <3>. QED BY <3>1, <2>1, <2>2, <1>a DEF TypeOK
  <2>4. Heals(c, ToHeal(seen[c].type, want[c].type)) /\ ToHeal(seen[c].type, want[c].type) \in Seq(Types)
    BY <1>4, <2>1 DEF Edit, ToHeal
  <2>5. misled' \in SUBSET Calls BY <1>4, <1>a, DisturbsType DEF Edit
  <2>6. spoiled' \in SUBSET Types /\ doubtful' \in SUBSET Types BY <1>4, <2>1 DEF Edit, TypeOK
  <2>. QED BY <1>a, <2>3, <2>4, <2>5, <2>6, HealsType DEF TypeOK, Wants
<1>5. CASE Decide(c)
  <2>1. /\ leave[c] \in Leaves /\ seen[c].type \in Types
        /\ row[leave[c]].type \in Types
    BY <1>a, <1>5 DEF Shape, Decide, RowsTyped
  <2>2. [row[leave[c]] EXCEPT !.status = verdict[c]] \in Rows
    <3>1. row[leave[c]] \in Rows /\ verdict[c] \in Decided BY <2>1, <1>a DEF TypeOK
    <3>. QED BY <3>1, RowChanged
  <2>3. row' \in [Leaves -> Rows]
    <3>1. row' = [row EXCEPT ![leave[c]] = [row[leave[c]] EXCEPT !.status = verdict[c]]]
      BY <1>5, <1>a, <2>1 DEF Decide, TypeOK, Rows
    <3>. QED BY <3>1, <2>1, <2>2, <1>a DEF TypeOK
  <2>4. Heals(c, <<seen[c].type>>) /\ <<seen[c].type>> \in Seq(Types) BY <1>5, <2>1 DEF Decide
  <2>5. misled' \in SUBSET Calls BY <1>5, <1>a, DisturbsType DEF Decide
  <2>6. spoiled' \in SUBSET Types /\ doubtful' \in SUBSET Types BY <1>5, <2>1 DEF Decide, TypeOK
  <2>. QED BY <1>a, <2>3, <2>4, <2>5, <2>6, HealsType DEF TypeOK, Wants
<1>6. CASE LoadShift(c)
  <2>1. want[c].type \in Types BY <1>a, <1>6 DEF Shape, LoadShift
  <2>2. /\ kept' \in SUBSET Types /\ allocated' \in [Types -> Nat \cup Grants \cup {Standard}]
        /\ doubtful' \in SUBSET Types
        /\ UNCHANGED <<row, used, pending, heal, begun, misled, spoiled>>
    BY <1>6, <2>1 DEF LoadShift, Allocates, TypeOK, request
  <2>3. \/ pc' = [pc EXCEPT ![c] = "heal"] /\ Forget(c)
        \/ /\ pc' = [pc EXCEPT ![c] = "shifting"]
           /\ DOMAIN approved' = DOMAIN approved /\ DOMAIN awaited' = DOMAIN awaited
           /\ UNCHANGED <<leave, want, verdict, seen>>
    BY <1>6 DEF LoadShift
  <2>4. CASE pc' = [pc EXCEPT ![c] = "heal"] /\ Forget(c)
    BY <1>a, <2>2, <2>4, ForgetType DEF TypeOK, Wants
  <2>5. CASE /\ pc' = [pc EXCEPT ![c] = "shifting"]
             /\ DOMAIN approved' = DOMAIN approved /\ DOMAIN awaited' = DOMAIN awaited
             /\ UNCHANGED <<leave, want, verdict, seen>>
    BY <1>a, <2>2, <2>5 DEF TypeOK, Wants
  <2>. QED BY <2>3, <2>4, <2>5
<1>7. CASE Shift(c)
  BY <1>7, <1>a, ForgetType DEF Shape, Shift, TypeOK, Wants, request
<1>8. CASE CountApproved(c)
  BY <1>8 DEF CountApproved, TypeOK, request, balance
<1>9. CASE CountPending(c)
  BY <1>9 DEF CountPending, TypeOK, request, balance, history
<1>10. CASE Recompute(c)
  <2>1. heal[c] # <<>> /\ Head(heal[c]) \in Types /\ Tail(heal[c]) \in Seq(Types)
    BY <1>a, <1>10 DEF Shape, Recompute
  <2>2. heal' \in [Calls -> Seq(Types)] BY <1>10, <2>1 DEF Recompute, TypeOK
  <2>. QED BY <1>a, <1>10, <2>1, <2>2, ForgetType DEF Recompute, TypeOK, Wants, request
<1>11. CASE Skip(c)
  <2>1. heal[c] # <<>> /\ Head(heal[c]) \in Types /\ Tail(heal[c]) \in Seq(Types)
    BY <1>a, <1>11 DEF Shape, Skip
  <2>2. heal' \in [Calls -> Seq(Types)] BY <1>11, <2>1 DEF Skip, TypeOK
  <2>. QED BY <1>a, <1>11, <2>1, <2>2, ForgetType DEF Skip, TypeOK, Wants, request, balance
<1>12. CASE Adjust(c)
  <2>1. want[c].type \in Types /\ want[c].days \in Nat BY <1>a, <1>12 DEF Shape, Adjust
  <2>. QED BY <1>a, <1>12, <2>1, ForgetType DEF Adjust, Allocates, Over, TypeOK, Wants, request
<1>13. CASE GiveUp(c)
  <2>1. ToSet(heal[c]) \subseteq Types BY <1>a DEF ToSet
  <2>. QED BY <1>a, <1>13, <2>1, ForgetType DEF GiveUp, Over, TypeOK, Wants, request, balance
<1>14. CASE CheckEdit(c)
  BY <1>14 DEF CheckEdit, Misleads, TypeOK, request, balance
<1>15. CASE ReadShift(c)
  <2>1. leave[c] \in Leaves /\ row[leave[c]].type \in Types
    BY <1>a, <1>15 DEF Shape, ReadShift, RowsTyped
  <2>2. row[leave[c]].days \in Int BY <2>1 DEF TypeOK, Rows
  <2>. QED BY <1>15, <2>1, <2>2 DEF ReadShift, TypeOK, request, balance, history
<1>. QED BY <1>0, <1>1, <1>2, <1>3, <1>4, <1>5, <1>6, <1>7, <1>8, <1>9, <1>10, <1>11, <1>12, <1>13,
            <1>14, <1>15
   DEF StepOf

-----------------------------------------------------------------------------
\* A step of another call leaves what this one has loaded and counted.
Untouched(q) ==
    /\ pc'[q] = pc[q] /\ leave'[q] = leave[q] /\ want'[q] = want[q] /\ seen'[q] = seen[q]
    /\ verdict'[q] = verdict[q]
    /\ approved'[q] = approved[q] /\ awaited'[q] = awaited[q] /\ heal'[q] = heal[q]

Others(c) == \A q \in Calls \ {c} : Untouched(q)

\* No request is ever deleted, and every request keeps some type.
Filed ==
    /\ \A l \in Leaves : row[l].status # "NONE" => row'[l].status # "NONE"
    /\ RowsTyped'

\* What changing a request leaves to the call.
LEMMA HealsOthers ==
    ASSUME TypeOK, NEW c \in Calls, NEW s, Heals(c, s)
    PROVE  /\ Others(c) /\ heal'[c] = s
           /\ pc[c] = "put" => pc'[c] = "shift" /\ leave' = leave /\ seen' = seen /\ want' = want
           /\ pc[c] # "put" => pc'[c] = "heal"
<1>1. CASE pc[c] = "put" BY <1>1 DEF Heals, TypeOK, Others, Untouched
<1>2. CASE pc[c] # "put"
  <2>1. Forget(c) /\ pc' = [pc EXCEPT ![c] = "heal"] /\ heal' = [heal EXCEPT ![c] = s]
    BY <1>2 DEF Heals
  <2>. QED BY <1>2, <2>1, ForgetType DEF TypeOK, Others, Untouched
<1>. QED BY <1>1, <1>2

\* One call at a time takes a step, requests stay, and the call keeps its shape.
LEMMA StepOfOne ==
    ASSUME IInv, NEW c \in Calls, StepOf(c)
    PROVE  Others(c) /\ Shape(c)' /\ Filed
<1>. USE DEF IInv
<1>a. TypeOK /\ Shape(c) /\ RowsTyped /\ heal[c] \in Seq(Types) BY DEF TypeOK
<1>b. ASSUME row' = row PROVE Filed BY <1>a, <1>b DEF Filed, RowsTyped
<1>1. ASSUME Loading(c) PROVE Others(c) /\ Shape(c)' /\ Filed
  <2>1. \E op, l, w, v, s : Loads(c, op, l, w, v, s) BY <1>1, LoadsLoad
  <2>2. PICK op, l, w, v, s : Loads(c, op, l, w, v, s) BY <2>1
  <2>3. row' = row /\ Others(c)
    BY <2>2, <1>a DEF Loads, Load, Others, Untouched, TypeOK, request
  <2>4. /\ pc'[c] = op /\ leave'[c] = l /\ want'[c] = w /\ seen'[c] = s
        /\ heal'[c] = heal[c] /\ pc[c] = "idle" /\ verdict'[c] = v
    BY <2>2, <1>a DEF Loads, Load, Begin, TypeOK
  <2>5. Shape(c)' BY <1>a, <2>2, <2>3, <2>4 DEF Loads, Shape
  <2>. QED BY <1>b, <2>3, <2>5
<1>2. ASSUME NEW t \in Types, NEW n \in Grants, Grant(c, t, n)
      PROVE  Others(c) /\ Shape(c)' /\ Filed
  <2>1. Listed # <<>>
    <3>1. Listed = <<>> => ToSet(Listed) = {} BY DEF ToSet
    <3>. QED BY <3>1, LeaveAssumption
  <2>2. row' = row /\ Others(c)
    BY <1>2, <1>a DEF Grant, Others, Untouched, TypeOK, request
  <2>3. pc'[c] = "heal" /\ heal'[c] = Listed BY <1>2, <1>a DEF Grant, TypeOK
  <2>4. Shape(c)' BY <2>1, <2>3 DEF Shape
  <2>. QED BY <1>b, <2>2, <2>4
<1>3. CASE File(c)
  <2>1. leave[c] \in Leaves /\ want[c].type \in Types BY <1>a, <1>3 DEF Shape, File
  <2>2. /\ pc[c] = "file" /\ Heals(c, <<want[c].type>>)
        /\ row' = [row EXCEPT ![leave[c]] =
                     [status |-> "PENDING", type |-> want[c].type, days |-> want[c].days]]
    BY <1>3 DEF File
  <2>3. Filed BY <1>a, <2>1, <2>2 DEF Filed, RowsTyped, TypeOK
  <2>4. Others(c) /\ heal'[c] = <<want[c].type>> /\ pc'[c] = "heal"
    BY <1>a, <2>2, HealsOthers
  <2>5. Shape(c)' BY <2>4 DEF Shape
  <2>. QED BY <2>3, <2>4, <2>5
<1>4. CASE Edit(c)
  <2>1. /\ leave[c] \in Leaves /\ want[c].type \in Types /\ row[leave[c]].status # "NONE"
    BY <1>a, <1>4 DEF Shape, Edit
  <2>2. /\ pc[c] = "edit" /\ Heals(c, ToHeal(seen[c].type, want[c].type))
        /\ row' = [row EXCEPT ![leave[c]] =
                     [status |-> row[leave[c]].status, type |-> want[c].type, days |-> want[c].days]]
    BY <1>4, <1>a, <2>1 DEF Edit, TypeOK
  <2>3. Filed BY <1>a, <2>1, <2>2 DEF Filed, RowsTyped, TypeOK
  <2>4. /\ Others(c) /\ heal'[c] = ToHeal(seen[c].type, want[c].type)
        /\ pc'[c] = "heal"
    BY <1>a, <2>2, HealsOthers
  <2>5. heal'[c] # <<>> BY <2>4 DEF ToHeal
  <2>6. Shape(c)' BY <2>4, <2>5 DEF Shape
  <2>. QED BY <2>3, <2>4, <2>6
<1>5. CASE Decide(c)
  <2>1. /\ leave[c] \in Leaves /\ seen[c].type \in Types /\ row[leave[c]].status # "NONE"
        /\ verdict[c] \in Decided /\ row[leave[c]] \in Rows
    BY <1>a, <1>5 DEF Shape, Decide, TypeOK
  <2>2. /\ pc[c] \in {"decide", "put"} /\ Heals(c, <<seen[c].type>>)
        /\ row' = [row EXCEPT ![leave[c]] = [row[leave[c]] EXCEPT !.status = verdict[c]]]
    BY <1>5, <1>a, <2>1 DEF Decide, TypeOK
  <2>3. /\ row'[leave[c]].status = verdict[c] /\ row'[leave[c]].type = row[leave[c]].type
        /\ \A l \in Leaves \ {leave[c]} : row'[l] = row[l]
    BY <1>a, <2>1, <2>2 DEF Rows, TypeOK
  <2>4. Filed BY <1>a, <2>1, <2>3 DEF Filed, RowsTyped, Decided
  <2>5. /\ Others(c) /\ heal'[c] = <<seen[c].type>>
        /\ pc[c] = "put" => pc'[c] = "shift" /\ leave' = leave /\ seen' = seen
        /\ pc[c] # "put" => pc'[c] = "heal"
    BY <1>a, <2>2, HealsOthers
  <2>6. Shape(c)' BY <2>1, <2>3, <2>5 DEF Shape, Decided
  <2>. QED BY <2>4, <2>5, <2>6
<1>6. CASE LoadShift(c)
  <2>1. /\ leave[c] \in Leaves /\ seen[c].type \in Types /\ want[c].type \in Types
        /\ row[leave[c]].status # "NONE"
    BY <1>a, <1>6 DEF Shape, LoadShift
  <2>2. /\ row' = row /\ heal' = heal /\ pc[c] = "weigh"
        /\ \/ pc' = [pc EXCEPT ![c] = "heal"] /\ Forget(c)
           \/ /\ pc' = [pc EXCEPT ![c] = "shifting"]
              /\ \A q \in Calls \ {c} : approved'[q] = approved[q] /\ awaited'[q] = awaited[q]
              /\ UNCHANGED <<leave, want, verdict, seen>>
    BY <1>6, <1>a DEF LoadShift, TypeOK, request
  <2>3. heal[c] = <<seen[c].type>> BY <1>a, <2>2 DEF Shape
  <2>4. CASE pc' = [pc EXCEPT ![c] = "heal"] /\ Forget(c)
    <3>1. Others(c) BY <1>a, <2>2, <2>4, ForgetType DEF Others, Untouched, TypeOK
    <3>2. Shape(c)' BY <1>a, <2>2, <2>3, <2>4 DEF Shape, TypeOK
    <3>. QED BY <1>b, <2>2, <3>1, <3>2
  <2>5. CASE /\ pc' = [pc EXCEPT ![c] = "shifting"]
             /\ \A q \in Calls \ {c} : approved'[q] = approved[q] /\ awaited'[q] = awaited[q]
             /\ UNCHANGED <<leave, want, verdict, seen>>
    <3>1. Others(c) BY <1>a, <2>2, <2>5 DEF Others, Untouched, TypeOK
    <3>2. Shape(c)' BY <1>a, <2>1, <2>2, <2>3, <2>5 DEF Shape, TypeOK
    <3>. QED BY <1>b, <2>2, <3>1, <3>2
  <2>. QED BY <2>2, <2>4, <2>5
<1>7. CASE Shift(c)
  <2>1. /\ row' = row /\ heal' = heal /\ pc[c] = "shifting"
        /\ pc' = [pc EXCEPT ![c] = "heal"] /\ Forget(c)
    BY <1>7 DEF Shift, request
  <2>2. Others(c) BY <1>a, <2>1, ForgetType DEF Others, Untouched, TypeOK
  <2>3. heal'[c] = <<seen[c].type>> /\ pc'[c] = "heal" BY <1>a, <2>1 DEF Shape, TypeOK
  <2>4. Shape(c)' BY <2>3 DEF Shape
  <2>. QED BY <1>b, <2>1, <2>2, <2>4
<1>8. CASE CountApproved(c)
  <2>1. row' = row /\ Others(c)
    BY <1>8, <1>a DEF CountApproved, Others, Untouched, TypeOK, request
  <2>2. Shape(c)' BY <1>8, <1>a DEF CountApproved, Shape, TypeOK, request
  <2>. QED BY <1>b, <2>1, <2>2
<1>9. CASE CountPending(c)
  <2>1. row' = row /\ Others(c)
    BY <1>9, <1>a DEF CountPending, Others, Untouched, TypeOK, request
  <2>2. Shape(c)' BY <1>9, <1>a DEF CountPending, Shape, TypeOK, request
  <2>. QED BY <1>b, <2>1, <2>2
<1>10. CASE Recompute(c)
  <2>1. /\ row' = row /\ Forget(c) /\ heal' = [heal EXCEPT ![c] = Tail(heal[c])]
        /\ pc' = [pc EXCEPT ![c] = IF Tail(heal[c]) = <<>> THEN "idle" ELSE "heal"]
    BY <1>10, <1>a DEF Recompute, TypeOK, request
  <2>2. Others(c) BY <1>a, <2>1, ForgetType DEF Others, Untouched, TypeOK
  <2>3. Shape(c)'
    <3>1. heal'[c] = Tail(heal[c]) BY <1>a, <2>1 DEF TypeOK
    <3>2. CASE heal'[c] = <<>>
      <4>1. pc'[c] = "idle" BY <1>a, <2>1, <3>1, <3>2 DEF TypeOK
      <4>. QED BY <3>2, <4>1 DEF Shape
    <3>3. CASE heal'[c] # <<>>
      <4>1. pc'[c] = "heal" BY <1>a, <2>1, <3>1, <3>3 DEF TypeOK
      <4>. QED BY <3>3, <4>1 DEF Shape
    <3>. QED BY <3>2, <3>3
  <2>. QED BY <1>b, <2>1, <2>2, <2>3
<1>11. CASE Skip(c)
  <2>1. /\ row' = row /\ Forget(c) /\ heal' = [heal EXCEPT ![c] = Tail(heal[c])]
        /\ pc' = [pc EXCEPT ![c] = "heal"] /\ Len(heal[c]) > 1
    BY <1>11, <1>a DEF Skip, TypeOK, request
  <2>2. Others(c) BY <1>a, <2>1, ForgetType DEF Others, Untouched, TypeOK
  <2>3. Tail(heal[c]) # <<>> BY <1>a, <2>1, LongTail
  <2>4. Shape(c)' BY <1>a, <2>1, <2>3 DEF Shape, TypeOK
  <2>. QED BY <1>b, <2>1, <2>2, <2>4
<1>12. ASSUME Over(c), row' = row PROVE Others(c) /\ Shape(c)' /\ Filed
  <2>1. Others(c) BY <1>a, <1>12, ForgetType DEF Over, Others, Untouched, TypeOK
  <2>2. Shape(c)' BY <1>a, <1>12 DEF Over, Shape, TypeOK
  <2>. QED BY <1>b, <1>12, <2>1, <2>2
<1>13. (Adjust(c) \/ GiveUp(c)) => Over(c) /\ row' = row BY DEF Adjust, GiveUp, request
<1>14. CASE CheckEdit(c)
  <2>1. row' = row /\ Others(c)
    BY <1>14, <1>a DEF CheckEdit, Others, Untouched, TypeOK, request
  <2>2. Shape(c)' BY <1>14, <1>a DEF CheckEdit, Shape, TypeOK, request
  <2>. QED BY <1>b, <2>1, <2>2
<1>15. CASE ReadShift(c)
  <2>1. /\ row' = row /\ heal' = heal /\ leave' = leave /\ seen' = seen
        /\ verdict' = verdict /\ pc[c] = "shift" /\ pc' = [pc EXCEPT ![c] = "weigh"]
        /\ want' = [want EXCEPT ![c] = [type |-> row[leave[c]].type, days |-> row[leave[c]].days]]
        /\ approved' = approved /\ awaited' = awaited
    BY <1>15 DEF ReadShift, request
  <2>2. Others(c) BY <1>a, <2>1 DEF Others, Untouched, TypeOK
  <2>3. row[leave[c]].type \in Types BY <1>a, <2>1 DEF Shape, RowsTyped
  <2>4. pc'[c] = "weigh" /\ want'[c].type = row[leave[c]].type BY <1>a, <2>1 DEF TypeOK
  <2>5. Shape(c)' BY <1>a, <2>1, <2>3, <2>4 DEF Shape
  <2>. QED BY <1>b, <2>1, <2>2, <2>5
<1>. QED BY <1>1, <1>2, <1>3, <1>4, <1>5, <1>6, <1>7, <1>8, <1>9, <1>10, <1>11, <1>12, <1>13,
            <1>14, <1>15
   DEF StepOf

-----------------------------------------------------------------------------
\* Requests are changed within these types only.
Moves(types) ==
    \A l \in Leaves : \/ row'[l] = row[l]
                      \/ /\ row[l].type \in types \/ row[l].status = "NONE"
                         /\ row'[l].type \in types

Rewrites(c, types) ==
    /\ pc[c] \in {"file", "edit", "decide", "put"} /\ pc'[c] \in {"heal", "shift"}
    /\ \A l \in Leaves \ {leave[c]} : row'[l] = row[l]
    /\ Moves(types) /\ Disturbs(types) /\ types \subseteq Types
    /\ \A t \in types : t \in spoiled' \/ \E k \in DOMAIN heal'[c] : heal'[c][k] = t
    /\ spoiled \subseteq spoiled' /\ used' = used /\ pending' = pending

\* Filing, editing and deciding change requests, within types that are then
\* spoiled or about to be recomputed.
LEMMA RewritesRows ==
    ASSUME IInv, NEW c \in Calls, File(c) \/ Edit(c) \/ Decide(c)
    PROVE  \E types : Rewrites(c, types)
<1>. USE DEF IInv
<1>a. TypeOK /\ Shape(c) /\ RowsTyped /\ NewRows OBVIOUS
<1>1. CASE File(c)
  <2>1. /\ pc[c] = "file" /\ leave[c] \in Leaves /\ want[c].type \in Types
        /\ row[leave[c]].status = "NONE"
    BY <1>a, <1>1 DEF File, Shape, NewRows
  <2>2. Heals(c, <<want[c].type>>) /\ Disturbs({want[c].type}) /\ spoiled' = spoiled
    BY <1>1 DEF File
  <2>3. /\ row'[leave[c]].type = want[c].type
        /\ \A l \in Leaves \ {leave[c]} : row'[l] = row[l]
    BY <1>a, <1>1, <2>1 DEF File, TypeOK
  <2>4. Moves({want[c].type}) BY <2>1, <2>3 DEF Moves
  <2>5. heal'[c] = <<want[c].type>> /\ pc'[c] = "heal" BY <1>a, <2>1, <2>2, HealsOthers
  <2>6. heal'[c][1] = want[c].type /\ 1 \in DOMAIN heal'[c] BY <2>5
  <2>7. used' = used /\ pending' = pending BY <2>2 DEF Heals, balance
  <2>8. Rewrites(c, {want[c].type})
    BY <2>1, <2>2, <2>3, <2>4, <2>5, <2>6, <2>7 DEF Rewrites
  <2>. QED BY <2>8
<1>2. CASE Edit(c)
  <2>1. /\ pc[c] = "edit" /\ leave[c] \in Leaves /\ want[c].type \in Types
        /\ row[leave[c]].type \in Types
    BY <1>a, <1>2 DEF Edit, Shape, RowsTyped
  <2>a. PICK T \in SUBSET Types : T = {row[leave[c]].type, want[c].type} BY <2>1
  <2>2. /\ Heals(c, ToHeal(seen[c].type, want[c].type)) /\ Disturbs(T)
        /\ spoiled' = spoiled \cup ({row[leave[c]].type} \ {seen[c].type, want[c].type})
    BY <1>2, <2>a DEF Edit
  <2>3. /\ row'[leave[c]].type = want[c].type
        /\ \A l \in Leaves \ {leave[c]} : row'[l] = row[l]
    BY <1>a, <1>2, <2>1 DEF Edit, TypeOK
  <2>4. Moves(T) BY <2>1, <2>3, <2>a DEF Moves
  <2>5. heal'[c] = ToHeal(seen[c].type, want[c].type) /\ pc'[c] = "heal"
    BY <1>a, <2>1, <2>2, HealsOthers
  <2>6. \A t \in {seen[c].type, want[c].type} : \E k \in DOMAIN heal'[c] : heal'[c][k] = t
    <3>1. CASE seen[c].type = want[c].type
      <4>1. heal'[c] = <<want[c].type>> BY <2>5, <3>1 DEF ToHeal
      <4>2. 1 \in DOMAIN heal'[c] /\ heal'[c][1] = want[c].type BY <4>1
      <4>. QED BY <3>1, <4>2
    <3>2. CASE seen[c].type # want[c].type
      <4>1. heal'[c] = <<seen[c].type, want[c].type>> BY <2>5, <3>2 DEF ToHeal
      <4>2. /\ 1 \in DOMAIN heal'[c] /\ heal'[c][1] = seen[c].type
            /\ 2 \in DOMAIN heal'[c] /\ heal'[c][2] = want[c].type
        BY <4>1
      <4>. QED BY <4>2
    <3>. QED BY <3>1, <3>2
  <2>7. used' = used /\ pending' = pending BY <2>2 DEF Heals, balance
  <2>8. \A t \in T : t \in spoiled' \/ \E k \in DOMAIN heal'[c] : heal'[c][k] = t
    BY <2>2, <2>6, <2>a
  <2>9. Rewrites(c, T)
    BY <2>1, <2>2, <2>3, <2>4, <2>5, <2>7, <2>8, <2>a DEF Rewrites
  <2>. QED BY <2>9
<1>3. CASE Decide(c)
  <2>1. /\ pc[c] \in {"decide", "put"} /\ leave[c] \in Leaves
        /\ row[leave[c]].type \in Types
    BY <1>a, <1>3 DEF Decide, Shape, RowsTyped
  <2>a. PICK T \in SUBSET Types : T = {row[leave[c]].type} BY <2>1
  <2>2. /\ Heals(c, <<seen[c].type>>) /\ Disturbs(T)
        /\ spoiled' = spoiled \cup ({row[leave[c]].type} \ {seen[c].type})
        /\ row' = [row EXCEPT ![leave[c]] = [row[leave[c]] EXCEPT !.status = verdict[c]]]
    BY <1>3, <1>a, <2>1, <2>a DEF Decide, TypeOK
  <2>3. /\ row'[leave[c]].type = row[leave[c]].type
        /\ \A l \in Leaves \ {leave[c]} : row'[l] = row[l]
    BY <1>a, <2>1, <2>2 DEF Rows, TypeOK
  <2>4. Moves(T) BY <2>1, <2>3, <2>a DEF Moves
  <2>5. heal'[c] = <<seen[c].type>> /\ pc'[c] \in {"heal", "shift"}
    BY <1>a, <2>1, <2>2, HealsOthers
  <2>6. heal'[c][1] = seen[c].type /\ 1 \in DOMAIN heal'[c] BY <2>5
  <2>7. used' = used /\ pending' = pending BY <2>2 DEF Heals, balance
  <2>8. \A t \in T : t \in spoiled' \/ \E k \in DOMAIN heal'[c] : heal'[c][k] = t
    BY <2>2, <2>6, <2>a
  <2>9. Rewrites(c, T)
    BY <2>1, <2>2, <2>3, <2>4, <2>5, <2>7, <2>8, <2>a DEF Rewrites
  <2>. QED BY <2>9
<1>. QED BY <1>1, <1>2, <1>3

\* The other steps leave the requests alone, and mislead nobody else.
LEMMA OtherSteps ==
    ASSUME IInv, NEW c \in Calls, StepOf(c), ~(File(c) \/ Edit(c) \/ Decide(c))
    PROVE  row' = row /\ misled \ {c} \subseteq misled'
<1>1. CASE Loading(c)
  <2>1. (\E op, l, w, v, s : Loads(c, op, l, w, v, s)) /\ misled \ {c} \subseteq misled'
    BY <1>1, LoadsLoad
  <2>. QED BY <2>1 DEF Loads, Load, request
<1>2. CASE \E t \in Types, n \in Grants : Grant(c, t, n)
  BY <1>2 DEF Grant, request
<1>3. CASE LoadShift(c) \/ Shift(c) \/ CountApproved(c) \/ CountPending(c)
  BY <1>3 DEF LoadShift, Shift, CountApproved, CountPending, request, history
<1>4. CASE Recompute(c) \/ Skip(c) \/ Adjust(c) \/ GiveUp(c)
  BY <1>4 DEF Recompute, Skip, Adjust, GiveUp, request
<1>5. CASE CheckEdit(c) \/ ReadShift(c)
  BY <1>5 DEF CheckEdit, ReadShift, Misleads, request, history
<1>. QED BY <1>1, <1>2, <1>3, <1>4, <1>5 DEF StepOf

\* Only counting leads to counts.
LEMMA CountsOnly ==
    ASSUME IInv, NEW c \in Calls, StepOf(c), pc'[c] \in {"counted", "recompute"}
    PROVE  CountApproved(c) \/ CountPending(c)
<1>. USE DEF IInv
<1>a. TypeOK OBVIOUS
<1>1. CASE Loading(c)
  <2>1. PICK op, l, w, v, s : Loads(c, op, l, w, v, s) BY <1>1, LoadsLoad
  <2>. QED BY <1>a, <2>1 DEF Loads, Load, TypeOK
<1>2. CASE \E t \in Types, n \in Grants : Grant(c, t, n)
  BY <1>a, <1>2 DEF Grant, TypeOK
<1>3. CASE File(c) \/ Edit(c) \/ Decide(c)
  BY <1>3, RewritesRows DEF Rewrites
<1>4. CASE LoadShift(c) \/ Shift(c)
  BY <1>a, <1>4 DEF LoadShift, Shift, TypeOK
<1>5. CASE Recompute(c) \/ Skip(c)
  BY <1>a, <1>5 DEF Recompute, Skip, TypeOK
<1>6. CASE Adjust(c) \/ GiveUp(c)
  BY <1>a, <1>6 DEF Adjust, GiveUp, Over, TypeOK
<1>7. CASE CheckEdit(c) \/ ReadShift(c)
  BY <1>a, <1>7 DEF CheckEdit, ReadShift, TypeOK
<1>. QED BY <1>1, <1>2, <1>3, <1>4, <1>5, <1>6, <1>7 DEF StepOf

\* What a call has counted stays true, or the call is misled.
LEMMA NextCounts ==
    ASSUME IInv, NEW c \in Calls, StepOf(c)
    PROVE  \A q \in Calls : CountsTrue(q)'
<1>. USE DEF IInv
<1>a. TypeOK /\ Others(c) /\ (\A q \in Calls : Shape(q) /\ CountsTrue(q)) BY StepOfOne
<1>1. ASSUME NEW q \in Calls, q # c PROVE CountsTrue(q)'
  <2>. SUFFICES ASSUME q \notin misled', pc'[q] \in {"counted", "recompute"}
                PROVE  /\ approved'[q] = DaysOf(Head(heal[q]), {"APPROVED"})'
                       /\ pc'[q] = "recompute" => awaited'[q] = DaysOf(Head(heal[q]), {"PENDING"})'
    BY DEF CountsTrue
  <2>1. /\ pc'[q] = pc[q] /\ approved'[q] = approved[q] /\ awaited'[q] = awaited[q]
        /\ heal'[q] = heal[q]
    BY <1>a, <1>1 DEF Others, Untouched
  <2>2. /\ q \notin misled
        /\ \A S : "NONE" \notin S => DaysOf(Head(heal[q]), S)' = DaysOf(Head(heal[q]), S)
    <3>1. CASE File(c) \/ Edit(c) \/ Decide(c)
      <4>1. PICK types : Rewrites(c, types) BY <3>1, RewritesRows
      <4>2. q \notin misled /\ Head(heal[q]) \notin types
        BY <2>1, <4>1 DEF Rewrites, Disturbs, Relying
      <4>3. \A l \in Leaves : \/ row'[l] = row[l]
                              \/ /\ \/ row[l].type # Head(heal[q])
                                    \/ row[l].status = "NONE"
                                 /\ row'[l].type # Head(heal[q])
        BY <4>1, <4>2 DEF Rewrites, Moves
      <4>. QED BY <2>1, <4>2, <4>3, DaysStay
    <3>2. CASE ~(File(c) \/ Edit(c) \/ Decide(c))
      <4>1. row' = row /\ q \notin misled BY <1>1, <3>2, OtherSteps
      <4>. QED BY <2>1, <4>1 DEF DaysOf, Of
    <3>. QED BY <3>1, <3>2
  <2>3. /\ approved[q] = DaysOf(Head(heal[q]), {"APPROVED"})
        /\ pc[q] = "recompute" => awaited[q] = DaysOf(Head(heal[q]), {"PENDING"})
    BY <1>a, <2>1, <2>2 DEF CountsTrue
  <2>. QED BY <2>1, <2>2, <2>3
<1>2. CountsTrue(c)'
  <2>1. CASE CountApproved(c)
    <3>1. /\ pc'[c] = "counted" /\ heal' = heal /\ row' = row
          /\ approved'[c] = DaysOf(Head(heal[c]), {"APPROVED"})
      BY <1>a, <2>1 DEF CountApproved, TypeOK, request
    <3>2. DaysOf(Head(heal[c]), {"APPROVED"})' = DaysOf(Head(heal[c]), {"APPROVED"})
      BY <3>1 DEF DaysOf, Of
    <3>. QED BY <3>1, <3>2 DEF CountsTrue
  <2>2. CASE CountPending(c)
    <3>1. /\ pc'[c] = "recompute" /\ heal' = heal /\ row' = row /\ pc[c] = "counted"
          /\ awaited'[c] = DaysOf(Head(heal[c]), {"PENDING"})
          /\ approved' = approved /\ misled' = misled
      BY <1>a, <2>2 DEF CountPending, TypeOK, request, history
    <3>2. /\ DaysOf(Head(heal[c]), {"APPROVED"})' = DaysOf(Head(heal[c]), {"APPROVED"})
          /\ DaysOf(Head(heal[c]), {"PENDING"})' = DaysOf(Head(heal[c]), {"PENDING"})
      BY <3>1 DEF DaysOf, Of
    <3>. QED BY <1>a, <3>1, <3>2 DEF CountsTrue
  <2>3. CASE pc'[c] \notin {"counted", "recompute"} BY <2>3 DEF CountsTrue
  <2>. QED BY <2>1, <2>2, <2>3, CountsOnly
<1>. QED BY <1>1, <1>2

-----------------------------------------------------------------------------
\* A request that is being filed stays new, and one call files it.
LEMMA NextNewRows ==
    ASSUME IInv, NEW c \in Calls, StepOf(c)
    PROVE  NewRows'
<1>. USE DEF IInv
<1>a. TypeOK /\ Others(c) /\ NewRows /\ (\A q \in Calls : Shape(q)) BY StepOfOne
<1>b. \A q \in Calls \ {c} : pc'[q] = pc[q] /\ leave'[q] = leave[q]
  BY <1>a DEF Others, Untouched
<1>1. CASE File(c) \/ Edit(c) \/ Decide(c)
  <2>1. PICK types : Rewrites(c, types) BY <1>1, RewritesRows
  <2>2. pc'[c] # "file" BY <2>1 DEF Rewrites
  <2>3. ASSUME NEW q \in Calls, q # c, pc[q] = "file" PROVE row'[leave[q]] = row[leave[q]]
    <3>1. leave[q] \in Leaves /\ row[leave[q]].status = "NONE" BY <1>a, <2>3 DEF Shape, NewRows
    <3>2. leave[q] # leave[c]
      <4>1. CASE pc[c] = "file" BY <1>a, <2>3, <4>1 DEF NewRows
      <4>2. CASE pc[c] \in {"edit", "decide", "put"} BY <1>a, <3>1, <4>2 DEF Shape
      <4>. QED BY <2>1, <4>1, <4>2 DEF Rewrites
    <3>. QED BY <2>1, <3>1, <3>2 DEF Rewrites
  <2>. QED BY <1>a, <1>b, <2>2, <2>3 DEF NewRows
<1>2. CASE Loading(c)
  <2>1. PICK op, l, w, v, s : Loads(c, op, l, w, v, s) BY <1>2, LoadsLoad
  <2>2. /\ row' = row /\ pc'[c] = op /\ leave'[c] = l
        /\ op = "file" => row[l].status = "NONE" /\ \A q \in Calls : leave[q] # l
    BY <1>a, <2>1 DEF Loads, Load, TypeOK, request
  <2>. QED BY <1>a, <1>b, <2>2 DEF NewRows
<1>3. CASE ~Loading(c) /\ ~(File(c) \/ Edit(c) \/ Decide(c))
  <2>1. row' = row BY <1>3, OtherSteps
  <2>2. pc'[c] # "file"
    <3>1. CASE \E t \in Types, n \in Grants : Grant(c, t, n) BY <1>a, <3>1 DEF Grant, TypeOK
    <3>2. CASE LoadShift(c) \/ Shift(c) BY <1>a, <3>2 DEF LoadShift, Shift, TypeOK
    <3>3. CASE CountApproved(c) \/ CountPending(c)
      BY <1>a, <3>3 DEF CountApproved, CountPending, TypeOK
    <3>4. CASE Recompute(c) \/ Skip(c) BY <1>a, <3>4 DEF Recompute, Skip, TypeOK
    <3>5. CASE Adjust(c) \/ GiveUp(c) BY <1>a, <3>5 DEF Adjust, GiveUp, Over, TypeOK
    <3>6. CASE CheckEdit(c) \/ ReadShift(c) BY <1>a, <3>6 DEF CheckEdit, ReadShift, TypeOK
    <3>. QED BY <1>3, <3>1, <3>2, <3>3, <3>4, <3>5, <3>6 DEF StepOf
  <2>. QED BY <1>a, <1>b, <2>1, <2>2 DEF NewRows
<1>. QED BY <1>1, <1>2, <1>3

-----------------------------------------------------------------------------
\* A balance is right, or somebody knows that it is not.
Right(t) ==
    \/ t \in spoiled \/ Healing(t)
    \/ used[t] = DaysOf(t, {"APPROVED"}) /\ pending[t] = DaysOf(t, {"PENDING"})

\* A step that leaves the requests and this balance, and takes nothing off the
\* queues that is not spoiled, leaves the balance right.
LEMMA StaysRight ==
    ASSUME IInv, NEW c \in Calls, NEW t \in Types, Right(t),
           row' = row, used'[t] = used[t], pending'[t] = pending[t],
           t \in spoiled => t \in spoiled',
           \A q \in Calls \ {c} : heal'[q] = heal[q],
           Owes(c, t) => t \in spoiled' \/ Owes(c, t)'
    PROVE  Right(t)'
<1>1. DaysOf(t, {"APPROVED"})' = DaysOf(t, {"APPROVED"})
      /\ DaysOf(t, {"PENDING"})' = DaysOf(t, {"PENDING"})
  BY DEF DaysOf, Of
<1>2. Healing(t) => t \in spoiled' \/ Healing(t)' BY DEF Healing, Owes
<1>. QED BY <1>1, <1>2 DEF Right

\* The balances stay right.
LEMMA NextBalances ==
    ASSUME IInv, NEW c \in Calls, StepOf(c), NEW t \in Types
    PROVE  Right(t)'
<1>. USE DEF IInv
<1>a. /\ TypeOK /\ Others(c) /\ Shape(c) /\ CountsTrue(c) /\ Right(t)
      /\ heal[c] \in Seq(Types)
      /\ \A q \in Calls \ {c} : heal'[q] = heal[q]
  BY StepOfOne DEF Others, Untouched, BalancesFollowRequests, Right, TypeOK
<1>1. CASE File(c) \/ Edit(c) \/ Decide(c)
  <2>1. PICK types : Rewrites(c, types) BY <1>1, RewritesRows
  <2>2. CASE t \in types
    <3>1. t \in spoiled' \/ Owes(c, t)' BY <2>1, <2>2 DEF Rewrites, Owes
    <3>. QED BY <3>1 DEF Right, Healing
  <2>3. CASE t \notin types
    <3>1. \A l \in Leaves : \/ row'[l] = row[l]
                            \/ /\ row[l].type # t \/ row[l].status = "NONE"
                               /\ row'[l].type # t
      BY <2>1, <2>3 DEF Rewrites, Moves
    <3>2. /\ DaysOf(t, {"APPROVED"})' = DaysOf(t, {"APPROVED"})
          /\ DaysOf(t, {"PENDING"})' = DaysOf(t, {"PENDING"})
      BY <3>1, DaysStay
    <3>3. used' = used /\ pending' = pending /\ spoiled \subseteq spoiled'
      BY <2>1 DEF Rewrites
    <3>4. ~Owes(c, t)
      <4>1. pc[c] \in {"file", "edit", "decide", "put"} BY <2>1 DEF Rewrites
      <4>2. heal[c] = <<>> BY <1>a, <4>1 DEF Shape
      <4>. QED BY <4>2 DEF Owes
    <3>5. Healing(t) => Healing(t)' BY <1>a, <3>4 DEF Healing, Owes
    <3>. QED BY <1>a, <3>2, <3>3, <3>5 DEF Right
  <2>. QED BY <2>2, <2>3
<1>b. ASSUME row' = row, used' = used, pending' = pending, spoiled \subseteq spoiled',
             Owes(c, t) => t \in spoiled' \/ Owes(c, t)'
      PROVE  Right(t)'
  BY <1>a, <1>b, StaysRight
<1>2. CASE Loading(c)
  <2>1. PICK op, l, w, v, s : Loads(c, op, l, w, v, s) BY <1>2, LoadsLoad
  <2>2. UNCHANGED <<row, used, pending, spoiled, heal>>
    BY <2>1 DEF Loads, Load, request, balance
  <2>. QED BY <1>b, <2>2 DEF Owes
<1>3. CASE \E u \in Types, n \in Grants : Grant(c, u, n)
  <2>1. UNCHANGED <<row, used, pending, spoiled>> /\ pc[c] = "idle"
    BY <1>3 DEF Grant, Begin, request
  <2>2. ~Owes(c, t)
    <3>1. heal[c] = <<>> BY <1>a, <2>1 DEF Shape
    <3>. QED BY <3>1 DEF Owes
  <2>. QED BY <1>b, <2>1, <2>2
<1>4. CASE LoadShift(c) \/ ReadShift(c) \/ CheckEdit(c)
  <2>1. UNCHANGED <<row, used, pending, spoiled, heal>>
    BY <1>4 DEF LoadShift, ReadShift, CheckEdit, request, balance, history
  <2>. QED BY <1>b, <2>1 DEF Owes
<1>5. CASE Shift(c)
  <2>1. /\ pc[c] = "shifting" /\ want[c].type \in Types /\ heal[c] = <<seen[c].type>>
    BY <1>5, <1>a DEF Shift, Shape
  <2>2. /\ row' = row /\ heal' = heal /\ spoiled' = spoiled \cup ({want[c].type} \ {seen[c].type})
        /\ \A u \in Types \ {want[c].type} : used'[u] = used[u] /\ pending'[u] = pending[u]
    BY <1>5, <1>a DEF Shift, TypeOK, request
  <2>3. CASE t # want[c].type
    <3>1. used'[t] = used[t] /\ pending'[t] = pending[t] BY <2>2, <2>3
    <3>. QED BY <1>a, <2>2, <3>1, StaysRight DEF Owes
  <2>4. CASE t = want[c].type
    <3>1. CASE t = seen[c].type
      <4>1. heal'[c] = <<t>> BY <2>1, <2>2, <3>1
      <4>2. 1 \in DOMAIN heal'[c] /\ heal'[c][1] = t BY <4>1
      <4>. QED BY <4>2 DEF Right, Healing, Owes
    <3>2. CASE t # seen[c].type BY <2>2, <2>4, <3>2 DEF Right
    <3>. QED BY <3>1, <3>2
  <2>. QED BY <2>3, <2>4
<1>6. CASE CountApproved(c) \/ CountPending(c)
  <2>1. UNCHANGED <<row, used, pending, spoiled, heal>>
    BY <1>6 DEF CountApproved, CountPending, request, balance, history
  <2>. QED BY <1>b, <2>1 DEF Owes
<1>c. ASSUME heal[c] # <<>>, heal' = [heal EXCEPT ![c] = Tail(heal[c])], t # Head(heal[c])
      PROVE  Owes(c, t) => Owes(c, t)'
  <2>1. heal'[c] = Tail(heal[c]) BY <1>a, <1>c DEF TypeOK
  <2>2. ASSUME NEW k \in DOMAIN heal[c], heal[c][k] = t
        PROVE  \E j \in DOMAIN Tail(heal[c]) : Tail(heal[c])[j] = t
    BY <1>a, <1>c, <2>2, TailOwes
  <2>. QED BY <2>1, <2>2 DEF Owes
<1>7. CASE Recompute(c)
  <2>1. /\ pc[c] = "recompute" /\ heal[c] # <<>> /\ Head(heal[c]) \in Types
        /\ row' = row /\ heal' = [heal EXCEPT ![c] = Tail(heal[c])]
        /\ used' = [used EXCEPT ![Head(heal[c])] = approved[c]]
        /\ pending' = [pending EXCEPT ![Head(heal[c])] = awaited[c]]
        /\ spoiled' = IF c \in misled THEN spoiled \cup {Head(heal[c])}
                      ELSE spoiled \ {Head(heal[c])}
    BY <1>7, <1>a DEF Recompute, Shape, TypeOK, request
  <2>2. CASE t # Head(heal[c])
    <3>1. used'[t] = used[t] /\ pending'[t] = pending[t] BY <1>a, <2>1, <2>2 DEF TypeOK
    <3>2. t \in spoiled => t \in spoiled' BY <2>1, <2>2
    <3>3. Owes(c, t) => Owes(c, t)' BY <1>c, <2>1, <2>2
    <3>. QED BY <1>a, <2>1, <3>1, <3>2, <3>3, StaysRight
  <2>3. CASE t = Head(heal[c]) /\ c \in misled BY <2>1, <2>3 DEF Right
  <2>4. CASE t = Head(heal[c]) /\ c \notin misled
    <3>1. used'[t] = approved[c] /\ pending'[t] = awaited[c] BY <1>a, <2>1, <2>4 DEF TypeOK
    <3>2. /\ approved[c] = DaysOf(t, {"APPROVED"}) /\ awaited[c] = DaysOf(t, {"PENDING"})
      BY <1>a, <2>1, <2>4 DEF CountsTrue
    <3>3. /\ DaysOf(t, {"APPROVED"})' = DaysOf(t, {"APPROVED"})
          /\ DaysOf(t, {"PENDING"})' = DaysOf(t, {"PENDING"})
      BY <2>1 DEF DaysOf, Of
    <3>. QED BY <3>1, <3>2, <3>3 DEF Right
  <2>. QED BY <2>2, <2>3, <2>4
<1>8. CASE Skip(c)
  <2>1. /\ row' = row /\ used' = used /\ pending' = pending /\ heal[c] # <<>>
        /\ heal' = [heal EXCEPT ![c] = Tail(heal[c])]
        /\ spoiled' = spoiled \cup {Head(heal[c])}
    BY <1>8, <1>a DEF Skip, Shape, TypeOK, request, balance
  <2>2. CASE t = Head(heal[c]) BY <2>1, <2>2 DEF Right
  <2>3. CASE t # Head(heal[c])
    <3>1. Owes(c, t) => Owes(c, t)' BY <1>c, <2>1, <2>3
    <3>. QED BY <1>b, <2>1, <3>1
  <2>. QED BY <2>2, <2>3
<1>9. CASE Adjust(c)
  <2>1. UNCHANGED <<row, used, pending, spoiled>> /\ pc[c] = "adjust"
    BY <1>9 DEF Adjust, request
  <2>2. ~Owes(c, t)
    <3>1. heal[c] = <<>> BY <1>a, <2>1 DEF Shape
    <3>. QED BY <3>1 DEF Owes
  <2>. QED BY <1>b, <2>1, <2>2
<1>10. CASE GiveUp(c)
  <2>1. UNCHANGED <<row, used, pending>> /\ spoiled' = spoiled \cup ToSet(heal[c])
    BY <1>10 DEF GiveUp, request, balance
  <2>2. Owes(c, t) => t \in ToSet(heal[c]) BY DEF Owes, ToSet
  <2>. QED BY <1>b, <2>1, <2>2
<1>. QED BY <1>1, <1>2, <1>3, <1>4, <1>5, <1>6, <1>7, <1>8, <1>9, <1>10 DEF StepOf

-----------------------------------------------------------------------------
\* Every step keeps the invariant.
LEMMA NextInv == IInv /\ [Next]_vars => IInv'
<1>1. ASSUME IInv, Next PROVE IInv'
  <2>1. PICK c \in Calls : StepOf(c) BY <1>1, StepsAreCalls
  <2>2. TypeOK' BY <1>1, NextType
  <2>3. Others(c) /\ Shape(c)' /\ Filed BY <1>1, <2>1, StepOfOne
  <2>4. ASSUME NEW q \in Calls, q # c PROVE Shape(q)'
    <3>1. Shape(q) /\ Untouched(q) BY <1>1, <2>3, <2>4 DEF IInv, Others
    <3>2. \A l \in Leaves : row[l].status # "NONE" => row'[l].status # "NONE"
      BY <2>3 DEF Filed
    <3>. QED BY <3>1, <3>2 DEF Shape, Untouched
  <2>5. \A q \in Calls : CountsTrue(q)' BY <1>1, <2>1, NextCounts
  <2>6. NewRows' BY <1>1, <2>1, NextNewRows
  <2>7. \A t \in Types : Right(t)' BY <1>1, <2>1, NextBalances
  <2>8. BalancesFollowRequests' BY <2>7 DEF BalancesFollowRequests, Right
  <2>9. RowsTyped' BY <2>3 DEF Filed
  <2>. QED BY <2>2, <2>3, <2>4, <2>5, <2>6, <2>8, <2>9 DEF IInv
<1>2. ASSUME IInv, UNCHANGED vars PROVE IInv'
  <2>. USE <1>2 DEF vars, request, balance, call, history
  <2>1. TypeOK' BY DEF IInv, TypeOK
  <2>2. RowsTyped' /\ NewRows' BY DEF IInv, RowsTyped, NewRows
  <2>3. \A t, S : DaysOf(t, S)' = DaysOf(t, S) BY DEF DaysOf, Of
  <2>4. \A q \in Calls : Shape(q)' BY DEF IInv, Shape
  <2>5. \A q \in Calls : CountsTrue(q)' BY <2>3 DEF IInv, CountsTrue
  <2>6. BalancesFollowRequests'
    BY <2>3 DEF IInv, BalancesFollowRequests, Healing, Owes
  <2>. QED BY <2>1, <2>2, <2>4, <2>5, <2>6 DEF IInv
<1>. QED BY <1>1, <1>2

\* The parts of the invariant hold in every state the program can reach.
THEOREM Inductive == Spec => []IInv
BY InitInv, NextInv, PTL DEF Spec

\* Requests, balances and calls have their types; an allocation is below zero
\* only where a grant or the default of the type put it there.
THEOREM TypeCorrect == Spec => []TypeOK
<1>1. IInv => TypeOK BY DEF IInv
<1>. QED BY <1>1, Inductive, PTL

\* The used and pending days of a balance are the days of the approved and of
\* the pending requests, unless a recompute is still to come or the balance was
\* left behind by an overlap or a failure that the specification names.
THEOREM BalancesHeal == Spec => []BalancesFollowRequests
<1>1. IInv => BalancesFollowRequests BY DEF IInv
<1>. QED BY <1>1, Inductive, PTL

\* A decided request is only ever cancelled, but for a call that loaded it
\* before it was decided.
THEOREM DecisionsKept == Spec => DecisionsStand
<1>. DEFINE Stands(l) ==
        row[l].status \in Decided /\ row'[l] # row[l]
        => \/ row'[l] = [row[l] EXCEPT !.status = "CANCELLED"]
           \/ \E c \in Calls : /\ leave[c] = l /\ pc'[c] # pc[c]
                               /\ seen[c].status # row[l].status
<1>1. ASSUME IInv, Next, NEW l \in Leaves, row[l].status \in Decided, row'[l] # row[l]
      PROVE  \/ row'[l] = [row[l] EXCEPT !.status = "CANCELLED"]
             \/ \E c \in Calls : /\ leave[c] = l /\ pc'[c] # pc[c]
                                 /\ seen[c].status # row[l].status
  <2>1. PICK c \in Calls : StepOf(c) BY <1>1, StepsAreCalls
  <2>2. File(c) \/ Edit(c) \/ Decide(c) BY <1>1, <2>1, OtherSteps
  <2>3. PICK types : Rewrites(c, types) BY <1>1, <2>2, RewritesRows
  <2>4. leave[c] = l /\ pc'[c] # pc[c] BY <1>1, <2>3 DEF Rewrites
  <2>5. pc[c] # "file" BY <1>1, <2>4 DEF IInv, NewRows, Decided
  <2>6. seen[c].status = "PENDING" \/ (pc[c] # "edit" /\ verdict[c] = "CANCELLED")
    <3>1. pc[c] \in {"edit", "decide", "put"} BY <2>2, <2>5 DEF File, Edit, Decide
    <3>2. Shape(c) BY <1>1 DEF IInv
    <3>. QED BY <3>1, <3>2 DEF Shape
  <2>7. CASE seen[c].status = "PENDING"
    <3>1. seen[c].status # row[l].status BY <1>1, <2>7 DEF Decided
    <3>. QED BY <2>4, <3>1
  <2>8. CASE pc[c] # "edit" /\ verdict[c] = "CANCELLED"
    <3>1. Decide(c) BY <2>2, <2>5, <2>8 DEF File, Edit
    <3>2. row \in [Leaves -> Rows] BY <1>1 DEF IInv, TypeOK
    <3>3. row' = [row EXCEPT ![l] = [row[l] EXCEPT !.status = "CANCELLED"]]
      BY <2>4, <2>8, <3>1, <3>2 DEF Decide
    <3>. QED BY <3>2, <3>3
  <2>. QED BY <2>6, <2>7, <2>8
<1>2. IInv /\ [Next]_vars => [\A l \in Leaves : Stands(l)]_vars
  <2>1. ASSUME IInv, Next PROVE \A l \in Leaves : Stands(l) BY <1>1, <2>1
  <2>. QED BY <2>1
<1>. QED BY <1>2, Inductive, PTL DEF Spec, DecisionsStand
-----------------------------------------------------------------------------
(* What is granted and applied for stays within what is allocated. A call    *)
(* that relied on a balance it did not misread keeps room for what it asks,  *)
(* as any change of a request of that type misleads it.                      *)

\* The days the requests r of these statuses take of a type.
Part(r, t, S) ==
    [l \in Leaves |-> IF r[l].type = t /\ r[l].status \in S THEN r[l].days ELSE 0]

Live == {"PENDING", "APPROVED"}
Committed(t) == SumOver(Part(row, t, Live), Leaves)

RowDays == \A l \in Leaves : row[l].days \in Nat

\* Nothing is allocated to a type without a balance, and only a balance is
\* adjusted.
Granted ==
    /\ \A t \in Types \ kept : allocated[t] = 0
    /\ \A c \in Calls : pc[c] = "adjust" => want[c].type \in kept

Within(t) == t \in doubtful \/ Committed(t) <= allocated[t]

\* There is room for what a call is about to write in place of what the request
\* takes already.
Room(c) ==
    /\ pc[c] \in {"file", "check", "edit"} => want[c].days \in Nat
    /\ pc[c] \in {"check", "edit"} => seen[c].days \in Nat
    /\ pc[c] \in {"file", "edit"} =>
           \/ c \in misled \/ want[c].type \in doubtful
           \/ Committed(want[c].type) - Part(row, want[c].type, Live)[leave[c]] + want[c].days
                <= allocated[want[c].type]

\* What is allocated is a whole number of days.
LEMMA AllocatedInt == ASSUME TypeOK, NEW t \in Types PROVE allocated[t] \in Int
BY LeaveAssumption DEF TypeOK

Limits ==
    /\ RowDays
    /\ Granted
    /\ \A t \in Types : Within(t)
    /\ \A c \in Calls : Room(c)

\* The days taken are natural numbers where the requests' days are.
LEMMA PartType ==
    ASSUME NEW r, NEW t, NEW S, NEW l \in Leaves, r[l].days \in Nat
    PROVE  /\ Part(r, t, S)[l] \in Nat
           /\ Part(r, t, S)[l] = IF r[l].type = t /\ r[l].status \in S
                                 THEN r[l].days ELSE 0
BY DEF Part

\* The days of all of these statuses, as the specification sums them.
LEMMA DaysAreParts ==
    ASSUME RowDays, NEW t, NEW S
    PROVE  DaysOf(t, S) = SumOver(Part(row, t, S), Leaves)
<1>. DEFINE d == [l \in Of(t, S) |-> row[l].days]
<1>0. IsFiniteSet(Leaves) /\ Of(t, S) \in SUBSET Leaves /\ IsFiniteSet(Of(t, S))
  BY LeaveAssumption, FS_Subset DEF Of
<1>1. \A l \in Leaves : Part(row, t, S)[l] \in Int BY PartType DEF RowDays
<1>2. \A l \in Leaves \ Of(t, S) : Part(row, t, S)[l] = 0 BY DEF Part, Of
<1>3. SumOver(Part(row, t, S), Of(t, S)) = SumOver(Part(row, t, S), Leaves)
  BY <1>0, <1>1, <1>2, SumOfPart
<1>4. \A l \in Of(t, S) : Part(row, t, S)[l] \in Int /\ d[l] = Part(row, t, S)[l]
  BY <1>0, <1>1 DEF Part, Of
<1>5. SumOver(d, Of(t, S)) = SumOver(Part(row, t, S), Of(t, S))
  <2>. HIDE DEF d
  <2>. QED BY <1>0, <1>4, SumOfEquals
<1>6. DOMAIN d = Of(t, S) OBVIOUS
<1>7. SumOf(d) = SumOver(d, Of(t, S))
  <2>. HIDE DEF d
  <2>1. CASE Of(t, S) = {}
    <3>1. SumOver(d, {}) = 0 BY FS_EmptySet, SumOfZeros
    <3>. QED BY <1>6, <2>1, <3>1 DEF SumOf
  <2>2. CASE Of(t, S) # {}
    BY <1>6, <2>2 DEF SumOf, FoldFunction, FoldFunctionOnSet, SumOver, MapThenSumSet,
                      MapThenFoldSet
  <2>. QED BY <2>1, <2>2
<1>. QED BY <1>3, <1>5, <1>7 DEF DaysOf

\* A balance that is right says what is committed.
LEMMA CommittedIs ==
    ASSUME RowDays, NEW t \in Types
    PROVE  Committed(t) = DaysOf(t, {"APPROVED"}) + DaysOf(t, {"PENDING"})
<1>. DEFINE h == Part(row, t, Live)
            f == Part(row, t, {"APPROVED"})
            g == Part(row, t, {"PENDING"})
<1>1. \A l \in Leaves : f[l] \in Int /\ g[l] \in Int /\ h[l] = f[l] + g[l]
  <2>1. ASSUME NEW l \in Leaves PROVE f[l] \in Int /\ g[l] \in Int /\ h[l] = f[l] + g[l]
    <3>1. row[l].days \in Nat BY DEF RowDays
    <3>. QED BY <3>1, PartType DEF Live
  <2>. QED BY <2>1
<1>2. SumOver(h, Leaves) = SumOver(f, Leaves) + SumOver(g, Leaves)
  <2>. HIDE DEF f, g, h
  <2>. QED BY <1>1, SumOfBoth, LeaveAssumption
<1>. QED BY <1>2, DaysAreParts DEF Committed

\* What is committed is a natural number, and a change of one request changes
\* it by what the request takes.
LEMMA OneRow ==
    ASSUME NEW r, NEW s, NEW t, NEW l \in Leaves,
           \A k \in Leaves : r[k].days \in Nat, s[l].days \in Nat,
           \A k \in Leaves \ {l} : s[k] = r[k]
    PROVE  /\ SumOver(Part(r, t, Live), Leaves) \in Int
           /\ SumOver(Part(s, t, Live), Leaves)
                = SumOver(Part(r, t, Live), Leaves) - Part(r, t, Live)[l] + Part(s, t, Live)[l]
<1>. DEFINE f == Part(r, t, Live)
            g == Part(s, t, Live)
<1>0. IsFiniteSet(Leaves) BY LeaveAssumption
<1>1. \A k \in Leaves : f[k] \in Int BY PartType
<1>2. g[l] \in Int BY PartType
<1>3. \A k \in Leaves \ {l} : g[k] = f[k] BY DEF Part
<1>4. SumOver(f, Leaves) \in Int /\ SumOver(g, Leaves) = SumOver(f, Leaves) - f[l] + g[l]
  <2>. HIDE DEF f, g
  <2>. QED BY <1>0, <1>1, <1>2, <1>3, SumChanged, SumIsInt
<1>. QED BY <1>4
\* What a step may do to the balances: an allocation that sinks is doubtful.
Allots(c) ==
    /\ doubtful \subseteq doubtful'
    /\ \A t \in Types : t \in doubtful' \/ allocated[t] <= allocated'[t]
    /\ kept \subseteq kept'
    /\ \A t \in Types \ kept' : allocated'[t] = 0
    /\ pc'[c] = "adjust" => want'[c].type \in kept'

\* Every step of a call allots what its type still has room for.
LEMMA StepAllots ==
    ASSUME IInv, Limits, NEW c \in Calls, StepOf(c)
    PROVE  /\ Allots(c)
           /\ ~Loading(c) /\ ~CheckEdit(c) => pc'[c] \notin {"file", "check", "edit"}
<1>. USE DEF IInv
<1>a. TypeOK /\ Shape(c) /\ Granted /\ (\A t \in Types : allocated[t] \in Int)
  BY AllocatedInt DEF Limits
<1>b. ASSUME kept' = kept, allocated' = allocated, doubtful \subseteq doubtful',
             pc'[c] # "adjust" \/ want'[c].type \in kept
      PROVE  Allots(c)
  BY <1>a, <1>b DEF Allots, Granted
<1>1. CASE Loading(c)
  <2>1. ASSUME NEW op, NEW l, NEW w, NEW v, NEW s, Load(c, op, l, w, v, s),
               op # "adjust" \/ w.type \in kept
        PROVE  Allots(c)
    <3>1. /\ kept' = kept /\ allocated' = allocated /\ doubtful' = doubtful
          /\ pc'[c] = op /\ want'[c] = w
      BY <1>a, <2>1 DEF Load, TypeOK, balance
    <3>. QED BY <1>b, <2>1, <3>1
  <2>2. ASSUME NEW l \in Leaves, NEW t \in Types, NEW d \in Days,
               LoadFile(c, l, t, d) \/ LoadEdit(c, l, t, d)
        PROVE  Allots(c)
    BY <2>1, <2>2 DEF LoadFile, LoadEdit
  <2>3. ASSUME NEW l \in Leaves, NEW v \in Decided, LoadDecide(c, l, v) \/ LoadPut(c, l, v)
        PROVE  Allots(c)
    BY <2>1, <2>3 DEF LoadDecide, LoadPut
  <2>4. ASSUME NEW t \in Types, NEW d \in Steps, LoadAdjust(c, t, d) PROVE Allots(c)
    <3>1. /\ Load(c, "adjust", None, [type |-> t, days |-> allocated[t] + d], "APPROVED", NoRow)
          /\ [type |-> t, days |-> allocated[t] + d].type \in kept
      BY <2>4 DEF LoadAdjust
    <3>. QED BY <2>1, <3>1
  <2>. QED BY <1>1, <2>2, <2>3, <2>4 DEF Loading
<1>2. ASSUME NEW t \in Types, NEW n \in Grants, Grant(c, t, n)
      PROVE  Allots(c) /\ pc'[c] \notin {"file", "check", "edit"}
  <2>1. /\ kept' = kept \cup {t} /\ allocated' = [allocated EXCEPT ![t] = n]
        /\ doubtful' = IF n < allocated[t] THEN doubtful \cup {t} ELSE doubtful
        /\ pc'[c] = "heal" /\ n \in Int
    BY <1>a, <1>2, LeaveAssumption DEF Grant, Allocates, TypeOK
  <2>. QED BY <1>a, <2>1 DEF Allots, Granted, TypeOK
<1>3. CASE File(c) \/ Edit(c) \/ Decide(c)
  <2>1. PICK types : Rewrites(c, types) BY <1>3, RewritesRows
  <2>2. kept' = kept /\ allocated' = allocated
    BY <1>3 DEF File, Edit, Decide, Heals, balance
  <2>3. doubtful \subseteq doubtful' BY <1>3 DEF File, Edit, Decide
  <2>. QED BY <1>b, <2>1, <2>2, <2>3 DEF Rewrites
<1>4. CASE LoadShift(c)
  <2>1. want[c].type \in Types BY <1>a, <1>4 DEF Shape, LoadShift
  <2>2. /\ kept' = kept \cup {want[c].type} /\ doubtful \subseteq doubtful'
        /\ allocated' = IF want[c].type \in kept THEN allocated
                        ELSE [allocated EXCEPT ![want[c].type] = Standard]
        /\ want[c].type \notin kept /\ Standard < allocated[want[c].type]
              => want[c].type \in doubtful'
        /\ pc'[c] \in {"heal", "shifting"}
    BY <1>a, <1>4 DEF LoadShift, Allocates, TypeOK
  <2>3. Standard \in Int BY LeaveAssumption
  <2>. QED BY <1>a, <2>1, <2>2, <2>3 DEF Allots, Granted, TypeOK
<1>5. CASE Shift(c) \/ CountApproved(c) \/ CountPending(c)
  <2>1. /\ kept' = kept /\ allocated' = allocated /\ doubtful' = doubtful
        /\ pc'[c] \in {"heal", "counted", "recompute"}
    BY <1>a, <1>5 DEF Shift, CountApproved, CountPending, TypeOK, balance, history
  <2>. QED BY <1>b, <2>1
<1>6. CASE Recompute(c)
  <2>1. /\ Head(heal[c]) \in Types /\ kept' = kept \cup {Head(heal[c])}
        /\ allocated' = allocated /\ doubtful' = doubtful
        /\ pc'[c] \in {"heal", "idle"}
    BY <1>a, <1>6 DEF Recompute, Shape, TypeOK
  <2>. QED BY <1>a, <2>1 DEF Allots, Granted
<1>7. CASE Skip(c) \/ GiveUp(c)
  <2>1. /\ kept' = kept /\ allocated' = allocated /\ doubtful' = doubtful
        /\ pc'[c] \in {"heal", "idle"}
    BY <1>a, <1>7 DEF Skip, GiveUp, Over, TypeOK, balance
  <2>. QED BY <1>b, <2>1
<1>8. CASE Adjust(c)
  <2>1. /\ want[c].type \in kept /\ want[c].type \in Types /\ want[c].days \in Nat
    BY <1>a, <1>8 DEF Adjust, Shape, Granted
  <2>2. /\ kept' = kept /\ allocated' = [allocated EXCEPT ![want[c].type] = want[c].days]
        /\ doubtful' = IF want[c].days < allocated[want[c].type]
                       THEN doubtful \cup {want[c].type} ELSE doubtful
        /\ pc'[c] = "idle"
    BY <1>a, <1>8 DEF Adjust, Allocates, Over, TypeOK
  <2>. QED BY <1>a, <2>1, <2>2 DEF Allots, Granted, TypeOK
<1>9. CASE CheckEdit(c) \/ ReadShift(c)
  <2>1. /\ kept' = kept /\ allocated' = allocated /\ doubtful' = doubtful
        /\ pc'[c] = IF pc[c] = "check" THEN "edit" ELSE "weigh"
    BY <1>a, <1>9 DEF CheckEdit, ReadShift, TypeOK, balance, history
  <2>2. pc[c] = "check" => CheckEdit(c) BY <1>9 DEF ReadShift
  <2>. QED BY <1>b, <2>1, <2>2
<1>. QED BY <1>1, <1>2, <1>3, <1>4, <1>5, <1>6, <1>7, <1>8, <1>9 DEF StepOf, Allots


\* A check against a balance that is true leaves room, if the request takes the
\* days h that were added back.
LEMMA FitsRoom ==
    ASSUME IInv, Limits, NEW l \in Leaves, NEW t \in Types, NEW d \in Nat, NEW h \in Nat,
           ~Off(t), Fits(t, d, h), h <= Part(row, t, Live)[l]
    PROVE  Committed(t) - Part(row, t, Live)[l] + d <= allocated[t]
<1>. USE DEF IInv
<1>a. TypeOK /\ RowDays /\ BalancesFollowRequests /\ allocated[t] \in Int
  BY AllocatedInt DEF Limits
<1>1. ~Healing(t) /\ t \notin spoiled /\ t \in kept BY DEF Off
<1>2. used[t] = DaysOf(t, {"APPROVED"}) /\ pending[t] = DaysOf(t, {"PENDING"})
  BY <1>a, <1>1 DEF BalancesFollowRequests
<1>3. d <= allocated[t] - used[t] - pending[t] + h BY <1>1 DEF Fits, Available
<1>4. Committed(t) = used[t] + pending[t] BY <1>a, <1>2, CommittedIs
<1>5. used[t] \in Int /\ pending[t] \in Int
  <2>1. ASSUME NEW S PROVE DaysOf(t, S) \in Int
    <3>1. DaysOf(t, S) = SumOver(Part(row, t, S), Leaves) BY <1>a, DaysAreParts
    <3>2. \A k \in Leaves : Part(row, t, S)[k] \in Int BY <1>a, PartType DEF RowDays
    <3>. QED BY <3>1, <3>2, SumIsInt, LeaveAssumption
  <2>. QED BY <1>2, <2>1
<1>6. Part(row, t, Live)[l] \in Nat BY <1>a, PartType DEF RowDays
<1>. QED BY <1>a, <1>3, <1>4, <1>5, <1>6

\* A call that loads what it asks for finds the room, or is misled.
LEMMA LoadsRoom ==
    ASSUME IInv, Limits, NEW c \in Calls, Loading(c)
    PROVE  Room(c)'
<1>. USE DEF IInv
<1>a. TypeOK /\ RowDays BY DEF Limits
<1>b. Days \subseteq Nat BY LeaveAssumption
<1>1. ASSUME NEW l \in Leaves, NEW t \in Types, NEW d \in Days, LoadFile(c, l, t, d)
      PROVE  Room(c)'
  <2>1. /\ Fits(t, d, 0) /\ Misleads(c, Off(t)) /\ row[l].status = "NONE"
        /\ Load(c, "file", l, [type |-> t, days |-> d], "APPROVED", NoRow)
    BY <1>1 DEF LoadFile
  <2>2. /\ row' = row /\ allocated' = allocated /\ doubtful' = doubtful /\ pc'[c] = "file"
        /\ want'[c] = [type |-> t, days |-> d] /\ leave'[c] = l
    BY <1>a, <2>1 DEF Load, TypeOK, request, balance
  <2>3. d \in Nat /\ want'[c].type = t /\ want'[c].days = d BY <1>b, <2>2
  <2>4. Part(row, t, Live)[l] = 0 BY <2>1 DEF Part, Live
  <2>5. ASSUME c \notin misled' PROVE Committed(t) - Part(row, t, Live)[l] + d <= allocated[t]
    <3>1. ~Off(t) BY <2>1, <2>5 DEF Misleads
    <3>. QED BY <2>1, <2>3, <2>4, <3>1, FitsRoom
  <2>6. c \in misled' \/ SumOver(Part(row', t, Live), Leaves) - Part(row', t, Live)[l] + d
                           <= allocated'[t]
    BY <2>2, <2>5 DEF Committed
  <2>. QED BY <2>2, <2>3, <2>6 DEF Room, Committed
<1>2. ASSUME NEW l \in Leaves, NEW t \in Types, NEW d \in Days, LoadEdit(c, l, t, d)
      PROVE  Room(c)'
  <2>1. /\ pc'[c] = "check" /\ want'[c] = [type |-> t, days |-> d] /\ seen'[c] = row[l]
    BY <1>a, <1>2 DEF LoadEdit, Load, TypeOK
  <2>2. want'[c].days \in Nat /\ seen'[c].days \in Nat BY <1>a, <1>b, <2>1 DEF RowDays
  <2>. QED BY <2>1, <2>2 DEF Room
<1>3. ASSUME NEW l \in Leaves, NEW v \in Decided, LoadDecide(c, l, v) \/ LoadPut(c, l, v)
      PROVE  Room(c)'
  <2>1. pc'[c] \in {"decide", "put"} BY <1>a, <1>3 DEF LoadDecide, LoadPut, Load, TypeOK
  <2>. QED BY <2>1 DEF Room
<1>4. ASSUME NEW t \in Types, NEW d \in Steps, LoadAdjust(c, t, d) PROVE Room(c)'
  <2>1. pc'[c] = "adjust" BY <1>a, <1>4 DEF LoadAdjust, Load, TypeOK
  <2>. QED BY <2>1 DEF Room
<1>. QED BY <1>1, <1>2, <1>3, <1>4 DEF Loading

\* An edit that passes its check has the room, or is misled.
LEMMA ChecksRoom ==
    ASSUME IInv, Limits, NEW c \in Calls, CheckEdit(c)
    PROVE  Room(c)'
<1>. USE DEF IInv
<1>a. TypeOK /\ RowDays /\ Shape(c) /\ Room(c) /\ pc[c] = "check" BY DEF Limits, CheckEdit
<1>b. PICK t \in Types : t = want[c].type BY <1>a DEF Shape
<1>c. PICK l \in Leaves : l = leave[c] BY <1>a DEF Shape
<1>d. PICK d \in Nat : d = want[c].days BY <1>a DEF Room
<1>1. /\ Fits(t, d, Headroom(c)) /\ Misleads(c, Off(t) \/ Outrun(c))
      /\ pc'[c] = "edit" /\ row' = row /\ allocated' = allocated /\ doubtful' = doubtful
      /\ want' = want /\ leave' = leave /\ seen' = seen
  BY <1>a, <1>b, <1>d DEF CheckEdit, TypeOK, request, balance
<1>2. ASSUME c \notin misled' PROVE Committed(t) - Part(row, t, Live)[l] + d <= allocated[t]
  <2>1. ~Off(t) /\ ~Outrun(c) BY <1>1, <1>2 DEF Misleads
  <2>2. Takes(l, t) = Part(row, t, Live)[l] /\ Part(row, t, Live)[l] \in Nat
    <3>1. row[l].days \in Nat BY <1>a DEF RowDays
    <3>. QED BY <3>1, PartType DEF Takes, Live
  <2>3. Headroom(c) \in Nat /\ Headroom(c) <= Part(row, t, Live)[l]
    <3>1. CASE seen[c].type = t
      <4>1. Headroom(c) = seen[c].days /\ seen[c].days \in Nat
        BY <1>a, <1>b, <3>1 DEF Headroom, Room
      <4>2. ~(Takes(l, t) < seen[c].days) BY <1>b, <1>c, <2>1, <3>1 DEF Outrun
      <4>. QED BY <2>2, <4>1, <4>2
    <3>2. CASE seen[c].type # t
      <4>1. Headroom(c) = 0 BY <1>b, <3>2 DEF Headroom
      <4>. QED BY <2>2, <4>1
    <3>. QED BY <3>1, <3>2
  <2>. QED BY <1>1, <2>1, <2>3, FitsRoom
<1>3. c \in misled' \/ SumOver(Part(row', t, Live), Leaves) - Part(row', t, Live)[l] + d
                         <= allocated'[t]
  BY <1>1, <1>2 DEF Committed
<1>4. seen[c].days \in Nat BY <1>a DEF Room
<1>. QED BY <1>1, <1>3, <1>4, <1>b, <1>c, <1>d DEF Room, Committed

\* A change of a request leaves it with a natural number of days, and brings a
\* type within its allocation, or makes it doubtful.
LEMMA RewritesLimits ==
    ASSUME IInv, Limits, NEW c \in Calls, File(c) \/ Edit(c) \/ Decide(c)
    PROVE  RowDays' /\ \A t \in Types : Within(t)'
<1>. USE DEF IInv
<1>a. /\ TypeOK /\ Shape(c) /\ RowDays /\ Room(c) /\ Allots(c)
      /\ \A t \in Types : Within(t) /\ allocated[t] \in Int
  BY StepAllots, AllocatedInt DEF Limits, StepOf
<1>b. PICK types : Rewrites(c, types) BY RewritesRows
<1>c. PICK l \in Leaves : l = leave[c] BY <1>a, <1>b DEF Rewrites, Shape
<1>d. (\A k \in Leaves \ {l} : row'[k] = row[k]) /\ (\A k \in Leaves : row[k].days \in Nat)
  BY <1>a, <1>b, <1>c DEF Rewrites, RowDays
<1>e. allocated' = allocated
  BY DEF File, Edit, Decide, Heals, balance
<1>1. ASSUME row'[l].days \in Nat, NEW t \in Types,
             t \in doubtful' \/ Part(row', t, Live)[l] <= Part(row, t, Live)[l]
             \/ (/\ t = want[c].type /\ pc[c] \in {"file", "edit"} /\ c \notin misled
                 /\ Part(row', t, Live)[l] <= want[c].days)
      PROVE  Within(t)'
  <2>1. /\ Committed(t) \in Int
        /\ SumOver(Part(row', t, Live), Leaves)
             = Committed(t) - Part(row, t, Live)[l] + Part(row', t, Live)[l]
    BY <1>d, <1>1, OneRow DEF Committed
  <2>2. Part(row, t, Live)[l] \in Nat /\ Part(row', t, Live)[l] \in Nat
    BY <1>d, <1>1, PartType
  <2>3. doubtful \subseteq doubtful' /\ allocated[t] \in Int /\ Within(t)
    BY <1>a DEF Allots
  <2>4. t \in doubtful' \/ SumOver(Part(row', t, Live), Leaves) <= allocated[t]
    <3>1. CASE t \in doubtful' BY <3>1
    <3>2. CASE t \notin doubtful' /\ Part(row', t, Live)[l] <= Part(row, t, Live)[l]
      <4>1. Committed(t) <= allocated[t] BY <2>3, <3>2 DEF Within
      <4>. QED BY <2>1, <2>2, <2>3, <3>2, <4>1
    <3>3. CASE /\ t \notin doubtful'
               /\ t = want[c].type /\ pc[c] \in {"file", "edit"} /\ c \notin misled
               /\ Part(row', t, Live)[l] <= want[c].days
      <4>1. /\ Committed(t) - Part(row, t, Live)[l] + want[c].days <= allocated[t]
            /\ want[c].days \in Nat
        BY <1>a, <1>c, <2>3, <3>3 DEF Room
      <4>. QED BY <2>1, <2>2, <2>3, <3>3, <4>1
    <3>. QED BY <1>1, <3>1, <3>2, <3>3
  <2>. QED BY <1>e, <2>4 DEF Within, Committed
<1>2. CASE File(c) \/ Edit(c)
  <2>1. /\ pc[c] \in {"file", "edit"} /\ want[c].days \in Nat
        /\ row'[l].type = want[c].type /\ row'[l].days = want[c].days
        /\ c \in misled => want[c].type \in doubtful'
    BY <1>2, <1>a, <1>c DEF File, Edit, Room, TypeOK
  <2>2. ASSUME NEW t \in Types PROVE Within(t)'
    <3>1. CASE t = want[c].type
      <4>1. Part(row', t, Live)[l] <= want[c].days BY <2>1, <3>1, PartType
      <4>. QED BY <1>1, <2>1, <3>1, <4>1
    <3>2. CASE t # want[c].type
      <4>1. Part(row', t, Live)[l] = 0 BY <2>1, <3>2, PartType
      <4>2. Part(row, t, Live)[l] \in Nat BY <1>d, PartType
      <4>3. Part(row', t, Live)[l] <= Part(row, t, Live)[l] BY <4>1, <4>2
      <4>. QED BY <1>1, <2>1, <4>3
    <3>. QED BY <3>1, <3>2
  <2>3. RowDays'
    <3>1. \A k \in Leaves : row'[k].days \in Nat BY <1>d, <2>1
    <3>. QED BY <3>1 DEF RowDays
  <2>. QED BY <2>2, <2>3
<1>3. CASE Decide(c)
  <2>1. /\ row'[l].type = row[l].type /\ row'[l].days = row[l].days
        /\ row'[l].status = verdict[c] /\ verdict[c] \in Decided
        /\ verdict[c] = "APPROVED" /\ row[l].status \notin Live => row[l].type \in doubtful'
    BY <1>3, <1>a, <1>c DEF Decide, TypeOK, Rows, Live
  <2>2. row'[l].days \in Nat BY <1>d, <2>1
  <2>3. ASSUME NEW t \in Types PROVE Within(t)'
    <3>1. /\ Part(row, t, Live)[l] = IF row[l].type = t /\ row[l].status \in Live
                                     THEN row[l].days ELSE 0
          /\ Part(row', t, Live)[l] = IF row'[l].type = t /\ row'[l].status \in Live
                                      THEN row'[l].days ELSE 0
          /\ row[l].days \in Nat
      BY <1>d, <2>2, PartType
    <3>2. t \in doubtful' \/ Part(row', t, Live)[l] <= Part(row, t, Live)[l]
      BY <2>1, <3>1 DEF Live, Decided
    <3>. QED BY <1>1, <2>2, <3>2
  <2>4. RowDays'
    <3>1. \A k \in Leaves : row'[k].days \in Nat BY <1>d, <2>2
    <3>. QED BY <3>1 DEF RowDays
  <2>. QED BY <2>3, <2>4
<1>. QED BY <1>2, <1>3

\* The room of another call stays, or it is misled.
LEMMA OthersRoom ==
    ASSUME IInv, Limits, NEW c \in Calls, StepOf(c), NEW q \in Calls, q # c
    PROVE  Room(q)'
<1>. USE DEF IInv
<1>a. /\ pc'[q] = pc[q] /\ want'[q] = want[q] /\ leave'[q] = leave[q] /\ seen'[q] = seen[q]
      /\ Room(q)
  BY StepOfOne DEF Others, Untouched, Limits
<1>. SUFFICES ASSUME pc'[q] \in {"file", "edit"} PROVE Room(q)'
  BY <1>a DEF Room
<1>b. PICK t \in Types : t = want[q].type BY <1>a DEF Shape
<1>c. PICK l \in Leaves : l = leave[q] BY <1>a DEF Shape
<1>d. /\ want[q].days \in Nat /\ (pc[q] = "edit" => seen[q].days \in Nat) /\ RowDays
      /\ \/ q \in misled \/ t \in doubtful
         \/ Committed(t) - Part(row, t, Live)[l] + want[q].days <= allocated[t]
  BY <1>a, <1>b, <1>c DEF Limits, Room
<1>e. /\ doubtful \subseteq doubtful'
      /\ t \in doubtful' \/ (allocated[t] <= allocated'[t])
  BY StepAllots DEF Allots
<1>1. /\ q \in misled => q \in misled'
      /\ q \in misled' \/ Part(row', t, Live) = Part(row, t, Live)
  <2>1. CASE File(c) \/ Edit(c) \/ Decide(c)
    <3>1. PICK types : Rewrites(c, types) BY <2>1, RewritesRows
    <3>2. q \in misled => q \in misled' BY <3>1 DEF Rewrites, Disturbs
    <3>3. CASE t \in types
      <4>1. q \in Relying(t) BY <1>a, <1>b DEF Relying
      <4>2. q \in misled' BY <3>1, <3>3, <4>1 DEF Rewrites, Disturbs
      <4>. QED BY <3>2, <4>2
    <3>4. CASE t \notin types
      <4>1. ASSUME NEW k \in Leaves
            PROVE  (IF row'[k].type = t /\ row'[k].status \in Live THEN row'[k].days ELSE 0)
                     = (IF row[k].type = t /\ row[k].status \in Live THEN row[k].days ELSE 0)
        BY <3>1, <3>4 DEF Rewrites, Moves, Live
      <4>2. Part(row', t, Live) = Part(row, t, Live) BY <4>1 DEF Part
      <4>. QED BY <3>2, <4>2
    <3>. QED BY <3>3, <3>4
  <2>2. CASE ~(File(c) \/ Edit(c) \/ Decide(c))
    <3>1. row' = row /\ misled \ {c} \subseteq misled' BY <2>2, OtherSteps
    <3>. QED BY <3>1
  <2>. QED BY <2>1, <2>2
<1>2. \/ q \in misled' \/ t \in doubtful'
      \/ SumOver(Part(row', t, Live), Leaves) - Part(row', t, Live)[l] + want[q].days
           <= allocated'[t]
  <2>. SUFFICES ASSUME q \notin misled', t \notin doubtful'
                PROVE  SumOver(Part(row', t, Live), Leaves) - Part(row', t, Live)[l] + want[q].days
                         <= allocated'[t]
    OBVIOUS
  <2>1. Part(row', t, Live) = Part(row, t, Live) /\ allocated[t] <= allocated'[t]
        /\ Committed(t) - Part(row, t, Live)[l] + want[q].days <= allocated[t]
    BY <1>1, <1>d, <1>e
  <2>2. Committed(t) \in Int /\ Part(row, t, Live)[l] \in Int
    <3>1. \A k \in Leaves : row[k].days \in Nat BY <1>d DEF RowDays
    <3>2. \A k \in Leaves : Part(row, t, Live)[k] \in Int BY <3>1, PartType
    <3>. QED BY <3>2, SumIsInt, LeaveAssumption DEF Committed
  <2>3. allocated[t] \in Int /\ allocated'[t] \in Int
    <3>1. TypeOK' /\ TypeOK BY NextType, StepsAreCalls
    <3>. QED BY <3>1, LeaveAssumption DEF TypeOK
  <2>4. SumOver(Part(row', t, Live), Leaves) = Committed(t)
        /\ Part(row', t, Live)[l] = Part(row, t, Live)[l]
    BY <2>1 DEF Committed
  <2>. QED BY <1>d, <2>1, <2>2, <2>3, <2>4
<1>. QED BY <1>a, <1>b, <1>c, <1>d, <1>2 DEF Room, Committed

\* Every step keeps the limits.
LEMMA NextLimits == IInv /\ Limits /\ [Next]_vars => Limits'
<1>1. ASSUME IInv, Limits, Next PROVE Limits'
  <2>1. PICK c \in Calls : StepOf(c) BY <1>1, StepsAreCalls
  <2>2. /\ Allots(c)
        /\ ~Loading(c) /\ ~CheckEdit(c) => pc'[c] \notin {"file", "check", "edit"}
    BY <1>1, <2>1, StepAllots
  <2>3. Granted'
    <3>1. ASSUME NEW q \in Calls, pc'[q] = "adjust" PROVE want'[q].type \in kept'
      <4>1. CASE q = c BY <2>2, <3>1, <4>1 DEF Allots
      <4>2. CASE q # c
        <5>1. pc'[q] = pc[q] /\ want'[q] = want[q]
          BY <1>1, <2>1, <4>2, StepOfOne DEF Others, Untouched
        <5>. QED BY <1>1, <2>2, <3>1, <5>1 DEF Limits, Granted, Allots
      <4>. QED BY <4>1, <4>2
    <3>. QED BY <2>2, <3>1 DEF Granted, Allots
  <2>4. RowDays' /\ \A t \in Types : Within(t)'
    <3>1. CASE File(c) \/ Edit(c) \/ Decide(c) BY <1>1, <3>1, RewritesLimits
    <3>2. CASE ~(File(c) \/ Edit(c) \/ Decide(c))
      <4>1. row' = row BY <1>1, <2>1, <3>2, OtherSteps
      <4>2. RowDays' BY <1>1, <4>1 DEF Limits, RowDays
      <4>3. ASSUME NEW t \in Types PROVE Within(t)'
        <5>1. SumOver(Part(row', t, Live), Leaves) = Committed(t) BY <4>1 DEF Committed
        <5>2. /\ t \in doubtful \/ Committed(t) <= allocated[t]
              /\ doubtful \subseteq doubtful'
              /\ t \in doubtful' \/ allocated[t] <= allocated'[t]
          BY <1>1, <2>2 DEF Limits, Within, Allots
        <5>3. Committed(t) \in Int
          <6>1. \A k \in Leaves : row[k].days \in Nat BY <1>1 DEF Limits, RowDays
          <6>2. \A k \in Leaves : Part(row, t, Live)[k] \in Int BY <6>1, PartType
          <6>. QED BY <6>2, SumIsInt, LeaveAssumption DEF Committed
        <5>4. allocated[t] \in Int /\ allocated'[t] \in Int
          <6>1. TypeOK' /\ TypeOK BY <1>1, NextType DEF IInv
          <6>. QED BY <6>1, LeaveAssumption DEF TypeOK
        <5>5. t \in doubtful' \/ Committed(t) <= allocated'[t] BY <5>2, <5>3, <5>4
        <5>. QED BY <5>1, <5>5 DEF Within, Committed
      <4>. QED BY <4>2, <4>3
    <3>. QED BY <3>1, <3>2
  <2>5. ASSUME NEW q \in Calls PROVE Room(q)'
    <3>1. CASE q = c /\ Loading(c) BY <1>1, <3>1, LoadsRoom
    <3>2. CASE q = c /\ CheckEdit(c) BY <1>1, <3>2, ChecksRoom
    <3>3. CASE q = c /\ ~Loading(c) /\ ~CheckEdit(c) BY <2>2, <3>3 DEF Room
    <3>4. CASE q # c BY <1>1, <2>1, <3>4, OthersRoom
    <3>. QED BY <3>1, <3>2, <3>3, <3>4
  <2>. QED BY <2>3, <2>4, <2>5 DEF Limits
<1>2. ASSUME Limits, UNCHANGED vars PROVE Limits'
  BY <1>2 DEF vars, request, balance, call, history, Limits, RowDays, Granted, Within, Room,
              Committed
<1>. QED BY <1>1, <1>2

\* No more days are granted and applied for than are allocated, but for the
\* doubtful balances the specification names.
THEOREM LimitsKept == Spec => []NeverOverCommitted
<1>1. Init => Limits
  <2>. SUFFICES ASSUME Init PROVE Limits OBVIOUS
  <2>1. RowDays BY DEF Init, NoRow, RowDays
  <2>2. Granted BY DEF Init, Granted
  <2>3. ASSUME NEW t \in Types PROVE Within(t)
    <3>1. \A l \in Leaves : Part(row, t, Live)[l] = 0 BY DEF Init, NoRow, Part, Live
    <3>2. Committed(t) = 0 BY <3>1, SumOfZeros, LeaveAssumption DEF Committed
    <3>3. allocated[t] \in Nat BY LeaveAssumption DEF Init
    <3>. QED BY <3>2, <3>3 DEF Within
  <2>4. \A c \in Calls : Room(c) BY DEF Init, Room
  <2>. QED BY <2>1, <2>2, <2>3, <2>4 DEF Limits
<1>2. IInv /\ Limits /\ [Next]_vars => Limits' BY NextLimits
<1>3. Limits => NeverOverCommitted
  BY DaysAreParts DEF Limits, Within, Committed, Live, NeverOverCommitted
<1>. QED BY <1>1, <1>2, <1>3, Inductive, PTL DEF Spec

=============================================================================
