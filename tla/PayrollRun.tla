----------------------------- MODULE PayrollRun -----------------------------
(***************************************************************************)
(* The payroll runs of one period and the corrections of their payslips:    *)
(*   lib/hr/payroll/run-service.ts   create, prepare, submit, reject,       *)
(*                                   approve, post, lock, void, request and *)
(*                                   decide a correction                    *)
(*   lib/accounting-helpers.ts       createJournalEntry, postJournalEntry   *)
(*                                                                         *)
(* Every operation reads its row, checks what it read, and later updates    *)
(* the row by id alone; other requests may have moved it in between. One    *)
(* payslip stands for all payslips of a run. Runs and corrections are       *)
(* numbered in the order of their creation, 0 stands for none. Names that   *)
(* PayrollB2C has too start with Run, for PayrollProofs extends both.       *)
(***************************************************************************)
EXTENDS Naturals, FiniteSets, FiniteSetsExt

CONSTANTS
    Users,          \* store owners: the role holds every hr.payroll key
    Requests,       \* requests the server may be working on at once
    NoUser,
    MaxRuns,        \* bound: payrollRun rows
    MaxCorrections, \* bound: payrollCorrection rows
    MaxPrepares,    \* bound: computations of payslips, over all runs
    MaxTrouble      \* bound: requests that start while another is at work,
                    \*   and requests that die or fail half-way

Runs == 1..MaxRuns
NoRun == 0
Corrections == 1..MaxCorrections
NoCorrection == 0

ASSUME RunAssumption ==
    /\ NoUser \notin Users
    /\ MaxRuns \in Nat /\ MaxCorrections \in Nat
    /\ MaxPrepares \in Nat /\ MaxTrouble \in Nat

VARIABLES
    run,        \* payrollRun rows, with their payslips
    correction, \* payrollCorrection rows
    entries,    \* journalEntry rows of runs and corrections
    call,       \* what each request is working on
    stale,      \* history: runs written from a read that was out of date
    staleCorr,  \* history: the same for corrections
    blocked,    \* history: corrections whose replacement run was refused
    died,       \* history: a request died
    trouble     \* how many requests started beside another or died, bounded

runHistory == <<stale, staleCorr, blocked, died>>
runVars == <<run, correction, entries, call, runHistory, trouble>>

-----------------------------------------------------------------------------
Statuses == {"DRAFT", "PENDING_APPROVAL", "APPROVED", "POSTED", "LOCKED",
             "REJECTED", "VOIDED", "FAILED"}

RUN_TRANSITIONS ==
    [s \in Statuses |->
        CASE s \in {"DRAFT", "REJECTED"} -> {"PENDING_APPROVAL", "VOIDED"}
          [] s = "PENDING_APPROVAL" -> {"APPROVED", "REJECTED", "VOIDED"}
          [] s = "APPROVED" -> {"POSTED", "VOIDED"}
          [] s = "POSTED" -> {"LOCKED"}
          [] s \in {"LOCKED", "VOIDED"} -> {}
          [] s = "FAILED" -> {"DRAFT"}]

Types == {"REGULAR", "SUPPLEMENTARY"}  \* OFF_CYCLE and BONUS are like REGULAR
Kinds == {"DELTA", "REVERSAL"}  \* UNDERPAYMENT and OVERPAYMENT are DELTA
Ops == {"create", "prepare", "submit", "reject", "approve", "post", "lock",
        "void", "request", "grant", "refuse"}

\* version counts the computations of the payslips, 0 when there are none;
\* replaces is the correction in the run's idempotencyKey.
BlankRun ==
    [status |-> "none", type |-> "REGULAR", replaces |-> NoCorrection,
     preparedBy |-> NoUser, submittedBy |-> NoUser, approvedBy |-> NoUser,
     version |-> 0, numbered |-> FALSE, journalEntryId |-> FALSE]
BlankCorrection ==
    [status |-> "none", kind |-> "DELTA", target |-> NoRun,
     requestedBy |-> NoUser, replacement |-> NoRun]
\* fresh: the row is still the one the request read.
Idle ==
    [op |-> "none", step |-> "idle", by |-> NoUser, run |-> NoRun,
     corr |-> NoCorrection, type |-> "REGULAR", version |-> 0,
     fresh |-> TRUE]

Keys == ({"run"} \X Runs) \cup ({"correction"} \X Corrections)

RunTypeOK ==
    /\ run \in [Runs ->
         [status : Statuses \cup {"none"}, type : Types,
          replaces : Corrections \cup {NoCorrection},
          preparedBy : Users \cup {NoUser}, submittedBy : Users \cup {NoUser},
          approvedBy : Users \cup {NoUser}, version : Nat,
          numbered : BOOLEAN, journalEntryId : BOOLEAN]]
    /\ correction \in [Corrections ->
         [status : {"none", "PENDING", "APPROVED", "APPLIED", "REJECTED"},
          kind : Kinds, target : Runs \cup {NoRun},
          requestedBy : Users \cup {NoUser}, replacement : Runs \cup {NoRun}]]
    /\ entries \subseteq
         [nr : Nat, key : Keys, version : Nat, posted : BOOLEAN]
    /\ call \in [Requests ->
         [op : Ops \cup {"none"},
          step : {"idle", "write", "open", "lookup", "insert", "ledger",
                  "number", "stamp", "release", "replace"},
          by : Users \cup {NoUser}, run : Runs \cup {NoRun},
          corr : Corrections \cup {NoCorrection}, type : Types,
          version : Nat, fresh : BOOLEAN]]
    /\ stale \subseteq Runs
    /\ staleCorr \subseteq Corrections
    /\ blocked \subseteq Corrections
    /\ died \in BOOLEAN
    /\ trouble \in 0..MaxTrouble

RunInit ==
    /\ run = [r \in Runs |-> BlankRun]
    /\ correction = [c \in Corrections |-> BlankCorrection]
    /\ entries = {}
    /\ call = [q \in Requests |-> Idle]
    /\ stale = {} /\ staleCorr = {} /\ blocked = {}
    /\ died = FALSE
    /\ trouble = 0

-----------------------------------------------------------------------------
CreatedRuns == {r \in Runs : run[r].status # "none"}
NewRun == Cardinality(CreatedRuns) + 1
Requested == {c \in Corrections : correction[c].status # "none"}
NewCorrection == Cardinality(Requested) + 1

Prepared == MapThenSumSet(LAMBDA r : run[r].version, Runs)

EntriesOf(key) == {e \in entries : e.key = key}
RunKey(r) == <<"run", r>>
CorrKey(c) == <<"correction", c>>
Key(q) == IF call[q].op = "post" THEN RunKey(call[q].run)
                                 ELSE CorrKey(call[q].corr)

At(q, step) == call[q].step = step
Doing(q, op, step) == call[q].op = op /\ At(q, step)
OnRun(r) == {q \in Requests : call[q].run = r}
OnCorrection(c) == {q \in Requests : call[q].corr = c}

(* Mutated forms of the definitions below, one plausible bug each; the      *)
(* specification uses none of them.                                         *)

\* the period may have a second run while the first is being reworked
IgnoresRejected(type) ==
    {r \in CreatedRuns : run[r].type = type
                     /\ run[r].status \notin {"VOIDED", "REJECTED"}}
\* an approved run may be computed again
PreparesApproved(r) ==
    run[r].status \in {"DRAFT", "REJECTED", "APPROVED"}
\* the run is voided whatever its status
VoidsPosted(r) == run[r].status \notin {"VOIDED", "LOCKED"}
\* the key column is not unique
NoUniqueKey(key) == FALSE
\* a status the state machine does not know
MarksProcessed == "PROCESSED"

-----------------------------------------------------------------------------
(* Requests. A call record keeps what the request will use of what it read. *)

\* q goes on as next; the calls in outdated no longer know the row's state.
Proceed(q, next, outdated) ==
    call' = [p \in Requests |->
        IF p = q THEN next
        ELSE IF p \in outdated THEN [call[p] EXCEPT !.fresh = FALSE]
        ELSE call[p]]

Others(q) == {p \in Requests \ {q} : call[p] # Idle}

Read(op, r) == [Idle EXCEPT !.op = op, !.step = "write", !.run = r]

StartCall(q, call0) ==
    /\ call[q] = Idle
    /\ trouble' = trouble + (IF Others(q) = {} THEN 0 ELSE 1)
    /\ trouble' <= MaxTrouble
    /\ Proceed(q, call0, {})
    /\ UNCHANGED <<run, correction, entries, runHistory>>

Goes(q, step) ==
    /\ Proceed(q, [call[q] EXCEPT !.step = step], {})
    /\ UNCHANGED <<run, correction, runHistory, trouble>>

\* The request throws or returns without a further write.
Ends(q) ==
    /\ Proceed(q, Idle, {})
    /\ UNCHANGED <<run, correction, entries, runHistory, trouble>>

\* The update of the run the request works on; next is what q does after it.
Updates(q, row, next) ==
    LET r == call[q].run IN
    /\ run' = [run EXCEPT ![r] = row]
    /\ stale' = IF call[q].fresh THEN stale ELSE stale \cup {r}
    /\ Proceed(q, next, OnRun(r))
    /\ UNCHANGED <<entries, staleCorr, blocked, died, trouble>>

\* The update of the correction it decides.
UpdatesCorrection(q, row) ==
    LET c == call[q].corr IN
    /\ correction' = [correction EXCEPT ![c] = row]
    /\ staleCorr' = IF call[q].fresh THEN staleCorr ELSE staleCorr \cup {c}
    /\ Proceed(q, Idle, OnCorrection(c))
    /\ UNCHANGED <<run, entries, stale, blocked, died, trouble>>

-----------------------------------------------------------------------------
(* createPayrollRun. The caller's own idempotencyKey is left out: only the  *)
(* replacement runs have one here.                                          *)

LiveRuns(type) ==
    {r \in CreatedRuns : run[r].type = type /\ run[r].status # "VOIDED"}

CreateReads(q, type) ==
    /\ LiveRuns(type) = {}
    /\ StartCall(q, [Idle EXCEPT !.op = "create", !.step = "open", !.type = type])

\* payrollRun.create; the unique key refuses a second replacement run.
Opens(q) ==
    /\ At(q, "open")
    /\ NewRun \in Runs
    /\ LET c == call[q].corr
           taken == c # NoCorrection /\ \E r \in CreatedRuns : run[r].replaces = c
           opening == {p \in Requests : At(p, "open")}
       IN IF taken THEN Ends(q)
          ELSE /\ run' = [run EXCEPT ![NewRun] =
                   [BlankRun EXCEPT !.status = "DRAFT", !.replaces = c,
                                    !.type = call[q].type]]
               /\ stale' = IF call[q].fresh THEN stale ELSE stale \cup {NewRun}
               /\ Proceed(q, IF call[q].op = "create" THEN Idle
                             ELSE [call[q] EXCEPT !.step = "stamp",
                                                  !.run = NewRun],
                          opening)
               /\ UNCHANGED <<correction, entries, staleCorr, blocked, died, trouble>>

-----------------------------------------------------------------------------
(* preparePayrollRun                                                        *)

MayPrepare(r) == run[r].status \in {"DRAFT", "REJECTED"}

PrepareReads(q, u, r) ==
    /\ MayPrepare(r)
    /\ StartCall(q, [Read("prepare", r) EXCEPT !.by = u])

\* A gate is closed, or a correction refers to a payslip to be deleted.
PrepareRefused(q) == Doing(q, "prepare", "write") /\ Ends(q)

PrepareWrites(q) ==
    /\ Doing(q, "prepare", "write")
    /\ LET r == call[q].run IN
       /\ \A c \in Requested : correction[c].target # r
       /\ Prepared < MaxPrepares
       /\ Updates(q, [run[r] EXCEPT !.version = @ + 1, !.numbered = FALSE,
                                    !.preparedBy = call[q].by], Idle)
    /\ UNCHANGED correction

-----------------------------------------------------------------------------
(* submit, reject, approve, lock, void: assertTransition on the row read,   *)
(* then an update by id.                                                    *)

Moves(r, to) == r \in CreatedRuns /\ to \in RUN_TRANSITIONS[run[r].status]

MayApprove(u, r) == u # run[r].preparedBy /\ u # run[r].submittedBy
MayVoid(r) == Moves(r, "VOIDED")

SubmitReads(q, u, r) ==
    /\ Moves(r, "PENDING_APPROVAL") /\ run[r].version > 0
    /\ StartCall(q, [Read("submit", r) EXCEPT !.by = u])

RejectReads(q, r) == Moves(r, "REJECTED") /\ StartCall(q, Read("reject", r))

ApproveReads(q, u, r) ==
    /\ Moves(r, "APPROVED") /\ MayApprove(u, r)
    /\ StartCall(q, [Read("approve", r) EXCEPT !.by = u])

LockReads(q, r) == Moves(r, "LOCKED") /\ StartCall(q, Read("lock", r))

VoidReads(q, r) ==
    r \in CreatedRuns /\ MayVoid(r) /\ StartCall(q, Read("void", r))

SubmitWrites(q) ==
    /\ Doing(q, "submit", "write")
    /\ Updates(q, [run[call[q].run] EXCEPT !.status = "PENDING_APPROVAL",
                                           !.submittedBy = call[q].by], Idle)
    /\ UNCHANGED correction

ApproveWrites(q) ==
    /\ Doing(q, "approve", "write")
    /\ Updates(q, [run[call[q].run] EXCEPT !.status = "APPROVED",
                                           !.approvedBy = call[q].by], Idle)
    /\ UNCHANGED correction

Outcome == [reject |-> "REJECTED", lock |-> "LOCKED", void |-> "VOIDED"]

StatusWrites(q) ==
    /\ call[q].op \in DOMAIN Outcome /\ At(q, "write")
    /\ Updates(q, [run[call[q].run] EXCEPT !.status = Outcome[call[q].op]],
               Idle)
    /\ UNCHANGED correction

-----------------------------------------------------------------------------
(* createJournalEntry with an idempotency key, postImmediately: look the    *)
(* key up, insert the entry unposted, then post it.                         *)

FirstStep(op) == "lookup"
KeyTaken(key) == EntriesOf(key) # {}
GoesToLedger(q) == TRUE

AfterBooking(q) ==
    CASE call[q].op = "post" -> "number"
      [] call[q].op = "grant" /\ correction[call[q].corr].kind = "REVERSAL"
           -> "stamp"
      [] OTHER -> "replace"

BookLookup(q) ==
    /\ At(q, "lookup")
    /\ Goes(q, IF EntriesOf(Key(q)) = {} THEN "insert" ELSE AfterBooking(q))
    /\ UNCHANGED entries

\* Of two inserts under one key the second fails and its request throws.
BookInsert(q) ==
    /\ At(q, "insert")
    /\ IF KeyTaken(Key(q)) THEN Ends(q)
       ELSE /\ entries' = entries \cup
                 {[nr |-> Cardinality(EntriesOf(Key(q))), key |-> Key(q),
                   version |-> call[q].version, posted |-> FALSE]}
            /\ Goes(q, IF GoesToLedger(q) THEN "ledger" ELSE AfterBooking(q))

BookPost(q) ==
    /\ At(q, "ledger")
    /\ entries' = {IF e.key = Key(q) THEN [e EXCEPT !.posted = TRUE] ELSE e :
                       e \in entries}
    /\ Goes(q, AfterBooking(q))

-----------------------------------------------------------------------------
(* postPayrollRun: book the wages, number the payslips it read, mark the    *)
(* run POSTED, release the corrections that waited for it. A run that has   *)
(* its journal entry is returned as it is.                                  *)

PostReads(q, r) ==
    /\ ~run[r].journalEntryId
    /\ Moves(r, "POSTED") /\ run[r].version > 0
    /\ StartCall(q, [Read("post", r) EXCEPT !.step = FirstStep("post"),
                                        !.version = run[r].version])

\* Numbers go to payslips by id: one that was recomputed is not found.
PostNumbers(q) ==
    /\ Doing(q, "post", "number")
    /\ IF run[call[q].run].version # call[q].version THEN Ends(q)
       ELSE /\ run' = [run EXCEPT ![call[q].run].numbered = TRUE]
            /\ Proceed(q, [call[q] EXCEPT !.step = "stamp"], {})
            /\ UNCHANGED <<correction, entries, runHistory, trouble>>

Posted == "POSTED"
PostStamps(q) ==
    /\ Doing(q, "post", "stamp")
    /\ Updates(q, [run[call[q].run] EXCEPT !.status = Posted,
                                           !.journalEntryId = TRUE],
               [call[q] EXCEPT !.step = "release"])
    /\ UNCHANGED correction

WaitingFor(r) ==
    {c \in Corrections : /\ correction[c].status = "APPROVED"
                         /\ correction[c].replacement = r}

PostReleases(q) ==
    /\ Doing(q, "post", "release")
    /\ LET released == WaitingFor(call[q].run) IN
       /\ correction' = [c \in Corrections |->
            IF c \in released THEN [correction[c] EXCEPT !.status = "APPLIED"]
            ELSE correction[c]]
       /\ Proceed(q, Idle, UNION {OnCorrection(c) : c \in released})
    /\ UNCHANGED <<run, entries, runHistory, trouble>>

-----------------------------------------------------------------------------
(* requestPayrollCorrection, decidePayrollCorrection                        *)

RequestReads(q, u, r) ==
    /\ run[r].status \in {"POSTED", "LOCKED"} /\ run[r].version > 0
    /\ ~\E c \in Requested : /\ correction[c].target = r
                             /\ correction[c].status = "PENDING"
    /\ StartCall(q, [Read("request", r) EXCEPT !.by = u,
                                           !.version = run[r].version])

\* The correction refers to the payslip that was read.
RequestWrites(q, kind) ==
    /\ Doing(q, "request", "write")
    /\ NewCorrection \in Corrections
    /\ IF run[call[q].run].version # call[q].version THEN Ends(q)
       ELSE /\ correction' = [correction EXCEPT ![NewCorrection] =
                [status |-> "PENDING", kind |-> kind, target |-> call[q].run,
                 requestedBy |-> call[q].by, replacement |-> NoRun]]
            /\ Proceed(q, Idle, {})
            /\ UNCHANGED <<run, entries, runHistory, trouble>>

MayRefuse(c) == correction[c].status = "PENDING"

RefuseReads(q, u, c) ==
    /\ MayRefuse(c) /\ u # correction[c].requestedBy
    /\ StartCall(q, [Idle EXCEPT !.op = "refuse", !.step = "write", !.corr = c])

RefuseWrites(q) ==
    /\ Doing(q, "refuse", "write")
    /\ UpdatesCorrection(q,
         [correction[call[q].corr] EXCEPT !.status = "REJECTED"])

GrantReads(q, u, c) ==
    /\ correction[c].status = "PENDING" /\ u # correction[c].requestedBy
    /\ StartCall(q, [Idle EXCEPT !.op = "grant", !.step = FirstStep("grant"),
                             !.corr = c, !.type = "SUPPLEMENTARY"])

\* createPayrollRun for the replacement: replay by key, else the run must be
\* the period's only supplementary one, or the request throws.
GrantReplaces(q) ==
    /\ Doing(q, "grant", "replace")
    /\ LET c == call[q].corr
           replay == {r \in CreatedRuns : run[r].replaces = c}
       IN IF replay # {}
          THEN \E r \in replay :
                 /\ Proceed(q, [call[q] EXCEPT !.step = "stamp", !.run = r], {})
                 /\ UNCHANGED blocked
          ELSE IF LiveRuns("SUPPLEMENTARY") # {}
          THEN Proceed(q, Idle, {}) /\ blocked' = blocked \cup {c}
          ELSE Proceed(q, [call[q] EXCEPT !.step = "open"], {})
               /\ UNCHANGED blocked
    /\ UNCHANGED <<run, correction, entries, stale, staleCorr, died, trouble>>

Decided(r) == IF r = NoRun THEN "APPLIED" ELSE "APPROVED"

GrantStamps(q) ==
    /\ Doing(q, "grant", "stamp")
    /\ LET r == call[q].run IN
       UpdatesCorrection(q,
         [correction[call[q].corr] EXCEPT
            !.status = Decided(r), !.replacement = r])

-----------------------------------------------------------------------------
\* The server dies, or a database call fails, after the request's first write;
\* before it a request that stops is one that never came.
Dies(q) ==
    /\ \/ call[q].step \in {"ledger", "number", "stamp", "release", "replace"}
       \/ Doing(q, "grant", "open")
    /\ trouble < MaxTrouble
    /\ trouble' = trouble + 1
    /\ died' = TRUE
    /\ Proceed(q, Idle, {})
    /\ UNCHANGED <<run, correction, entries, stale, staleCorr, blocked>>

RunNext ==
    \E q \in Requests :
      \/ \E t \in Types : CreateReads(q, t)
      \/ \E r \in Runs :
           \/ \E u \in Users :
                PrepareReads(q, u, r) \/ SubmitReads(q, u, r)
                \/ ApproveReads(q, u, r) \/ RequestReads(q, u, r)
           \/ RejectReads(q, r) \/ LockReads(q, r) \/ VoidReads(q, r)
           \/ PostReads(q, r)
      \/ \E c \in Corrections, u \in Users :
           RefuseReads(q, u, c) \/ GrantReads(q, u, c)
      \/ Opens(q)
      \/ PrepareRefused(q) \/ PrepareWrites(q)
      \/ SubmitWrites(q) \/ ApproveWrites(q) \/ StatusWrites(q)
      \/ BookLookup(q) \/ BookInsert(q) \/ BookPost(q)
      \/ PostNumbers(q) \/ PostStamps(q) \/ PostReleases(q)
      \/ \E k \in Kinds : RequestWrites(q, k)
      \/ RefuseWrites(q)
      \/ GrantReplaces(q) \/ GrantStamps(q)
      \/ Dies(q)

RunSpec == RunInit /\ [][RunNext]_runVars

-----------------------------------------------------------------------------
Booked(key) == EntriesOf(key) # {}
Working(key) == \E q \in Requests : call[q].op \in {"post", "grant"} /\ Key(q) = key

\* What is paid is booked. Unless an update from an out-of-date read hit the
\* run, the payslips that got their numbers are the computation the ledger
\* booked, however often the post was retried (postPayrollRun); an applied
\* correction is in the journal, and so are the wages of the replacement run it
\* called for (decidePayrollCorrection).
WhatIsPaidIsBooked ==
    /\ \A r \in CreatedRuns \ stale :
          run[r].numbered =>
              \E e \in EntriesOf(RunKey(r)) : e.version = run[r].version
    /\ \A c \in Requested :
          correction[c].status = "APPLIED" =>
              /\ Booked(CorrKey(c))
              /\ correction[c].kind = "DELTA" =>
                   Booked(RunKey(correction[c].replacement))

\* Two posts of a run, two approvals of a correction, and retries after a crash
\* book the amount once; and a posted run has an entry that never reached the
\* ledger only by the work of a request that died between inserting the entry
\* and posting it, or is still at it (createJournalEntry).
BookedOnce ==
    /\ \A key \in Keys : Cardinality(EntriesOf(key)) <= 1
    /\ \A r \in CreatedRuns : \A e \in EntriesOf(RunKey(r)) :
          run[r].status \in {"POSTED", "LOCKED"} /\ ~e.posted =>
              died \/ \E q \in Requests : At(q, "ledger") /\ Key(q) = e.key

\* What was voided or rejected is in the journal only through a hole: a voided
\* run, if a post was under way, died half-way, or the void itself acted on an
\* old read; a rejected correction, if the decision raced another, a request
\* died, or its approval was refused its replacement run after the amount had
\* been booked.
UndoneBooksOnlyThroughHoles ==
    /\ \A r \in CreatedRuns \ stale :
          run[r].status = "VOIDED" /\ Booked(RunKey(r)) =>
              died \/ Working(RunKey(r))
    /\ \A c \in Requested \ (staleCorr \cup blocked) :
          correction[c].status = "REJECTED" /\ Booked(CorrKey(c)) =>
              died \/ Working(CorrKey(c))

\* Two live runs of one type in the period need two requests that overlapped.
TwinsNeedARace ==
    \A r, s \in CreatedRuns \ stale :
        /\ run[r].type = run[s].type
        /\ run[r].status # "VOIDED" /\ run[s].status # "VOIDED"
        => r = s

=============================================================================
