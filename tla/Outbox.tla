------------------------------- MODULE Outbox -------------------------------
(***************************************************************************)
(* The transactional outbox and its two delivery loops:                     *)
(*   lib/outbox.ts        pumpOutbox, every kind of event                   *)
(*   lib/etims-queue.ts   processEtimsRetryBatch, ETIMS_INVOICE events only *)
(*                                                                         *)
(* Several loops run at once: each checkout pumps after its commit, and     *)
(* the hourly dispatcher starts a pump and an eTIMS batch in parallel.      *)
(* A loop reads the due events once and then claims and delivers them one   *)
(* after the other, each with the attempts it read at the start.            *)
(***************************************************************************)
EXTENDS Naturals, TLAPS

CONSTANTS
    Events,         \* the outbox events that checkouts may enqueue
    Invoices,       \* those of kind ETIMS_INVOICE
    Pumps,          \* concurrent calls of pumpOutbox
    Batches,        \* concurrent calls of processEtimsRetryBatch
    MaxAttempts,    \* event.maxAttempts
    MaxCrashes,     \* bound: loops that die
    MaxLostWrites,  \* bound: updates to COMPLETED that throw
    None            \* no event

ASSUME OutboxAssumption ==
    /\ Invoices \subseteq Events
    /\ Pumps \cap Batches = {}
    /\ MaxAttempts \in Nat \ {0}
    /\ MaxCrashes \in Nat
    /\ MaxLostWrites \in Nat
    /\ None \notin Events

Workers == Pumps \cup Batches

VARIABLES
    status,     \* outboxEvent.status, "NONE" before the insert
    attempts,   \* outboxEvent.attempts
    due,        \* events whose availableAt has come
    pc,         \* what each loop does next
    todo,       \* the events a loop read and has not looked at yet
    seen,       \* the attempts it read with them
    cur,        \* the event a loop has claimed
    runs,       \* history: how often an event's handler was run
    delivered,  \* history: how often it succeeded
    stale,      \* history: events claimed on a row that had changed
    lostWrites, \* history: events whose COMPLETED could not be written
    crashes     \* loops that died so far

row     == <<status, attempts, due>>
loop    == <<pc, todo, seen, cur>>
history == <<runs, delivered, stale, lostWrites, crashes>>
vars    == <<row, loop, history>>

-----------------------------------------------------------------------------
Kinds(w) == IF w \in Pumps THEN Events ELSE Invoices

\* Mutant: the eTIMS loop takes what the pump takes, its own FAILED stay behind.
OpenPendingOnly(w) == {"PENDING"}

\* What a loop reads and claims: the eTIMS batch also takes FAILED, the
\* status it leaves behind itself and the pump ignores.
Open(w) == IF w \in Pumps THEN {"PENDING"} ELSE {"PENDING", "FAILED"}

\* The status a loop gives an event that has attempts left.
Retry(w) == IF w \in Pumps THEN "PENDING" ELSE "FAILED"

(* Mutated forms of the definitions below, one plausible bug each; the      *)
(* specification uses none of them.                                         *)

\* the claim is a plain update by id: whatever was read is taken
ClaimsAnything(w, e) == TRUE
\* the catch block counts an attempt twice
CountsTwice(w) == seen[w][cur[w]] + 2
\* a delivered event goes back to PENDING
ReleasesDelivered(w) == "PENDING"
\* one attempt too many is left
AllowsOneMore(n) == n > MaxAttempts

-----------------------------------------------------------------------------
(* The claim is one guarded updateMany; no other condition is looked at.    *)
Claims(w, e) == status[e] \in Open(w)
Attempt(w) == seen[w][cur[w]] + 1
Exhausted(n) == n >= MaxAttempts
DeliveredStatus(w) == "COMPLETED"

Statuses == {"NONE", "PENDING", "PROCESSING", "FAILED", "COMPLETED", "DEAD"}
Pcs == {"idle", "loop", "deliver", "complete", "fail"}

TypeOK ==
    /\ status \in [Events -> Statuses]
    /\ attempts \in [Events -> 0..MaxAttempts]
    /\ due \in SUBSET Events
    /\ pc \in [Workers -> Pcs]
    /\ todo \in [Workers -> SUBSET Events]
    /\ seen \in [Workers -> [Events -> 0..MaxAttempts]]
    /\ cur \in [Workers -> Events \cup {None}]
    /\ runs \in [Events -> Nat]
    /\ delivered \in [Events -> Nat]
    /\ stale \in SUBSET Events
    /\ lostWrites \in [Events -> Nat]
    /\ crashes \in 0..MaxCrashes

Nothing == [e \in Events |-> 0]

Init ==
    /\ status = [e \in Events |-> "NONE"]
    /\ attempts = Nothing
    /\ due = {}
    /\ pc = [w \in Workers |-> "idle"]
    /\ todo = [w \in Workers |-> {}]
    /\ seen = [w \in Workers |-> Nothing]
    /\ cur = [w \in Workers |-> None]
    /\ runs = Nothing /\ delivered = Nothing /\ lostWrites = Nothing
    /\ stale = {}
    /\ crashes = 0

-----------------------------------------------------------------------------
\* enqueueOutbox, or the create after the commit: at once available.
Enqueue(e) ==
    /\ status[e] = "NONE"
    /\ status' = [status EXCEPT ![e] = "PENDING"]
    /\ due' = due \cup {e}
    /\ UNCHANGED <<attempts, loop, history>>

\* The backoff of a failed event is over.
BecomeDue(e) ==
    /\ status[e] \in {"PENDING", "FAILED"} /\ e \notin due
    /\ due' = due \cup {e}
    /\ UNCHANGED <<status, attempts, loop, history>>

\* The findMany at the head of a loop.
Start(w) ==
    /\ pc[w] = "idle"
    /\ pc' = [pc EXCEPT ![w] = "loop"]
    /\ todo' = [todo EXCEPT ![w] =
                  {e \in Kinds(w) : e \in due /\ status[e] \in Open(w)}]
    /\ seen' = [seen EXCEPT ![w] =
                  [e \in Events |-> IF e \in todo'[w] THEN attempts[e] ELSE 0]]
    /\ UNCHANGED <<row, cur, history>>

Drop(w, e) ==
    /\ todo' = [todo EXCEPT ![w] = @ \ {e}]
    /\ UNCHANGED seen

Claim(w) ==
    /\ pc[w] = "loop"
    /\ \E e \in todo[w] :
          /\ Claims(w, e)
          /\ status' = [status EXCEPT ![e] = "PROCESSING"]
          /\ cur' = [cur EXCEPT ![w] = e]
          /\ runs' = [runs EXCEPT ![e] = @ + 1]
          /\ stale' = stale \cup {f \in {e} :
                        attempts[f] # seen[w][f] \/ f \notin due}
          /\ Drop(w, e)
    /\ pc' = [pc EXCEPT ![w] = "deliver"]
    /\ UNCHANGED <<attempts, due, delivered, lostWrites, crashes>>

\* count === 0: another loop won, go on.
SkipClaimed(w) ==
    /\ pc[w] = "loop"
    /\ \E e \in todo[w] : ~Claims(w, e) /\ Drop(w, e)
    /\ UNCHANGED <<row, pc, cur, history>>

Finish(w) ==
    /\ pc[w] = "loop" /\ todo[w] = {}
    /\ pc' = [pc EXCEPT ![w] = "idle"]
    /\ seen' = [seen EXCEPT ![w] = Nothing]
    /\ UNCHANGED <<row, todo, cur, history>>

\* The handler of the event's kind returns, or throws / reports a failure.
HandlerSucceeds(w) ==
    /\ pc[w] = "deliver"
    /\ pc' = [pc EXCEPT ![w] = "complete"]
    /\ delivered' = [delivered EXCEPT ![cur[w]] = @ + 1]
    /\ UNCHANGED <<row, todo, seen, cur, runs, stale, lostWrites, crashes>>

HandlerFails(w) ==
    /\ pc[w] = "deliver"
    /\ pc' = [pc EXCEPT ![w] = "fail"]
    /\ UNCHANGED <<row, todo, seen, cur, history>>

Release(w) ==
    /\ cur' = [cur EXCEPT ![w] = None]
    /\ pc' = [pc EXCEPT ![w] = "loop"]
    /\ UNCHANGED <<todo, seen>>

RecordDelivered(w) ==
    /\ pc[w] = "complete"
    /\ status' = [status EXCEPT ![cur[w]] = DeliveredStatus(w)]
    /\ Release(w)
    /\ UNCHANGED <<attempts, due, history>>

\* The update throws inside the pump's try: a delivered event counts as failed.
LoseDelivered(w) ==
    /\ w \in Pumps
    /\ pc[w] = "complete"
    /\ lostWrites[cur[w]] < MaxLostWrites
    /\ lostWrites' = [lostWrites EXCEPT ![cur[w]] = @ + 1]
    /\ pc' = [pc EXCEPT ![w] = "fail"]
    /\ UNCHANGED <<row, todo, seen, cur, runs, delivered, stale, crashes>>

\* The attempts are written from what the loop read at its start.
RecordFailure(w) ==
    /\ pc[w] = "fail"
    /\ attempts' = [attempts EXCEPT ![cur[w]] = Attempt(w)]
    /\ status' = [status EXCEPT ![cur[w]] =
                    IF Exhausted(Attempt(w)) THEN "DEAD" ELSE Retry(w)]
    /\ due' = due \ {cur[w]}
    /\ Release(w)
    /\ UNCHANGED history

\* The process dies, the lambda freezes, or a database call outside the try
\* throws: the loop ends and what it had claimed stays PROCESSING.
Crash(w) ==
    /\ pc[w] # "idle"
    /\ crashes < MaxCrashes
    /\ crashes' = crashes + 1
    /\ pc' = [pc EXCEPT ![w] = "idle"]
    /\ cur' = [cur EXCEPT ![w] = None]
    /\ todo' = [todo EXCEPT ![w] = {}]
    /\ seen' = [seen EXCEPT ![w] = Nothing]
    /\ UNCHANGED <<row, runs, delivered, stale, lostWrites>>

Step(w) ==
    \/ Claim(w) \/ SkipClaimed(w) \/ Finish(w)
    \/ HandlerSucceeds(w) \/ HandlerFails(w)
    \/ RecordDelivered(w) \/ LoseDelivered(w) \/ RecordFailure(w)

Next ==
    \/ \E e \in Events : Enqueue(e) \/ BecomeDue(e)
    \/ \E w \in Workers : Start(w) \/ Step(w) \/ Crash(w)

Spec == Init /\ [][Next]_vars

\* Loops are started for ever (every checkout, every tick), run on, and time
\* passes; nothing else is assumed, crashes included.
Fairness ==
    /\ \A w \in Workers : WF_vars(Start(w)) /\ WF_vars(Step(w))
    /\ \A e \in Events : WF_vars(BecomeDue(e))

FairSpec == Spec /\ Fairness

-----------------------------------------------------------------------------
(* Safety.                                                                  *)

Held(e) == \E w \in Workers : cur[w] = e

\* Two loops never deliver the same event at the same time, a claimed event
\* is PROCESSING until its loop lets go of it, and only a crash leaves one
\* PROCESSING that nobody holds.
OneDeliverer ==
    /\ \A w, v \in Workers : cur[w] = cur[v] /\ cur[w] # None => w = v
    /\ \A e \in Events : Held(e) => status[e] = "PROCESSING"
    /\ crashes = 0 => \A e \in Events : status[e] = "PROCESSING" => Held(e)

\* attempts counts the handler runs that failed: an event that was never
\* claimed on an outdated read is run at most maxAttempts times.
AttemptsCountRuns ==
    \A e \in Events \ stale :
        runs[e] = attempts[e]
                    + (IF status[e] \in {"PROCESSING", "COMPLETED"} THEN 1 ELSE 0)

\* DEAD exactly when the attempts are used up, whichever loop gave up and
\* however old the attempts it had read.
DeadMeansExhausted ==
    \A e \in Events :
        status[e] # "PROCESSING" => (status[e] = "DEAD" <=> attempts[e] >= MaxAttempts)

\* What an event's attempts say is what happened to it.
AttemptsAreTrue == AttemptsCountRuns /\ DeadMeansExhausted

\* The effect of an event happens twice only when the first success could not
\* be written down.
DeliveredOnce == \A e \in Events : delivered[e] <= 1 + lostWrites[e]

\* A delivered or dead event is never touched again by any loop, though the final
\* updates go by id alone. Of a dead one, the worker's header and the comment on
\* processEtimsRetryBatch (etims/worker/route.ts:4-6, etims-queue.ts:223-226) say
\* that staff can have it issued again by running a batch; but a batch reads and
\* claims PENDING and FAILED only, so that a dead event stays as it is.
TerminalIsFinal ==
    [][\A e \in Events : status[e] \in {"COMPLETED", "DEAD"}
                           => status'[e] = status[e] /\ runs'[e] = runs[e]]_vars

\* Every enqueued event is delivered or declared dead, unless the loop that
\* had it crashed.
EventsSettle ==
    \A e \in Events :
        status[e] # "NONE" ~> \/ status[e] \in {"COMPLETED", "DEAD"}
                              \/ status[e] = "PROCESSING" /\ ~Held(e)

-----------------------------------------------------------------------------
(* The abstract queue the outbox implements.                                *)

PhaseOf(s) ==
    CASE s = "NONE"                   -> "absent"
      [] s \in {"PENDING", "FAILED"} -> "open"
      [] s = "PROCESSING"             -> "leased"
      [] s = "COMPLETED"              -> "done"
      [] s = "DEAD"                   -> "given up"

Queue == INSTANCE WorkQueue WITH
            Items   <- Events,
            phase   <- [e \in Events |-> PhaseOf(status[e])],
            leases  <- runs,
            effects <- delivered

\* The outbox hands every event to one loop at a time, carries out its effect
\* at most once per time, completes nothing that was not delivered, never takes
\* up a COMPLETED event again, and hands every open event out in the end. Nor
\* does it take up a DEAD one, although staff are told that the eTIMS worker
\* does (see TerminalIsFinal): what was given up here stays given up.
ImplementsWorkQueue == Queue!WQFairSpec

-----------------------------------------------------------------------------
(***************************************************************************)
(* Proofs, for every number of events, loops, attempts, crashes and lost   *)
(* writes. The argument: a claim excludes every other loop until the event *)
(* is let go of, so the unconditional updates by id only ever hit an event *)
(* the loop holds; and as long as the attempts a loop has read are those   *)
(* of the row, what it writes back is one more than what was there.        *)
(***************************************************************************)

\* A loop holds an event exactly while it delivers it or records the outcome,
\* and holds it alone; only a crash leaves a PROCESSING event behind.
Holding ==
    /\ \A w \in Workers :
          cur[w] # None <=> pc[w] \in {"deliver", "complete", "fail"}
    /\ OneDeliverer

\* Attempts and handler runs; what a loop has read was never the last attempt.
Counting ==
    /\ \A w \in Workers, e \in Events : seen[w][e] < MaxAttempts
    /\ \A e \in Events : status[e] = "DEAD" <=> attempts[e] >= MaxAttempts
    /\ \A w \in Workers :
          cur[w] \in Events \ stale => seen[w][cur[w]] = attempts[cur[w]]
    /\ AttemptsCountRuns

\* An event that can still be claimed owes every success to a lost write.
Delivering ==
    /\ \A e \in Events :
          status[e] \in {"NONE", "PENDING", "FAILED", "DEAD"}
              => delivered[e] <= lostWrites[e]
    /\ \A w \in Workers :
          pc[w] \in {"deliver", "fail"}
              => delivered[cur[w]] <= lostWrites[cur[w]]
    /\ DeliveredOnce

IInv == TypeOK /\ Holding /\ Counting /\ Delivering

-----------------------------------------------------------------------------
\* The initial state has all parts of the invariant.
LEMMA InitInv == Init => IInv
<1>. SUFFICES ASSUME Init PROVE IInv OBVIOUS
<1>. USE OutboxAssumption DEF Init, Nothing
<1>1. TypeOK BY DEF TypeOK, Statuses, Pcs
<1>2. Holding BY DEF Holding, OneDeliverer, Held
<1>3. Counting BY DEF Counting, AttemptsCountRuns
<1>4. Delivering BY DEF Delivering, DeliveredOnce
<1>. QED BY <1>1, <1>2, <1>3, <1>4 DEF IInv

\* No step breaks a type; that attempts stay within maxAttempts needs what a
\* loop has read to be below it.
LEMMA NextType == ASSUME IInv, [Next]_vars PROVE TypeOK'
<1>. USE OutboxAssumption DEF IInv, TypeOK, row, loop, history
<1>. DEFINE Bound == \A w \in Workers, e \in Events : seen[w][e] < MaxAttempts
<1>0. Bound BY DEF Counting
<1>1. ASSUME NEW e \in Events, Enqueue(e) PROVE TypeOK'
  BY <1>1 DEF Enqueue, Statuses
<1>2. ASSUME NEW e \in Events, BecomeDue(e) PROVE TypeOK'
  BY <1>2 DEF BecomeDue
<1>3. ASSUME NEW w \in Workers, Start(w) PROVE TypeOK'
  BY <1>3 DEF Start, Kinds, Pcs
<1>4. ASSUME NEW w \in Workers, Claim(w) PROVE TypeOK'
  <2>1. PICK e \in todo[w] :
           /\ status' = [status EXCEPT ![e] = "PROCESSING"]
           /\ cur' = [cur EXCEPT ![w] = e]
           /\ runs' = [runs EXCEPT ![e] = @ + 1]
           /\ stale' = stale \cup {f \in {e} :
                         attempts[f] # seen[w][f] \/ f \notin due}
           /\ Drop(w, e)
    BY <1>4 DEF Claim
  <2>2. e \in Events OBVIOUS
  <2>3. runs' \in [Events -> Nat] BY <2>1, <2>2
  <2>4. stale' \in SUBSET Events BY <2>1, <2>2
  <2>5. todo' \in [Workers -> SUBSET Events] BY <2>1 DEF Drop
  <2>. QED BY <1>4, <2>1, <2>2, <2>3, <2>4, <2>5 DEF Claim, Drop, Statuses, Pcs
<1>5. ASSUME NEW w \in Workers, SkipClaimed(w) PROVE TypeOK'
  BY <1>5 DEF SkipClaimed, Drop
<1>6. ASSUME NEW w \in Workers, Finish(w) PROVE TypeOK'
  BY <1>6 DEF Finish, Nothing, Pcs
<1>7. ASSUME NEW w \in Workers, HandlerSucceeds(w) PROVE TypeOK'
  <2>1. cur[w] \in Events BY <1>7 DEF HandlerSucceeds, Holding
  <2>2. delivered' \in [Events -> Nat] BY <1>7, <2>1 DEF HandlerSucceeds
  <2>3. pc' \in [Workers -> Pcs] BY <1>7 DEF HandlerSucceeds, Pcs
  <2>. QED BY <1>7, <2>2, <2>3 DEF HandlerSucceeds
<1>8. ASSUME NEW w \in Workers, HandlerFails(w) PROVE TypeOK'
  BY <1>8 DEF HandlerFails, Pcs
<1>9. ASSUME NEW w \in Workers, RecordDelivered(w) PROVE TypeOK'
  BY <1>9 DEF RecordDelivered, DeliveredStatus, Release, Statuses, Pcs
<1>10. ASSUME NEW w \in Workers, LoseDelivered(w) PROVE TypeOK'
  <2>1. cur[w] \in Events BY <1>10 DEF LoseDelivered, Holding
  <2>2. lostWrites' \in [Events -> Nat] BY <1>10, <2>1 DEF LoseDelivered
  <2>3. pc' \in [Workers -> Pcs] BY <1>10 DEF LoseDelivered, Pcs
  <2>. QED BY <1>10, <2>2, <2>3 DEF LoseDelivered
<1>11. ASSUME NEW w \in Workers, RecordFailure(w) PROVE TypeOK'
  <2>1. cur[w] \in Events BY <1>11 DEF RecordFailure, Holding
  <2>2. Attempt(w) \in 0..MaxAttempts BY <1>0, <2>1 DEF Attempt
  <2>. QED BY <1>11, <2>1, <2>2 DEF RecordFailure, Retry, Release, Statuses, Pcs
<1>12. ASSUME NEW w \in Workers, Crash(w) PROVE TypeOK'
  BY <1>12 DEF Crash, Nothing, Pcs
<1>13. CASE UNCHANGED vars BY <1>13 DEF vars
<1>. QED BY <1>1, <1>2, <1>3, <1>4, <1>5, <1>6, <1>7, <1>8, <1>9, <1>10, <1>11,
            <1>12, <1>13 DEF Next, Step

-----------------------------------------------------------------------------
\* A loop that is let go of an event was its only holder.
LEMMA NextHolding == ASSUME IInv, [Next]_vars PROVE Holding'
<1>. USE OutboxAssumption DEF IInv, TypeOK, row, loop, history, Holding,
         OneDeliverer, Held
<1>1. ASSUME NEW e \in Events, Enqueue(e) PROVE Holding'
  BY <1>1 DEF Enqueue
<1>2. ASSUME NEW e \in Events, BecomeDue(e) PROVE Holding'
  BY <1>2 DEF BecomeDue
<1>3. ASSUME NEW w \in Workers, Start(w) PROVE Holding'
  BY <1>3 DEF Start
<1>4. ASSUME NEW w \in Workers, Claim(w) PROVE Holding'
  <2>1. PICK e \in Events :
           /\ status[e] \in {"PENDING", "FAILED"}
           /\ status' = [status EXCEPT ![e] = "PROCESSING"]
           /\ cur' = [cur EXCEPT ![w] = e]
           /\ pc' = [pc EXCEPT ![w] = "deliver"]
           /\ UNCHANGED crashes
    BY <1>4 DEF Claim, Claims, Open
  <2>2. \A v \in Workers : cur[v] # e BY <2>1
  <2>3. cur[w] = None BY <1>4 DEF Claim
  <2>. QED BY <2>1, <2>2, <2>3
<1>5. ASSUME NEW w \in Workers, SkipClaimed(w) PROVE Holding'
  BY <1>5 DEF SkipClaimed, Drop
<1>6. ASSUME NEW w \in Workers, Finish(w) PROVE Holding'
  BY <1>6 DEF Finish
<1>7. ASSUME NEW w \in Workers, HandlerSucceeds(w) PROVE Holding'
  BY <1>7 DEF HandlerSucceeds
<1>8. ASSUME NEW w \in Workers, HandlerFails(w) PROVE Holding'
  BY <1>8 DEF HandlerFails
<1>9. ASSUME NEW w \in Workers, RecordDelivered(w) PROVE Holding'
  BY <1>9 DEF RecordDelivered, DeliveredStatus, Release
<1>10. ASSUME NEW w \in Workers, LoseDelivered(w) PROVE Holding'
  BY <1>10 DEF LoseDelivered
<1>11. ASSUME NEW w \in Workers, RecordFailure(w) PROVE Holding'
  BY <1>11 DEF RecordFailure, Retry, Release
<1>12. ASSUME NEW w \in Workers, Crash(w) PROVE Holding'
  BY <1>12 DEF Crash
<1>13. CASE UNCHANGED vars BY <1>13 DEF vars
<1>. QED BY <1>1, <1>2, <1>3, <1>4, <1>5, <1>6, <1>7, <1>8, <1>9, <1>10, <1>11,
            <1>12, <1>13 DEF Next, Step

\* What is written back is what was read plus one, and unless the claim was
\* stale what was read is what the row says.
LEMMA NextCounting == ASSUME IInv, [Next]_vars PROVE Counting'
<1>. USE OutboxAssumption DEF IInv, TypeOK, row, loop, history, Counting,
         AttemptsCountRuns
<1>0. \A w \in Workers : cur[w] # None => status[cur[w]] = "PROCESSING"
  BY DEF Holding, OneDeliverer, Held
<1>1. ASSUME NEW e \in Events, Enqueue(e) PROVE Counting'
  BY <1>1 DEF Enqueue
<1>2. ASSUME NEW e \in Events, BecomeDue(e) PROVE Counting'
  BY <1>2 DEF BecomeDue
<1>3. ASSUME NEW w \in Workers, Start(w) PROVE Counting'
  <2>1. \A e \in todo'[w] : attempts[e] < MaxAttempts
    BY <1>3 DEF Start, Open, Kinds
  <2>2. cur[w] = None BY <1>3 DEF Start, Holding
  <2>. QED BY <1>3, <2>1, <2>2 DEF Start
<1>4. ASSUME NEW w \in Workers, Claim(w) PROVE Counting'
  <2>1. PICK e \in todo[w] :
           /\ status[e] \in Open(w)
           /\ status' = [status EXCEPT ![e] = "PROCESSING"]
           /\ cur' = [cur EXCEPT ![w] = e]
           /\ runs' = [runs EXCEPT ![e] = @ + 1]
           /\ stale' = stale \cup {f \in {e} :
                         attempts[f] # seen[w][f] \/ f \notin due}
           /\ UNCHANGED seen
    BY <1>4 DEF Claim, Claims, Drop
  <2>2. UNCHANGED attempts BY <1>4 DEF Claim
  <2>3. e \in Events /\ status[e] \in {"PENDING", "FAILED"} BY <2>1 DEF Open
  <2>4. \A v \in Workers \ {w} : cur[v] # e BY <1>0, <2>3
  <2>. QED BY <2>1, <2>2, <2>3, <2>4
<1>5. ASSUME NEW w \in Workers, SkipClaimed(w) PROVE Counting'
  BY <1>5 DEF SkipClaimed, Drop
<1>6. ASSUME NEW w \in Workers, Finish(w) PROVE Counting'
  <2>1. cur[w] = None /\ cur' = cur BY <1>6 DEF Finish, Holding
  <2>2. UNCHANGED <<status, attempts, runs, stale>> BY <1>6 DEF Finish
  <2>3. /\ \A v \in Workers \ {w} : seen'[v] = seen[v]
        /\ \A e \in Events : seen'[w][e] = 0
    BY <1>6 DEF Finish, Nothing
  <2>4. \A v \in Workers, e \in Events : seen'[v][e] < MaxAttempts BY <2>3
  <2>5. \A v \in Workers :
           cur[v] \in Events \ stale => seen'[v][cur[v]] = attempts[cur[v]]
    BY <2>1, <2>3
  <2>. QED BY ONLY <2>1, <2>2, <2>4, <2>5, IInv DEF IInv, Counting, AttemptsCountRuns
<1>7. ASSUME NEW w \in Workers, HandlerSucceeds(w) PROVE Counting'
  BY <1>7 DEF HandlerSucceeds
<1>8. ASSUME NEW w \in Workers, HandlerFails(w) PROVE Counting'
  BY <1>8 DEF HandlerFails
<1>9. ASSUME NEW w \in Workers, RecordDelivered(w) PROVE Counting'
  <2>1. cur[w] \in Events /\ status[cur[w]] = "PROCESSING"
    BY <1>9, <1>0 DEF RecordDelivered, Holding
  <2>. QED BY <1>9, <2>1 DEF RecordDelivered, DeliveredStatus, Release
<1>10. ASSUME NEW w \in Workers, LoseDelivered(w) PROVE Counting'
  BY <1>10 DEF LoseDelivered
<1>11. ASSUME NEW w \in Workers, RecordFailure(w) PROVE Counting'
  <2>1. cur[w] \in Events /\ status[cur[w]] = "PROCESSING"
    BY <1>11, <1>0 DEF RecordFailure, Holding
  <2>2. \A v \in Workers \ {w} : cur[v] # cur[w]
    BY <2>1 DEF Holding, OneDeliverer
  <2>3. Attempt(w) \in 1..MaxAttempts BY <2>1 DEF Attempt
  <2>4. cur[w] \notin stale => Attempt(w) = attempts[cur[w]] + 1
    BY <2>1 DEF Attempt
  <2>. QED BY <1>11, <2>1, <2>2, <2>3, <2>4
       DEF RecordFailure, Exhausted, Retry, Release
<1>12. ASSUME NEW w \in Workers, Crash(w) PROVE Counting'
  BY <1>12 DEF Crash, Nothing
<1>13. CASE UNCHANGED vars BY <1>13 DEF vars
<1>. QED BY <1>1, <1>2, <1>3, <1>4, <1>5, <1>6, <1>7, <1>8, <1>9, <1>10, <1>11,
            <1>12, <1>13 DEF Next, Step

\* A success is written down before the event can be claimed again, or its
\* write was lost.
LEMMA NextDelivering == ASSUME IInv, [Next]_vars PROVE Delivering'
<1>. USE OutboxAssumption DEF IInv, TypeOK, row, loop, history, Delivering,
         DeliveredOnce
<1>0. \A w \in Workers : cur[w] # None => status[cur[w]] = "PROCESSING"
  BY DEF Holding, OneDeliverer, Held
<1>1. ASSUME NEW e \in Events, Enqueue(e) PROVE Delivering'
  BY <1>1 DEF Enqueue
<1>2. ASSUME NEW e \in Events, BecomeDue(e) PROVE Delivering'
  BY <1>2 DEF BecomeDue
<1>3. ASSUME NEW w \in Workers, Start(w) PROVE Delivering'
  BY <1>3 DEF Start
<1>4. ASSUME NEW w \in Workers, Claim(w) PROVE Delivering'
  BY <1>4 DEF Claim, Claims, Open, Drop
<1>5. ASSUME NEW w \in Workers, SkipClaimed(w) PROVE Delivering'
  BY <1>5 DEF SkipClaimed, Drop
<1>6. ASSUME NEW w \in Workers, Finish(w) PROVE Delivering'
  BY <1>6 DEF Finish
<1>7. ASSUME NEW w \in Workers, HandlerSucceeds(w) PROVE Delivering'
  <2>1. cur[w] \in Events /\ status[cur[w]] = "PROCESSING"
    BY <1>7, <1>0 DEF HandlerSucceeds, Holding
  <2>2. \A v \in Workers \ {w} : cur[v] # cur[w]
    BY <2>1 DEF Holding, OneDeliverer
  <2>3. \A v \in Workers : pc[v] \in {"deliver", "fail"} => cur[v] \in Events
    BY DEF Holding
  <2>. QED BY <1>7, <2>1, <2>2, <2>3 DEF HandlerSucceeds
<1>8. ASSUME NEW w \in Workers, HandlerFails(w) PROVE Delivering'
  BY <1>8 DEF HandlerFails
<1>9. ASSUME NEW w \in Workers, RecordDelivered(w) PROVE Delivering'
  BY <1>9 DEF RecordDelivered, DeliveredStatus, Release, Holding
<1>10. ASSUME NEW w \in Workers, LoseDelivered(w) PROVE Delivering'
  <2>1. cur[w] \in Events /\ status[cur[w]] = "PROCESSING"
    BY <1>10, <1>0 DEF LoseDelivered, Holding
  <2>2. \A v \in Workers \ {w} : cur[v] # cur[w]
    BY <2>1 DEF Holding, OneDeliverer
  <2>3. \A v \in Workers : pc[v] \in {"deliver", "fail"} => cur[v] \in Events
    BY DEF Holding
  <2>. QED BY <1>10, <2>1, <2>2, <2>3 DEF LoseDelivered
<1>11. ASSUME NEW w \in Workers, RecordFailure(w) PROVE Delivering'
  <2>1. cur[w] \in Events BY <1>11 DEF RecordFailure, Holding
  <2>2. \A v \in Workers : pc[v] \in {"deliver", "fail"} => cur[v] \in Events
    BY DEF Holding
  <2>. QED BY <1>11, <2>1, <2>2 DEF RecordFailure, Retry, Release
<1>12. ASSUME NEW w \in Workers, Crash(w) PROVE Delivering'
  BY <1>12 DEF Crash
<1>13. CASE UNCHANGED vars BY <1>13 DEF vars
<1>. QED BY <1>1, <1>2, <1>3, <1>4, <1>5, <1>6, <1>7, <1>8, <1>9, <1>10, <1>11,
            <1>12, <1>13 DEF Next, Step

-----------------------------------------------------------------------------
\* All four parts together are preserved by every step.
THEOREM Inductive == Spec => []IInv
<1>1. ASSUME IInv, [Next]_vars PROVE IInv'
  BY <1>1, NextType, NextHolding, NextCounting, NextDelivering DEF IInv
<1>. QED BY InitInv, <1>1, PTL DEF Spec

\* The variables keep their types; attempts never pass maxAttempts.
THEOREM TypeCorrect == Spec => []TypeOK
<1>1. IInv => TypeOK BY DEF IInv
<1>. QED BY <1>1, Inductive, PTL

\* Two loops never deliver the same event at the same time, and only a crash
\* leaves an event PROCESSING that no loop holds.
THEOREM SingleDelivery == Spec => []OneDeliverer
<1>1. IInv => OneDeliverer BY DEF IInv, Holding
<1>. QED BY <1>1, Inductive, PTL

\* Without stale claims attempts is the number of failed runs.
THEOREM AttemptsAreRuns == Spec => []AttemptsCountRuns
<1>1. IInv => AttemptsCountRuns BY DEF IInv, Counting
<1>. QED BY <1>1, Inductive, PTL

\* An event is DEAD exactly when its attempts are used up.
THEOREM DeadIsExhausted == Spec => []DeadMeansExhausted
<1>1. IInv => DeadMeansExhausted BY DEF IInv, Counting, DeadMeansExhausted
<1>. QED BY <1>1, Inductive, PTL

\* What an event's attempts say is what happened to it.
THEOREM AttemptsHold == Spec => []AttemptsAreTrue
<1>1. AttemptsCountRuns /\ DeadMeansExhausted => AttemptsAreTrue BY DEF AttemptsAreTrue
<1>. QED BY <1>1, AttemptsAreRuns, DeadIsExhausted, PTL

\* An event has one effect, and one more for each COMPLETED that was lost.
THEOREM OneEffect == Spec => []DeliveredOnce
<1>1. IInv => DeliveredOnce BY DEF IInv, Delivering
<1>. QED BY <1>1, Inductive, PTL

\* A delivered or dead event is never claimed, delivered or updated again, the
\* batches that staff run to re-issue dead invoices included.
THEOREM FinalIsFinal == Spec => TerminalIsFinal
<1>. DEFINE Final == \A e \in Events :
              status[e] \in {"COMPLETED", "DEAD"}
                  => status'[e] = status[e] /\ runs'[e] = runs[e]
<1>1. ASSUME IInv, [Next]_vars PROVE Final
  <2>. USE <1>1 DEF IInv, TypeOK, row, loop, history
  <2>0. \A w \in Workers :
           pc[w] \in {"deliver", "complete", "fail"}
               => cur[w] \in Events /\ status[cur[w]] = "PROCESSING"
    BY DEF Holding, OneDeliverer, Held
  <2>1. ASSUME NEW e \in Events, Enqueue(e) \/ BecomeDue(e) PROVE Final
    BY <2>1 DEF Enqueue, BecomeDue
  <2>2. ASSUME NEW w \in Workers, Start(w) \/ Crash(w) PROVE Final
    BY <2>2 DEF Start, Crash
  <2>3. ASSUME NEW w \in Workers, Claim(w) PROVE Final
    BY <2>3 DEF Claim, Claims, Open
  <2>4. ASSUME NEW w \in Workers, RecordDelivered(w) PROVE Final
    BY <2>0, <2>4 DEF RecordDelivered
  <2>5. ASSUME NEW w \in Workers, RecordFailure(w) PROVE Final
    BY <2>0, <2>5 DEF RecordFailure
  <2>6. ASSUME NEW w \in Workers,
               \/ SkipClaimed(w) \/ Finish(w) \/ HandlerSucceeds(w)
               \/ HandlerFails(w) \/ LoseDelivered(w)
        PROVE  Final
    BY <2>6 DEF SkipClaimed, Finish, HandlerSucceeds, HandlerFails, LoseDelivered
  <2>7. CASE UNCHANGED vars BY <2>7 DEF vars
  <2>. QED BY <2>1, <2>2, <2>3, <2>4, <2>5, <2>6, <2>7 DEF Next, Step
<1>2. IInv /\ [Next]_vars => [Final]_vars BY <1>1
<1>. QED BY <1>2, Inductive, PTL DEF Spec, TerminalIsFinal

-----------------------------------------------------------------------------
(* The refinement.                                                          *)

\* A handler that is running still owes its success, one that has finished
\* has one to show.
Earning ==
    /\ \A e \in Events : delivered[e] <= runs[e]
    /\ \A w \in Workers :
          /\ pc[w] = "deliver" => delivered[cur[w]] < runs[cur[w]]
          /\ pc[w] = "complete" => delivered[cur[w]] > 0

\* Each run of a handler succeeds at most once.
LEMMA NextEarning == ASSUME IInv, Earning, [Next]_vars PROVE Earning'
<1>. USE DEF IInv, TypeOK, row, loop, history, Earning
<1>0. /\ \A w \in Workers :
            pc[w] \in {"deliver", "complete", "fail"}
                => cur[w] \in Events /\ status[cur[w]] = "PROCESSING"
      /\ \A w, v \in Workers : cur[w] = cur[v] /\ cur[w] # None => w = v
  BY OutboxAssumption DEF Holding, OneDeliverer, Held
<1>1. ASSUME NEW e \in Events, Enqueue(e) \/ BecomeDue(e) PROVE Earning'
  BY <1>1 DEF Enqueue, BecomeDue
<1>2. ASSUME NEW w \in Workers, Start(w) \/ SkipClaimed(w) \/ Finish(w) PROVE Earning'
  BY <1>2 DEF Start, SkipClaimed, Drop, Finish
<1>3. ASSUME NEW w \in Workers, Claim(w) PROVE Earning'
  <2>1. PICK e \in todo[w] :
           /\ status[e] \in Open(w)
           /\ cur' = [cur EXCEPT ![w] = e]
           /\ runs' = [runs EXCEPT ![e] = @ + 1]
    BY <1>3 DEF Claim, Claims
  <2>2. e \in Events /\ status[e] # "PROCESSING" BY <2>1 DEF Open
  <2>3. pc' = [pc EXCEPT ![w] = "deliver"] /\ UNCHANGED delivered
    BY <1>3 DEF Claim
  <2>4. \A v \in Workers \ {w} : pc[v] \in {"deliver", "complete"} => cur[v] # e
    BY <1>0, <2>2
  <2>. QED BY <1>0, <2>1, <2>2, <2>3, <2>4
<1>4. ASSUME NEW w \in Workers, HandlerSucceeds(w) PROVE Earning'
  <2>1. cur[w] \in Events BY <1>0, <1>4 DEF HandlerSucceeds
  <2>2. \A v \in Workers \ {w} : pc[v] \in {"deliver", "complete"} => cur[v] # cur[w]
    BY <1>0, <1>4, <2>1, OutboxAssumption DEF HandlerSucceeds
  <2>. QED BY <1>0, <1>4, <2>1, <2>2 DEF HandlerSucceeds
<1>5. ASSUME NEW w \in Workers, HandlerFails(w) \/ LoseDelivered(w) PROVE Earning'
  BY <1>5 DEF HandlerFails, LoseDelivered
<1>6. ASSUME NEW w \in Workers, RecordDelivered(w) \/ RecordFailure(w) PROVE Earning'
  BY <1>6 DEF RecordDelivered, RecordFailure, Release
<1>7. ASSUME NEW w \in Workers, Crash(w) PROVE Earning'
  BY <1>7 DEF Crash
<1>8. CASE UNCHANGED vars BY <1>8 DEF vars
<1>. QED BY <1>1, <1>2, <1>3, <1>4, <1>5, <1>6, <1>7, <1>8 DEF Next, Step

\* One status of one event changes: the phases change with it, at that event.
LEMMA OnePhase ==
    ASSUME status \in [Events -> Statuses], NEW e \in Events, NEW s \in Statuses,
           status' = [status EXCEPT ![e] = s]
    PROVE  [f \in Events |-> PhaseOf(status[f])]'
             = [[f \in Events |-> PhaseOf(status[f])] EXCEPT ![e] = PhaseOf(s)]
<1>1. \A f \in Events : status'[f] = IF f = e THEN s ELSE status[f] OBVIOUS
<1>. QED BY <1>1

\* A step of the outbox is a step of the abstract queue or none.
LEMMA StepRefines ==
    ASSUME IInv, Earning, [Next]_vars
    PROVE  [Queue!WQNext]_(Queue!wqvars)
<1>. USE DEF IInv, TypeOK, row, loop, history, Queue!WQNext, Queue!wqvars, Queue!Moves
<1>. DEFINE Goal == Queue!WQNext \/ UNCHANGED Queue!wqvars
<1>. SUFFICES Goal OBVIOUS
<1>0. /\ \A w \in Workers :
            pc[w] \in {"deliver", "complete", "fail"}
                => cur[w] \in Events /\ status[cur[w]] = "PROCESSING"
  BY OutboxAssumption DEF Holding, OneDeliverer, Held
<1>1. ASSUME NEW e \in Events, Enqueue(e) PROVE Queue!Add(e)
  <2>1. status[e] = "NONE" /\ status' = [status EXCEPT ![e] = "PENDING"]
        /\ UNCHANGED <<runs, delivered>>
    BY <1>1 DEF Enqueue
  <2>. QED BY <2>1, OnePhase DEF Queue!Add, PhaseOf, Statuses
<1>2. ASSUME NEW w \in Workers, Claim(w) PROVE \E e \in Events : Queue!Lease(e)
  <2>1. PICK e \in todo[w] :
           /\ status[e] \in Open(w)
           /\ status' = [status EXCEPT ![e] = "PROCESSING"]
           /\ runs' = [runs EXCEPT ![e] = @ + 1]
    BY <1>2 DEF Claim, Claims
  <2>2. e \in Events /\ status[e] \in {"PENDING", "FAILED"} BY <2>1 DEF Open
  <2>3. UNCHANGED delivered BY <1>2 DEF Claim
  <2>4. Queue!Lease(e)
    BY <2>1, <2>2, <2>3, OnePhase DEF Queue!Lease, PhaseOf, Statuses
  <2>. QED BY <2>2, <2>4
<1>3. ASSUME NEW w \in Workers, HandlerSucceeds(w) PROVE Queue!Effect(cur[w])
  <2>1. cur[w] \in Events /\ status[cur[w]] = "PROCESSING"
    BY <1>0, <1>3 DEF HandlerSucceeds
  <2>2. delivered[cur[w]] < runs[cur[w]] BY <1>3 DEF HandlerSucceeds, Earning
  <2>. QED BY <1>3, <2>1, <2>2 DEF HandlerSucceeds, Queue!Effect, PhaseOf
<1>4. ASSUME NEW w \in Workers, RecordDelivered(w) PROVE Queue!Complete(cur[w])
  <2>1. cur[w] \in Events /\ status[cur[w]] = "PROCESSING" /\ delivered[cur[w]] > 0
    BY <1>0, <1>4 DEF RecordDelivered, Earning
  <2>2. status' = [status EXCEPT ![cur[w]] = "COMPLETED"] /\ UNCHANGED <<runs, delivered>>
    BY <1>4 DEF RecordDelivered, DeliveredStatus
  <2>. QED BY <2>1, <2>2, OnePhase DEF Queue!Complete, PhaseOf, Statuses
<1>5. ASSUME NEW w \in Workers, RecordFailure(w)
      PROVE  Queue!PutBack(cur[w]) \/ Queue!GiveUp(cur[w])
  <2>1. cur[w] \in Events /\ status[cur[w]] = "PROCESSING"
    BY <1>0, <1>5 DEF RecordFailure
  <2>2. UNCHANGED <<runs, delivered>> BY <1>5 DEF RecordFailure
  <2>3. CASE status' = [status EXCEPT ![cur[w]] = "DEAD"]
    BY <2>1, <2>2, <2>3, OnePhase DEF Queue!GiveUp, PhaseOf, Statuses
  <2>4. CASE status' = [status EXCEPT ![cur[w]] = Retry(w)]
    <3>1. Retry(w) \in Statuses /\ PhaseOf(Retry(w)) = "open"
      BY DEF Retry, PhaseOf, Statuses
    <3>2. [e \in Events |-> PhaseOf(status[e])]'
            = [[e \in Events |-> PhaseOf(status[e])] EXCEPT ![cur[w]] = "open"]
      <4>1. status \in [Events -> Statuses] OBVIOUS
      <4>. QED BY ONLY <4>1, <2>1, <2>4, <3>1, OnePhase
    <3>3. PhaseOf(status[cur[w]]) = "leased" BY <2>1 DEF PhaseOf
    <3>. QED BY ONLY <2>1, <2>2, <3>2, <3>3 DEF Queue!PutBack, Queue!Moves
  <2>. QED BY <1>5, <2>3, <2>4 DEF RecordFailure
<1>6. ASSUME NEW w \in Workers,
             \/ Start(w) \/ Crash(w) \/ SkipClaimed(w) \/ Finish(w)
             \/ HandlerFails(w) \/ LoseDelivered(w)
      PROVE  UNCHANGED <<status, runs, delivered>>
  BY <1>6 DEF Start, Crash, SkipClaimed, Finish, HandlerFails, LoseDelivered
<1>7. ASSUME NEW e \in Events, BecomeDue(e) PROVE UNCHANGED <<status, runs, delivered>>
  BY <1>7 DEF BecomeDue
<1>8. CASE UNCHANGED vars BY <1>8 DEF vars
<1>9. ASSUME UNCHANGED <<status, runs, delivered>> PROVE UNCHANGED Queue!wqvars
  BY <1>9
<1>10. \A w \in Workers :
          HandlerSucceeds(w) \/ RecordDelivered(w) \/ RecordFailure(w) => cur[w] \in Events
  BY <1>0 DEF HandlerSucceeds, RecordDelivered, RecordFailure
<1>. QED BY <1>1, <1>2, <1>3, <1>4, <1>5, <1>6, <1>7, <1>8, <1>9, <1>10 DEF Next, Step

\* The outbox implements the work queue: one holder at a time, one effect per
\* lease, nothing completed without an effect, nothing settled ever reopened.
THEOREM Refinement == Spec => Queue!WQSpec
<1>1. Init => Queue!WQInit
  BY DEF Init, Nothing, PhaseOf, Queue!WQInit
<1>2. Init => Earning BY OutboxAssumption DEF Init, Nothing, Earning
<1>3. IInv /\ Earning /\ [Next]_vars => Earning' BY NextEarning
<1>4. IInv /\ Earning /\ [Next]_vars => [Queue!WQNext]_(Queue!wqvars) BY StepRefines
<1>. QED BY <1>1, <1>2, <1>3, <1>4, Inductive, PTL DEF Spec, Queue!WQSpec

=============================================================================
