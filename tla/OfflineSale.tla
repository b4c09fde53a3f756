---------------------------- MODULE OfflineSale ----------------------------
(***************************************************************************)
(* A till that keeps selling without a connection:                          *)
(*   app/(shell)/tabs/pos-tab.tsx   the checkout and its fallback           *)
(*   lib/offline-sync.ts            the queue in the browser's IndexedDB    *)
(*   app/api/transactions/route.ts  the checkout on the server, replays     *)
(*                                                                         *)
(* Several replays of the queue may run at once: one per `online` event,    *)
(* one from the button of the POS tab, one from the dialog in the top bar.  *)
(* Each works on its own copy of the queue. A POST whose caller has given   *)
(* up goes on at the server. Every sale is of one unit of one product;      *)
(* sales are numbered in the order they are rung up, which is the order of  *)
(* queuedAt.                                                                *)
(***************************************************************************)
EXTENDS Naturals, FiniteSets, FiniteSetsExt

CONSTANTS
    Till,        \* the checkout of the POS tab
    Syncs,       \* calls of syncQueue that may run at once
    NoOne,
    MaxSales,    \* bound: sales
    LegacySales, \* the first so many were queued, without a key, by an
                 \*   older version of the app
    Posts,       \* bound: POSTs at the server, or on their way back, at once
    MaxKeys,     \* bound: keys generated for one sale
    Stock,       \* units in stock at first
    MaxTrouble   \* bound: fetches that fail, tabs closed, requests that die

Sales == 1..MaxSales
Legacy == 1..LegacySales
NoSale == 0
NoKey == 0

ASSUME SaleAssumption ==
    /\ MaxSales \in Nat /\ LegacySales \in 0..MaxSales
    /\ MaxKeys \in Nat /\ Stock \in Nat /\ MaxTrouble \in Nat
    /\ Till \notin Syncs /\ NoOne \notin Syncs \cup {Till}

VARIABLES
    ringing,   \* the sale the cashier rings up next, or is ringing up
    queue,     \* sales with a row in the IndexedDB store
    keyOf,     \* the idempotencyKey in such a row
    sync,      \* what each call of syncQueue is doing
    post,      \* the POSTs at the server or on their way back
    stock,     \* product.quantityInStock
    recorded,  \* salesTransaction rows of each sale
    used,      \* the idempotency keys in those rows
    effects,   \* times the steps after the commit were run for a sale
    minted,    \* keys generated for each sale
    trouble,   \* failures so far, bounded
    paper,     \* history: sales for which an offline receipt was printed
    fellBack,  \* history: sales queued because their first POST failed
    cleared,   \* history: sales removed by Clear Queue
    forgotten, \* history: those of them that nothing was working on then
    together,  \* history: sales with two POSTs under one key at the server
    missed     \* history: committed, and the later steps skipped

client == <<ringing, queue, keyOf, sync, minted, paper, fellBack>>
server == <<stock, recorded, used, effects, missed>>
clears == <<cleared, forgotten>>
vars == <<client, post, server, clears, together, trouble>>

-----------------------------------------------------------------------------
Free == [from |-> NoOne, sale |-> NoSale, key |-> NoKey, at |-> "free"]
Off == [at |-> "off", todo |-> {}, held |-> [s \in Sales |-> NoKey],
        sale |-> NoSale]

\* Steps of a POST at the server, then the answers to it.
Running == {"arrived", "looked", "checked", "recorded"}
Answers == {"ok", "refused"}

Init ==
    /\ ringing = LegacySales + 1
    /\ queue = Legacy
    /\ keyOf = [s \in Sales |-> NoKey]
    /\ sync = [y \in Syncs |-> Off]
    /\ post = [i \in Posts |-> Free]
    /\ stock = Stock
    /\ recorded = [s \in Sales |-> 0]
    /\ used = [s \in Sales |-> {}]
    /\ effects = [s \in Sales |-> 0]
    /\ minted = [s \in Sales |-> 0]
    /\ trouble = 0
    /\ paper = Legacy
    /\ fellBack = {} /\ cleared = {} /\ forgotten = {}
    /\ together = {} /\ missed = {}

Trouble ==
    /\ trouble < MaxTrouble
    /\ trouble' = trouble + 1

PostOf(a) == {i \in Posts : post[i].from = a}

\* A fetch.
Send(a, s, k) ==
    \E i \in Posts :
        /\ post[i] = Free
        /\ post' = [post EXCEPT ![i] =
                        [from |-> a, sale |-> s, key |-> k, at |-> "arrived"]]
        /\ together' =
             IF \E j \in Posts : /\ post[j].sale = s /\ post[j].key = k
                                 /\ post[j].at \in Running
             THEN together \cup {s} ELSE together

\* The caller is gone: the request may not have arrived, goes on without it,
\* or its answer is lost.
Abandoned(p, lost) ==
    CASE p.at \in Answers -> Free
      [] p.at = "arrived" /\ lost -> Free
      [] OTHER -> [p EXCEPT !.from = NoOne]

-----------------------------------------------------------------------------
(* The checkout of the POS tab, one sale at a time.                         *)

\* saveOfflineTransaction with a payload that carries no key yet.
SaveOffline(s) ==
    /\ minted[s] < MaxKeys
    /\ minted' = [minted EXCEPT ![s] = @ + 1]
    /\ queue' = queue \cup {s}
    /\ keyOf' = [keyOf EXCEPT ![s] = minted[s] + 1]
    /\ paper' = paper \cup {s}
    /\ ringing' = ringing + 1

\* navigator.onLine is false: the sale goes to the queue at once.
RingOffline ==
    /\ ringing \in Sales /\ PostOf(Till) = {}
    /\ SaveOffline(ringing)
    /\ UNCHANGED <<sync, fellBack, post, server, clears, together, trouble>>

\* The payload of an online checkout has no idempotencyKey.
RingOnline ==
    /\ ringing \in Sales /\ PostOf(Till) = {}
    /\ Send(Till, ringing, NoKey)
    /\ UNCHANGED <<client, server, clears, trouble>>

\* Sold, or refused by the server: a refused sale is not queued.
TillHears ==
    \E i \in PostOf(Till) :
        /\ post[i].at \in Answers
        /\ post' = [post EXCEPT ![i] = Free]
        /\ ringing' = ringing + 1
        /\ UNCHANGED <<queue, keyOf, sync, minted, paper, fellBack, server,
                       clears, together, trouble>>

\* fetch throws: the sale is queued, under a new key.
TillLoses ==
    \E i \in PostOf(Till), lost \in BOOLEAN :
        /\ Trouble
        /\ post' = [post EXCEPT ![i] = Abandoned(@, lost)]
        /\ SaveOffline(ringing)
        /\ fellBack' = fellBack \cup {ringing}
        /\ UNCHANGED <<sync, server, clears, together>>

-----------------------------------------------------------------------------
(* syncQueue.                                                               *)

\* One read of the whole queue.
StartSync(y) ==
    /\ sync[y].at = "off" /\ queue # {}
    /\ sync' = [sync EXCEPT ![y] =
                  [at |-> "next", todo |-> queue, held |-> keyOf, sale |-> NoSale]]
    /\ UNCHANGED <<ringing, queue, keyOf, minted, paper, fellBack, post, server,
                   clears, together, trouble>>

\* A row of an older version gets a key first, which is put with the row.
EnsureKey(y, s) ==
    IF sync[y].held[s] # NoKey
    THEN UNCHANGED <<queue, keyOf, minted>>
    ELSE /\ minted[s] < MaxKeys
         /\ minted' = [minted EXCEPT ![s] = @ + 1]
         /\ queue' = queue \cup {s}
         /\ keyOf' = [keyOf EXCEPT ![s] = minted[s] + 1]

SyncSends(y) ==
    /\ sync[y].at = "next"
    /\ \E s \in sync[y].todo :
        /\ \A t \in sync[y].todo : s <= t
        /\ EnsureKey(y, s)
        /\ Send(y, s, IF sync[y].held[s] # NoKey
                      THEN sync[y].held[s] ELSE minted[s] + 1)
        /\ sync' = [sync EXCEPT ![y].at = "sent", ![y].sale = s,
                                ![y].todo = @ \ {s}]
    /\ UNCHANGED <<ringing, paper, fellBack, server, clears, trouble>>

GoesOn(y) ==
    IF sync[y].todo = {} THEN Off
    ELSE [sync[y] EXCEPT !.at = "next", !.sale = NoSale]

\* conn.put of the row as it was read, with the error and one attempt more.
PutsBack(y) ==
    /\ queue' = queue \cup {sync[y].sale}
    /\ keyOf' = [keyOf EXCEPT ![sync[y].sale] = sync[y].held[sync[y].sale]]

CountsAsSuccess(answer) == answer = "ok"

\* A success deletes the row; any other answer leaves it for the next replay.
SyncHears(y) ==
    \E i \in PostOf(y) :
        /\ post[i].at \in Answers
        /\ IF CountsAsSuccess(post[i].at)
           THEN /\ queue' = queue \ {sync[y].sale}
                /\ keyOf' = [keyOf EXCEPT ![sync[y].sale] = NoKey]
           ELSE PutsBack(y)
        /\ post' = [post EXCEPT ![i] = Free]
        /\ sync' = [sync EXCEPT ![y] = GoesOn(y)]
        /\ UNCHANGED <<ringing, minted, paper, fellBack, server, clears,
                       together, trouble>>

\* fetch throws: the row stays and the replay stops.
SyncLoses(y) ==
    \E i \in PostOf(y), lost \in BOOLEAN :
        /\ Trouble
        /\ post' = [post EXCEPT ![i] = Abandoned(@, lost)]
        /\ PutsBack(y)
        /\ sync' = [sync EXCEPT ![y] = Off]
        /\ UNCHANGED <<ringing, minted, paper, fellBack, server, clears, together>>

\* Sales a replay holds or a POST is about.
InHand == (UNION {sync[y].todo \cup {sync[y].sale} : y \in Syncs})
              \cup {post[i].sale : i \in Posts}

\* clearOfflineQueue, confirmed in the dialog of the top bar.
\* Mutant: one row only.
RemovesOldest == {Min(queue)}

RemovesFromQueue == queue

ClearQueue ==
    /\ queue # {}
    /\ queue' = queue \ RemovesFromQueue
    /\ keyOf' = [s \in Sales |-> IF s \in RemovesFromQueue THEN NoKey ELSE keyOf[s]]
    /\ cleared' = cleared \cup queue
    /\ forgotten' = forgotten \cup (queue \ InHand)
    /\ UNCHANGED <<ringing, sync, minted, paper, fellBack, post, server,
                   together, trouble>>

\* The browser goes away; IndexedDB stays. A sale being rung up is left.
CloseTab ==
    /\ Trouble
    /\ sync' = [y \in Syncs |-> Off]
    /\ \E lost \in SUBSET Posts :
        post' = [i \in Posts |-> IF post[i].from = NoOne THEN post[i]
                                 ELSE Abandoned(post[i], i \in lost)]
    /\ ringing' = IF PostOf(Till) = {} THEN ringing ELSE ringing + 1
    /\ UNCHANGED <<queue, keyOf, minted, paper, fellBack, server, clears, together>>

-----------------------------------------------------------------------------
(* The checkout on the server.                                              *)

To(i, step) == post' = [post EXCEPT ![i].at = step]

Answer(i, answer) ==
    post' = [post EXCEPT ![i] =
                IF @.from = NoOne THEN Free ELSE [@ EXCEPT !.at = answer]]

At(i, step) == post[i].at = step /\ UNCHANGED <<client, clears, together>>

\* Mutant: the column is not unique.
NotUnique(p) == FALSE

\* The unique index on SalesTransaction.idempotencyKey; it ignores null.
KeyTaken(p) == p.key # NoKey /\ p.key \in used[p.sale]

\* Mutant: the handler relies on the index alone.
FindsNothing(p) == FALSE

\* findUnique by the key: a replay of a committed sale is answered with it.
FindsOriginal(p) == KeyTaken(p)

Lookup(i) ==
    /\ At(i, "arrived")
    /\ IF FindsOriginal(post[i]) THEN Answer(i, "ok") ELSE To(i, "looked")
    /\ UNCHANGED <<server, trouble>>

\* No or an expired session, invalid input, no credit left, ...
Refuse(i) ==
    /\ \/ At(i, "arrived")
       \/ At(i, "looked")
    /\ Answer(i, "refused")
    /\ UNCHANGED <<server, trouble>>

\* INSUFFICIENT_STOCK, from the product as it was read.
CheckStock(i) ==
    /\ At(i, "looked")
    /\ IF stock > 0 THEN To(i, "checked") ELSE Answer(i, "refused")
    /\ UNCHANGED <<server, trouble>>

\* Mutant: the stock as it was read is trusted.
ClaimsUnchecked == TRUE

\* updateMany where quantityInStock >= the quantity sold
Claims == stock >= 1

Insert(p) ==
    IF KeyTaken(p)
    THEN UNCHANGED <<recorded, used>>
    ELSE /\ recorded' = [recorded EXCEPT ![p.sale] = @ + 1]
         /\ used' = [used EXCEPT ![p.sale] = @ \cup ({p.key} \ {NoKey})]

\* Mutant: a replay is taken from the stock as well.
DeductAgain(p) == stock' = stock - 1

Deduct(p) == stock' = IF KeyTaken(p) THEN stock ELSE stock - 1

\* One database transaction. The insert comes first: under a taken key it
\* fails and the handler goes on with the original; without stock all of it
\* is rolled back.
Commit(i) ==
    LET p == post[i] IN
    /\ At(i, "checked")
    /\ IF KeyTaken(p) \/ Claims
       THEN To(i, "recorded") /\ Insert(p) /\ Deduct(p)
       ELSE Answer(i, "refused") /\ UNCHANGED <<recorded, used, stock>>
    /\ UNCHANGED <<effects, missed, trouble>>

\* Audit entry, eTIMS invoice event, loyalty points; then 201.
RunEffects(i) ==
    /\ At(i, "recorded")
    /\ Answer(i, "ok")
    /\ effects' = [effects EXCEPT ![post[i].sale] = @ + 1]
    /\ UNCHANGED <<stock, recorded, used, missed, trouble>>

\* One of those steps throws: it is logged, and the answer is the same.
SkipEffects(i) ==
    /\ At(i, "recorded") /\ Trouble
    /\ Answer(i, "ok")
    /\ missed' = missed \cup {post[i].sale}
    /\ UNCHANGED <<stock, recorded, used, effects>>

\* The function is killed: the caller sees a 5xx.
Die(i) ==
    /\ \E step \in Running : At(i, step)
    /\ Trouble
    /\ Answer(i, "refused")
    /\ missed' = IF post[i].at = "recorded" THEN missed \cup {post[i].sale} ELSE missed
    /\ UNCHANGED <<stock, recorded, used, effects>>

-----------------------------------------------------------------------------
Next ==
    \/ RingOffline \/ RingOnline \/ TillHears \/ TillLoses
    \/ ClearQueue \/ CloseTab
    \/ \E y \in Syncs :
        StartSync(y) \/ SyncSends(y) \/ SyncHears(y) \/ SyncLoses(y)
    \/ \E i \in Posts :
        \/ Lookup(i) \/ Refuse(i) \/ CheckStock(i) \/ Commit(i)
        \/ RunEffects(i) \/ SkipEffects(i) \/ Die(i)

Spec == Init /\ [][Next]_vars

-----------------------------------------------------------------------------
Calls == [at : {"off", "next", "sent"}, todo : SUBSET Sales,
          held : [Sales -> 0..MaxKeys], sale : Sales \cup {NoSale}]
Requests == [from : Syncs \cup {Till, NoOne}, sale : Sales \cup {NoSale},
             key : 0..MaxKeys, at : {"free"} \cup Running \cup Answers]

\* The states of till, queue, replays and server.
TypeOK ==
    /\ ringing \in 1..MaxSales + 1
    /\ queue \subseteq Sales
    /\ keyOf \in [Sales -> 0..MaxKeys]
    /\ sync \in [Syncs -> Calls]
    /\ post \in [Posts -> Requests]
    /\ stock \in 0..Stock
    /\ recorded \in [Sales -> Nat] /\ effects \in [Sales -> Nat]
    /\ minted \in [Sales -> 0..MaxKeys]
    /\ used \in [Sales -> SUBSET (1..MaxKeys)]
    /\ trouble \in 0..MaxTrouble
    /\ paper \cup fellBack \cup cleared \cup forgotten \cup together \cup missed
         \subseteq Sales

\* What left the stock is what was sold: a race over the last unit, a replay
\* and a rollback neither sell a unit that is not there nor take one away
\* without a sale (the order of insert and conditional decrement).
StockMatchesSales ==
    stock + MapThenSumSet(LAMBDA s : recorded[s], Sales) = Stock

\* A queued sale is recorded at most once, however often, by however many
\* replays and after whatever failure it is posted again; except one whose
\* first, keyless POST had failed, and a legacy row that was given two keys.
DoubleSaleOnlyThroughHoles ==
    \A s \in Sales : recorded[s] > 1 =>
        \/ s \in fellBack /\ recorded[s] = 2
        \/ s \in Legacy /\ minted[s] > 1

\* A customer who holds an offline receipt has a sale: it is still queued or
\* it is recorded, unless the queue was cleared.
PaperReceiptIsKept ==
    \A s \in paper \ cleared : s \in queue \/ recorded[s] > 0

\* Loyalty points, audit entry and eTIMS event happen once per recorded sale,
\* unless two POSTs under its key were at the server at the same time (the
\* second goes on with the original and repeats them), or they failed.
EffectsOncePerRecord ==
    \A s \in Sales \ (together \cup missed) :
        (\A i \in Posts : post[i].sale = s => post[i].at # "recorded")
            => effects[s] = recorded[s]

\* A sale removed by Clear Queue while no replay held it and no POST of it was
\* under way never comes back and never reaches the server.
ClearedIsForgotten ==
    [][\A s \in forgotten : s \notin queue' /\ recorded'[s] = recorded[s]]_vars

\* The queue keeps its word: what it still owes is not lost, and what was
\* cleared from it does not come back.
QueueKeepsItsWord == []PaperReceiptIsKept /\ ClearedIsForgotten
=============================================================================
