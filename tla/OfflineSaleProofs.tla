------------------------- MODULE OfflineSaleProofs -------------------------
(***************************************************************************)
(* Proofs about OfflineSale for every number of sales, replays, POSTs, keys *)
(* and failures. The argument: a sale that is no legacy gets one key, under *)
(* which the server records it at most once; beside that there is at most   *)
(* one POST without a key, the first, and it can only be followed by posts  *)
(* with the key when its answer was lost, which is what fellBack says.      *)
(* Stock follows the sum of what was recorded, by the laws of Sums.         *)
(***************************************************************************)
EXTENDS OfflineSale, Sums, TLAPS

\* Who waits for which POST: the till for one without a key of the sale being
\* rung up, a replay for one with a key of the row it is sending.
Callers ==
    /\ \A i \in Posts :
        /\ post[i].from # NoOne \/ post[i].at # "free" => post[i].sale \in Sales
        /\ post[i].from = Till => post[i].sale = ringing /\ post[i].key = NoKey
        /\ \A y \in Syncs : post[i].from = y =>
             /\ sync[y].at = "sent" /\ sync[y].sale = post[i].sale
             /\ post[i].key # NoKey
        /\ post[i].sale >= ringing => post[i].from = Till
    /\ \A i, j \in Posts : post[i].from = post[j].from /\ post[i].from # NoOne => i = j

\* Only sales rung up so far have left a trace outside the till, and the row of
\* a sale that is no legacy has the one key the sale was given.
Rows ==
    /\ ringing > LegacySales
    /\ fellBack \cap Legacy = {}
    /\ \A s \in Sales : s >= ringing =>
        /\ minted[s] = 0 /\ s \notin queue \cup paper \cup fellBack
        /\ \A y \in Syncs : s \notin sync[y].todo \cup {sync[y].sale}
    /\ \A s \in Sales \ Legacy :
        /\ minted[s] <= 1
        /\ s \in queue => keyOf[s] = 1
        /\ \A y \in Syncs :
             s \in sync[y].todo \cup {sync[y].sale} => sync[y].held[s] = 1

\* No key is used that was not generated.
Keys ==
    /\ \A s \in Sales : keyOf[s] <= minted[s] /\ used[s] \subseteq 1..minted[s]
    /\ \A s \in Sales, y \in Syncs : sync[y].held[s] <= minted[s]
    /\ \A i \in Posts :
        post[i].sale \in Sales => post[i].key <= minted[post[i].sale]

\* What an answer, a key or a receipt says about the table.
Recorded ==
    /\ \A s \in Sales : used[s] # {} => recorded[s] > 0
    /\ \A i \in Posts :
        post[i].at \in {"recorded", "ok"} => recorded[post[i].sale] > 0
    /\ \A s \in Sales : s >= ringing /\ recorded[s] > 0 =>
        \E i \in PostOf(Till) : post[i].sale = s
    /\ PaperReceiptIsKept

\* Records of a sale under its key, if it has only one.
Keyed(s) == IF used[s] = {} THEN 0 ELSE 1

Keyless(i, s) == post[i].sale = s /\ post[i].key = NoKey

\* The one POST of a sale that goes without a key adds at most one record to
\* the one under the key.
Counting ==
    /\ \A s \in Sales : \A i, j \in Posts : Keyless(i, s) /\ Keyless(j, s) => i = j
    /\ \A s \in Sales : minted[s] <= 1 =>
        /\ recorded[s] <= Keyed(s) + 1
        /\ \A i \in Posts :
             Keyless(i, s) /\ post[i].at \in {"arrived", "looked", "checked"}
               => recorded[s] <= Keyed(s)
        /\ s \notin fellBack /\ (minted[s] = 1 \/ s \in Legacy) =>
             /\ recorded[s] <= Keyed(s)
             /\ \A i \in Posts : ~Keyless(i, s)

\* What Clear Queue removed while nothing was working on it is gone for good.
Gone ==
    \A s \in forgotten :
        /\ s < ringing /\ s \notin queue
        /\ \A y \in Syncs : s \notin sync[y].todo \cup {sync[y].sale}
        /\ \A i \in Posts : post[i].sale # s

IInv == TypeOK /\ Callers /\ Rows /\ Keys /\ Recorded /\ Counting /\ Gone

-----------------------------------------------------------------------------
\* The initial state has all parts of the invariant.
LEMMA InitInv == Init => IInv
<1>. SUFFICES ASSUME Init PROVE IInv OBVIOUS
<1>. USE SaleAssumption DEF Init, Free, Off, Sales, Legacy, NoSale, NoKey
<1>1. TypeOK BY DEF TypeOK, Calls, Requests, Running, Answers
<1>2. Callers BY DEF Callers
<1>3. Rows BY DEF Rows
<1>4. Keys BY DEF Keys
<1>5. Recorded BY DEF Recorded, PaperReceiptIsKept
<1>6. Counting BY DEF Counting, Keyed, Keyless
<1>7. Gone BY DEF Gone
<1>. QED BY <1>1, <1>2, <1>3, <1>4, <1>5, <1>6, <1>7 DEF IInv

-----------------------------------------------------------------------------
\* The constants, as far as the types need them.
LEMMA Constants ==
    /\ Till \notin Syncs /\ NoOne \notin Syncs \cup {Till}
    /\ MaxSales \in Nat /\ MaxKeys \in Nat /\ Stock \in Nat /\ MaxTrouble \in Nat
    /\ Sales \subseteq Nat /\ Sales \cup {0} \subseteq Nat /\ 0 \notin Sales
    /\ NoKey = 0 /\ NoSale = 0
    /\ \A s \in Sales : s + 1 \in 1..MaxSales + 1
BY SaleAssumption DEF Sales, NoKey, NoSale

\* A fetch that is given up is gone, or goes on without its caller.
GivenUp(i) == {Free, [post[i] EXCEPT !.from = NoOne]}

\* Both are well-formed.
LEMMA GivenUpType ==
    ASSUME TypeOK, NEW i \in Posts PROVE GivenUp(i) \subseteq Requests
BY Constants DEF TypeOK, Requests, GivenUp, Free

\* What a caller leaves behind is one of the two.
LEMMA AbandonedPost ==
    ASSUME NEW i \in Posts, NEW lost \in BOOLEAN
    PROVE  Abandoned(post[i], lost) \in GivenUp(i)
BY DEF Abandoned, GivenUp

\* Closing the tab gives up every POST somebody waits for (CloseTab).
LEMMA ClosedPosts ==
    ASSUME TypeOK, CloseTab
    PROVE  /\ post' \in [Posts -> Requests]
           /\ \A i \in Posts : IF post[i].from = NoOne THEN post'[i] = post[i]
                               ELSE post'[i] \in GivenUp(i)
<1>1. PICK lost \in SUBSET Posts :
        post' = [i \in Posts |-> IF post[i].from = NoOne THEN post[i]
                                 ELSE Abandoned(post[i], i \in lost)]
  BY DEF CloseTab
<1>2. \A i \in Posts : Abandoned(post[i], i \in lost) \in GivenUp(i)
  BY DEF Abandoned, GivenUp
<1>. QED BY <1>1, <1>2, GivenUpType DEF TypeOK

\* A fetch that throws gives up the POST it waits for (TillLoses, SyncLoses).
LEMMA LostPost ==
    ASSUME TypeOK, NEW i \in Posts, NEW lost \in BOOLEAN,
           post' = [post EXCEPT ![i] = Abandoned(@, lost)]
    PROVE  /\ post' \in [Posts -> Requests]
           /\ post'[i] \in GivenUp(i)
           /\ \A j \in Posts \ {i} : post'[j] = post[j]
BY AbandonedPost, GivenUpType DEF TypeOK

\* A step or an answer of the server leaves a well-formed POST behind.
LEMMA AnswerType ==
    ASSUME TypeOK, NEW i \in Posts, NEW step \in Running \cup Answers,
           Answer(i, step) \/ To(i, step)
    PROVE  post' \in [Posts -> Requests]
<1>. /\ Free \in Requests
     /\ \A p \in Requests : [p EXCEPT !.at = step] \in Requests
  BY Constants DEF Requests, Free
<1>. QED BY DEF TypeOK, Answer, To

\* An update keeps the type of a function.
LEMMA ExceptType ==
    ASSUME NEW S, NEW T, NEW f \in [S -> T], NEW s \in S, NEW v \in T
    PROVE  [f EXCEPT ![s] = v] \in [S -> T]
OBVIOUS

\* No step breaks a type.
LEMMA NextType == ASSUME IInv, [Next]_vars PROVE TypeOK'
<1>. USE Constants DEF IInv, TypeOK, client, server, clears
<1>1. CASE RingOffline BY <1>1 DEF RingOffline, SaveOffline
<1>2. CASE RingOnline
  <2>1. [from |-> Till, sale |-> ringing, key |-> NoKey, at |-> "arrived"] \in Requests
    BY <1>2 DEF RingOnline, Requests, Running
  <2>. QED BY <1>2, <2>1 DEF RingOnline, Send
<1>0. Free \in Requests BY DEF Requests, Free
<1>3. CASE TillHears
  <2>1. ringing \in Sales BY <1>3 DEF TillHears, PostOf, Callers
  <2>. QED BY <1>0, <1>3, <2>1 DEF TillHears, PostOf
<1>4. CASE TillLoses
  <2>1. ringing \in Sales BY <1>4 DEF TillLoses, PostOf, Callers
  <2>2. post' \in [Posts -> Requests]
    BY <1>4, LostPost DEF TillLoses, PostOf
  <2>. QED BY <1>4, <2>1, <2>2 DEF TillLoses, SaveOffline, Trouble
<1>5. CASE ClearQueue
  <2>1. queue' \subseteq Sales /\ cleared' \subseteq Sales /\ forgotten' \subseteq Sales
    BY <1>5 DEF ClearQueue
  <2>2. keyOf' \in [Sales -> 0..MaxKeys] BY <1>5 DEF ClearQueue
  <2>. QED BY <1>5, <2>1, <2>2 DEF ClearQueue
<1>6. CASE CloseTab
  <2>1. PostOf(Till) # {} => ringing \in Sales BY DEF PostOf, Callers
  <2>2. post' \in [Posts -> Requests] BY <1>6, ClosedPosts
  <2>3. sync' \in [Syncs -> Calls] BY <1>6 DEF CloseTab, Off, Calls
  <2>. QED BY <1>6, <2>1, <2>2, <2>3 DEF CloseTab, Trouble
<1>7. ASSUME NEW y \in Syncs, StartSync(y) PROVE TypeOK'
  <2>1. sync' \in [Syncs -> Calls] BY <1>7 DEF StartSync, Calls
  <2>. QED BY <1>7, <2>1 DEF StartSync
<1>8. ASSUME NEW y \in Syncs, SyncSends(y) PROVE TypeOK'
  <2>1. PICK s \in sync[y].todo :
          /\ EnsureKey(y, s)
          /\ Send(y, s, IF sync[y].held[s] # NoKey
                        THEN sync[y].held[s] ELSE minted[s] + 1)
          /\ sync' = [sync EXCEPT ![y].at = "sent", ![y].sale = s,
                                  ![y].todo = @ \ {s}]
    BY <1>8 DEF SyncSends
  <2>2. s \in Sales BY DEF Calls
  <2>3. sync' \in [Syncs -> Calls] BY <2>1, <2>2 DEF Calls
  <2>4. \A k \in 0..MaxKeys :
          [from |-> y, sale |-> s, key |-> k, at |-> "arrived"] \in Requests
    BY <2>2 DEF Requests, Running
  <2>5. sync[y].held[s] \in 0..MaxKeys BY <2>2 DEF Calls
  <2>6. (IF sync[y].held[s] # NoKey THEN sync[y].held[s] ELSE minted[s] + 1)
          \in 0..MaxKeys
    BY <2>1, <2>2, <2>5 DEF EnsureKey
  <2>7. post' \in [Posts -> Requests] /\ together' \subseteq Sales
    BY <2>1, <2>2, <2>4, <2>6 DEF Send
  <2>8. queue' \subseteq Sales /\ keyOf' \in [Sales -> 0..MaxKeys]
          /\ minted' \in [Sales -> 0..MaxKeys]
    BY <2>1, <2>2 DEF EnsureKey
  <2>. QED BY <1>8, <2>3, <2>7, <2>8 DEF SyncSends
<1>9. \A y \in Syncs : PostOf(y) # {} =>
          sync[y].sale \in Sales /\ sync[y].held[sync[y].sale] \in 0..MaxKeys
  <2>1. SUFFICES ASSUME NEW y \in Syncs, NEW i \in Posts, post[i].from = y
        PROVE sync[y].sale \in Sales /\ sync[y].held[sync[y].sale] \in 0..MaxKeys
    BY DEF PostOf
  <2>2. sync[y].sale \in Sales BY <2>1 DEF Callers
  <2>3. sync[y].held \in [Sales -> 0..MaxKeys] BY DEF Calls
  <2>. QED BY <2>2, <2>3
<1>10. \A y \in Syncs : GoesOn(y) \in Calls /\ Off \in Calls
  <2>. SUFFICES ASSUME NEW y \in Syncs PROVE GoesOn(y) \in Calls /\ Off \in Calls
    OBVIOUS
  <2>1. Off \in Calls BY DEF Calls, Off
  <2>2. sync[y] \in Calls OBVIOUS
  <2>3. [sync[y] EXCEPT !.at = "next", !.sale = NoSale] \in Calls BY <2>2 DEF Calls
  <2>. QED BY <2>1, <2>3 DEF GoesOn
<1>11. ASSUME NEW y \in Syncs, SyncHears(y) PROVE TypeOK'
  <2>1. PICK i \in PostOf(y) :
          /\ IF CountsAsSuccess(post[i].at)
             THEN /\ queue' = queue \ {sync[y].sale}
                  /\ keyOf' = [keyOf EXCEPT ![sync[y].sale] = NoKey]
             ELSE PutsBack(y)
          /\ post' = [post EXCEPT ![i] = Free]
    BY <1>11 DEF SyncHears
  <2>2. sync[y].sale \in Sales /\ sync[y].held[sync[y].sale] \in 0..MaxKeys
    BY <1>9, <2>1
  <2>3. queue' \subseteq Sales /\ keyOf' \in [Sales -> 0..MaxKeys]
    <3>1. CASE CountsAsSuccess(post[i].at)
      <4>1. /\ queue' = queue \ {sync[y].sale}
            /\ keyOf' = [keyOf EXCEPT ![sync[y].sale] = 0]
        BY <2>1, <3>1
      <4>2. keyOf' \in [Sales -> 0..MaxKeys] BY <2>2, <4>1, ExceptType
      <4>. QED BY <4>1, <4>2
    <3>2. CASE ~CountsAsSuccess(post[i].at) BY <2>1, <2>2, <3>2 DEF PutsBack
    <3>. QED BY <3>1, <3>2
  <2>4. post' \in [Posts -> Requests] BY <1>0, <2>1 DEF PostOf
  <2>5. sync' \in [Syncs -> Calls] BY <1>10, <1>11 DEF SyncHears
  <2>. QED BY <1>11, <2>3, <2>4, <2>5 DEF SyncHears
<1>12. ASSUME NEW y \in Syncs, SyncLoses(y) PROVE TypeOK'
  <2>1. PICK i \in PostOf(y), lost \in BOOLEAN :
          post' = [post EXCEPT ![i] = Abandoned(@, lost)]
    BY <1>12 DEF SyncLoses
  <2>2. sync[y].sale \in Sales /\ sync[y].held[sync[y].sale] \in 0..MaxKeys
    BY <1>9, <2>1
  <2>3. queue' \subseteq Sales /\ keyOf' \in [Sales -> 0..MaxKeys]
    BY <1>12, <2>2 DEF SyncLoses, PutsBack
  <2>4. post' \in [Posts -> Requests] BY <2>1, LostPost DEF PostOf
  <2>5. sync' \in [Syncs -> Calls] BY <1>10, <1>12 DEF SyncLoses
  <2>. QED BY <1>12, <2>3, <2>4, <2>5 DEF SyncLoses, Trouble
<1>13. ASSUME NEW i \in Posts,
              \/ Lookup(i) \/ Refuse(i) \/ CheckStock(i) \/ Commit(i)
              \/ RunEffects(i) \/ SkipEffects(i) \/ Die(i)
       PROVE TypeOK'
  <2>1. post' \in [Posts -> Requests]
    BY <1>13, AnswerType DEF Lookup, Refuse, CheckStock, Commit, RunEffects,
       SkipEffects, Die, Running, Answers
  <2>2. post[i].at # "free" /\ post[i].sale \in Sales
    BY <1>13 DEF Lookup, Refuse, CheckStock, Commit, RunEffects, SkipEffects, Die,
       At, Running, Callers
  <2>3. CASE Lookup(i) \/ Refuse(i) \/ CheckStock(i)
    BY <2>1, <2>3 DEF Lookup, Refuse, CheckStock, At
  <2>4. CASE Commit(i)
    <3>1. post[i].key \in 0..MaxKeys BY DEF Requests
    <3>. QED BY <2>1, <2>2, <2>4, <3>1 DEF Commit, At, Insert, Deduct, Claims
  <2>5. CASE RunEffects(i)
    <3>1. effects' = [effects EXCEPT ![post[i].sale] = effects[post[i].sale] + 1]
      BY <2>5 DEF RunEffects
    <3>2. effects \in [Sales -> Nat] /\ post[i].sale \in Sales BY <2>2
    <3>3. \A n \in Nat : n + 1 \in Nat OBVIOUS
    <3>4. effects[post[i].sale] + 1 \in Nat BY ONLY <3>2, <3>3
    <3>5. effects' \in [Sales -> Nat] BY <3>1, <3>2, <3>4, ExceptType
    <3>. QED BY <2>1, <2>5, <3>5 DEF RunEffects, At
  <2>6. CASE SkipEffects(i) BY <2>1, <2>2, <2>6 DEF SkipEffects, At, Trouble
  <2>7. CASE Die(i) BY <2>1, <2>2, <2>7 DEF Die, At, Trouble
  <2>. QED BY <1>13, <2>3, <2>4, <2>5, <2>6, <2>7
<1>14. CASE UNCHANGED vars BY <1>14 DEF vars
<1>. QED BY <1>1, <1>2, <1>3, <1>4, <1>5, <1>6, <1>7, <1>8, <1>11, <1>12, <1>13,
            <1>14 DEF Next

-----------------------------------------------------------------------------
(* The steps, POST by POST and replay by replay.                            *)

Vacant(p) == p.from = NoOne /\ p.sale = NoSale /\ p.key = NoKey /\ p.at = "free"
Orphan(p, q) == p.from = NoOne /\ p.sale = q.sale /\ p.key = q.key /\ p.at = q.at
Others(i) == \A j \in Posts \ {i} : post'[j] = post[j]

\* The server goes on with a POST or answers it, and records nothing.
Served(i) ==
    /\ post[i].at # "free" /\ Others(i)
    /\ \/ post[i].from = NoOne /\ Vacant(post'[i])
       \/ /\ post'[i].from = post[i].from /\ post'[i].sale = post[i].sale
          /\ post'[i].key = post[i].key /\ post'[i].at # "free"
          /\ post'[i].at \in {"recorded", "ok"} => recorded[post[i].sale] > 0
          /\ post'[i].at \in {"arrived", "looked", "checked"} =>
               post[i].at \in {"arrived", "looked", "checked"}
    /\ UNCHANGED <<client, clears, recorded, used>>

\* The server records the sale of a POST.
Inserted(i) ==
    /\ post[i].at = "checked" /\ Others(i)
    /\ post[i].key = NoKey \/ post[i].key \notin used[post[i].sale]
    /\ post'[i].from = post[i].from /\ post'[i].sale = post[i].sale
    /\ post'[i].key = post[i].key /\ post'[i].at = "recorded"
    /\ recorded' = [recorded EXCEPT ![post[i].sale] = @ + 1]
    /\ used' = [used EXCEPT ![post[i].sale] = @ \cup ({post[i].key} \ {NoKey})]
    /\ UNCHANGED <<client, clears>>

\* A replay is done with a row.
Rests(y) ==
    /\ \A x \in Syncs \ {y} : sync'[x] = sync[x]
    /\ sync'[y].at # "sent" /\ sync'[y].sale = NoSale
    /\ \/ sync'[y].todo = sync[y].todo /\ sync'[y].held = sync[y].held
       \/ sync'[y].todo = {} /\ \A s \in Sales : sync'[y].held[s] = NoKey

\* The types, in the form the steps use them.
LEMMA Typed ==
    ASSUME TypeOK
    PROVE  /\ ringing \in Nat /\ queue \subseteq Sales
           /\ keyOf \in [Sales -> Nat] /\ minted \in [Sales -> Nat]
           /\ recorded \in [Sales -> Nat] /\ used \in [Sales -> SUBSET Nat]
           /\ paper \cup fellBack \cup forgotten \cup cleared \subseteq Sales
           /\ post \in [Posts -> Requests] /\ sync \in [Syncs -> Calls]
           /\ \A i \in Posts :
                /\ post[i].from \in Syncs \cup {Till, NoOne} /\ post[i].key \in Nat
                /\ post[i].sale \in Sales \cup {0} /\ post[i].sale \in Nat
           /\ \A y \in Syncs :
                /\ sync[y].todo \subseteq Sales /\ sync[y].held \in [Sales -> Nat]
                /\ sync[y].sale \in Sales \cup {0}
<1>1. 0..MaxKeys \subseteq Nat /\ 1..MaxKeys \subseteq Nat BY Constants
<1>2. \A r \in Requests : r.from \in Syncs \cup {Till, NoOne} /\ r.key \in Nat
                            /\ r.sale \in Sales \cup {0} /\ r.sale \in Nat
  BY <1>1, Constants DEF Requests
<1>3. \A c \in Calls : c.todo \subseteq Sales /\ c.held \in [Sales -> Nat]
                         /\ c.sale \in Sales \cup {0}
  BY <1>1, Constants DEF Calls
<1>4. /\ keyOf \in [Sales -> Nat] /\ minted \in [Sales -> Nat]
      /\ used \in [Sales -> SUBSET Nat]
  BY <1>1, Constants DEF TypeOK
<1>. QED BY <1>2, <1>3, <1>4, Constants DEF TypeOK

\* A new step leaves the rest of a POST alone.
LEMMA PostRecord ==
    ASSUME NEW p \in Requests, NEW step
    PROVE  LET q == [p EXCEPT !.at = step] IN
           q.from = p.from /\ q.sale = p.sale /\ q.key = p.key /\ q.at = step
BY DEF Requests

\* A step on.
LEMMA SteppedOn ==
    ASSUME TypeOK, NEW i \in Posts, NEW step, To(i, step)
    PROVE  /\ Others(i)
           /\ post'[i].from = post[i].from /\ post'[i].sale = post[i].sale
           /\ post'[i].key = post[i].key /\ post'[i].at = step
<1>1. post \in [Posts -> Requests] /\ post[i] \in Requests BY DEF TypeOK
<1>2. post' = [post EXCEPT ![i] = [post[i] EXCEPT !.at = step]] BY DEF To
<1>3. post'[i] = [post[i] EXCEPT !.at = step] /\ Others(i) BY <1>1, <1>2 DEF Others
<1>. QED BY <1>1, <1>3, PostRecord

\* An answer, or a step on.
LEMMA Moved ==
    ASSUME TypeOK, NEW i \in Posts, NEW step, Answer(i, step) \/ To(i, step)
    PROVE  /\ Others(i)
           /\ \/ post[i].from = NoOne /\ Vacant(post'[i]) /\ Answer(i, step)
              \/ /\ post'[i].from = post[i].from /\ post'[i].sale = post[i].sale
                 /\ post'[i].key = post[i].key /\ post'[i].at = step
<1>1. post \in [Posts -> Requests] /\ post[i] \in Requests BY DEF TypeOK
<1>2. CASE To(i, step) BY <1>2, SteppedOn
<1>3. CASE Answer(i, step)
  <2>1. CASE post[i].from = NoOne
    <3>1. post' = [post EXCEPT ![i] = Free] BY <1>3, <2>1 DEF Answer
    <3>. QED BY <1>1, <1>3, <2>1, <3>1 DEF Others, Vacant, Free
  <2>2. CASE post[i].from # NoOne
    <3>1. post' = [post EXCEPT ![i] = [post[i] EXCEPT !.at = step]]
      BY <1>3, <2>2 DEF Answer
    <3>2. post'[i] = [post[i] EXCEPT !.at = step] /\ Others(i)
      BY <1>1, <3>1 DEF Others
    <3>. QED BY <1>1, <3>2, PostRecord
  <2>. QED BY <2>1, <2>2
<1>. QED BY <1>2, <1>3

\* A step of the server is one of the two.
LEMMA ServerStep ==
    ASSUME IInv, NEW i \in Posts,
           \/ Lookup(i) \/ Refuse(i) \/ CheckStock(i) \/ Commit(i)
           \/ RunEffects(i) \/ SkipEffects(i) \/ Die(i)
    PROVE  Served(i) \/ Inserted(i)
<1>0. TypeOK BY DEF IInv
<1>. USE Constants DEF server
<1>a. KeyTaken(post[i]) /\ post[i].at # "free" => recorded[post[i].sale] > 0
  BY DEF KeyTaken, IInv, Recorded, Callers
<1>b. post[i].at = "recorded" => recorded[post[i].sale] > 0 BY DEF IInv, Recorded
<1>1. CASE Lookup(i)
  <2>1. CASE FindsOriginal(post[i])
    BY <1>0, <1>a, <1>1, <2>1, Moved DEF Lookup, At, Served, FindsOriginal
  <2>2. CASE ~FindsOriginal(post[i])
    BY <1>0, <1>1, <2>2, Moved DEF Lookup, At, Served
  <2>. QED BY <2>1, <2>2
<1>2. CASE Refuse(i) BY <1>0, <1>2, Moved DEF Refuse, At, Served
<1>3. CASE CheckStock(i)
  <2>1. CASE stock > 0 BY <1>0, <1>3, <2>1, Moved DEF CheckStock, At, Served
  <2>2. CASE ~(stock > 0) BY <1>0, <1>3, <2>2, Moved DEF CheckStock, At, Served
  <2>. QED BY <2>1, <2>2
<1>4. CASE Commit(i)
  <2>1. CASE KeyTaken(post[i])
    BY <1>0, <1>a, <1>4, <2>1, Moved DEF Commit, At, Served, Insert
  <2>2. CASE ~KeyTaken(post[i]) /\ Claims
    <3>1. To(i, "recorded") /\ Insert(post[i]) /\ At(i, "checked")
      BY <1>4, <2>2 DEF Commit
    <3>. QED BY <1>0, <2>2, <3>1, SteppedOn DEF At, Inserted, Insert, KeyTaken
  <2>3. CASE ~KeyTaken(post[i]) /\ ~Claims
    BY <1>0, <1>4, <2>3, Moved DEF Commit, At, Served
  <2>. QED BY <2>1, <2>2, <2>3
<1>5. CASE RunEffects(i)
  BY <1>0, <1>b, <1>5, Moved DEF RunEffects, At, Served
<1>6. CASE SkipEffects(i)
  BY <1>0, <1>b, <1>6, Moved DEF SkipEffects, At, Served
<1>7. CASE Die(i) BY <1>0, <1>7, Moved DEF Die, At, Served, Running
<1>. QED BY <1>1, <1>2, <1>3, <1>4, <1>5, <1>6, <1>7

\* A fetch.
LEMMA SentPost ==
    ASSUME TypeOK, NEW a, NEW s, NEW k, Send(a, s, k)
    PROVE  \E i \in Posts :
             /\ Vacant(post[i]) /\ Others(i)
             /\ post'[i].from = a /\ post'[i].sale = s /\ post'[i].key = k
             /\ post'[i].at = "arrived"
BY DEF Send, TypeOK, Vacant, Free, Others

\* The till or a replay hears an answer or gives up.
LEMMA VacatedPost ==
    ASSUME TypeOK, NEW i \in Posts, post' = [post EXCEPT ![i] = Free]
    PROVE  Others(i) /\ Vacant(post'[i])
BY DEF TypeOK, Others, Vacant, Free

\* A POST that was given up, field by field.
LEMMA GivenUpPost ==
    ASSUME TypeOK, NEW i \in Posts, NEW p \in GivenUp(i)
    PROVE  Vacant(p) \/ Orphan(p, post[i])
<1>1. post[i] \in Requests BY DEF TypeOK
<1>. QED BY <1>1 DEF GivenUp, Vacant, Orphan, Free, Requests

\* The till hears the answer to its POST.
LEMMA TillHearsStep ==
    ASSUME TypeOK, TillHears
    PROVE  \E i \in Posts : /\ post[i].from = Till /\ Others(i)
                            /\ Vacant(post'[i])
<1>1. PICK i \in PostOf(Till) : post' = [post EXCEPT ![i] = Free] BY DEF TillHears
<1>. QED BY <1>1, VacatedPost DEF PostOf

\* The till gives its POST up.
LEMMA TillLosesStep ==
    ASSUME TypeOK, TillLoses
    PROVE  \E i \in Posts : /\ post[i].from = Till /\ Others(i)
                            /\ Vacant(post'[i]) \/ Orphan(post'[i], post[i])
<1>1. PICK i \in PostOf(Till), lost \in BOOLEAN :
        post' = [post EXCEPT ![i] = Abandoned(@, lost)] BY DEF TillLoses
<1>2. i \in Posts /\ post[i].from = Till BY DEF PostOf
<1>3. post'[i] \in GivenUp(i) /\ Others(i) BY <1>1, <1>2, LostPost DEF Others
<1>. QED BY <1>2, <1>3, GivenUpPost

\* Closing the tab, POST by POST.
LEMMA CloseTabStep ==
    ASSUME TypeOK, CloseTab, NEW i \in Posts
    PROVE  /\ post[i].from = NoOne => post'[i] = post[i]
           /\ post[i].from # NoOne => Vacant(post'[i]) \/ Orphan(post'[i], post[i])
BY ClosedPosts, GivenUpPost

\* A replay sends the oldest row it has left, with the key it read or a new one.
LEMMA SyncSendsStep ==
    ASSUME TypeOK, NEW y \in Syncs, SyncSends(y)
    PROVE  \E i \in Posts, s \in sync[y].todo :
             /\ Vacant(post[i]) /\ Others(i)
             /\ post'[i].from = y /\ post'[i].sale = s /\ post'[i].at = "arrived"
             /\ post'[i].key = IF sync[y].held[s] # NoKey
                               THEN sync[y].held[s] ELSE minted[s] + 1
             /\ EnsureKey(y, s)
             /\ \A x \in Syncs \ {y} : sync'[x] = sync[x]
             /\ sync'[y].at = "sent" /\ sync'[y].sale = s
             /\ sync'[y].todo = sync[y].todo \ {s} /\ sync'[y].held = sync[y].held
<1>1. PICK s \in sync[y].todo :
        /\ EnsureKey(y, s)
        /\ Send(y, s, IF sync[y].held[s] # NoKey
                      THEN sync[y].held[s] ELSE minted[s] + 1)
        /\ sync' = [sync EXCEPT ![y].at = "sent", ![y].sale = s,
                                ![y].todo = @ \ {s}]
  BY DEF SyncSends
<1>2. sync \in [Syncs -> Calls] /\ sync[y] \in Calls BY DEF TypeOK
<1>3. /\ \A x \in Syncs \ {y} : sync'[x] = sync[x]
      /\ sync'[y].at = "sent" /\ sync'[y].sale = s
      /\ sync'[y].todo = sync[y].todo \ {s} /\ sync'[y].held = sync[y].held
  BY <1>1, <1>2 DEF Calls
<1>. DEFINE k == IF sync[y].held[s] # NoKey THEN sync[y].held[s] ELSE minted[s] + 1
<1>4. \E i \in Posts :
        /\ Vacant(post[i]) /\ Others(i)
        /\ post'[i].from = y /\ post'[i].sale = s /\ post'[i].key = k
        /\ post'[i].at = "arrived"
  <2>1. Send(y, s, k) BY <1>1
  <2>. HIDE DEF k
  <2>. QED BY <2>1, SentPost
<1>. QED BY <1>1, <1>3, <1>4

\* A replay that stops or goes on with its next row no longer holds this one.
LEMMA Rested ==
    ASSUME TypeOK, NEW y \in Syncs,
           sync' = [sync EXCEPT ![y] = Off] \/ sync' = [sync EXCEPT ![y] = GoesOn(y)]
    PROVE  Rests(y)
<1>1. sync \in [Syncs -> Calls] /\ sync[y] \in Calls BY DEF TypeOK
<1>2. CASE sync' = [sync EXCEPT ![y] = Off] BY <1>1, <1>2 DEF Rests, Off
<1>3. CASE sync' = [sync EXCEPT ![y] = GoesOn(y)]
  <2>1. sync'[y] = GoesOn(y) /\ \A x \in Syncs \ {y} : sync'[x] = sync[x]
    BY <1>1, <1>3
  <2>2. CASE sync[y].todo = {} BY <2>1, <2>2 DEF GoesOn, Rests, Off
  <2>3. CASE sync[y].todo # {}
    <3>1. sync'[y] = [sync[y] EXCEPT !.at = "next", !.sale = NoSale]
      BY <2>1, <2>3 DEF GoesOn
    <3>. QED BY <1>1, <2>1, <3>1 DEF Rests, Calls
  <2>. QED BY <2>2, <2>3
<1>. QED BY <1>2, <1>3

\* A replay hears the answer: the row is deleted or put back.
LEMMA SyncHearsStep ==
    ASSUME TypeOK, NEW y \in Syncs, SyncHears(y)
    PROVE  /\ Rests(y)
           /\ \E i \in Posts :
                /\ post[i].from = y /\ Others(i) /\ Vacant(post'[i])
                /\ \/ /\ post[i].at = "ok"
                      /\ queue' = queue \ {sync[y].sale}
                      /\ keyOf' = [keyOf EXCEPT ![sync[y].sale] = NoKey]
                   \/ PutsBack(y)
<1>1. Rests(y) BY Rested DEF SyncHears
<1>2. PICK i \in PostOf(y) :
        /\ IF CountsAsSuccess(post[i].at)
           THEN /\ queue' = queue \ {sync[y].sale}
                /\ keyOf' = [keyOf EXCEPT ![sync[y].sale] = NoKey]
           ELSE PutsBack(y)
        /\ post' = [post EXCEPT ![i] = Free]
  BY DEF SyncHears
<1>3. i \in Posts /\ post[i].from = y BY DEF PostOf
<1>4. Others(i) /\ Vacant(post'[i]) BY <1>2, <1>3, VacatedPost
<1>5. CASE CountsAsSuccess(post[i].at)
  BY <1>1, <1>2, <1>3, <1>4, <1>5 DEF CountsAsSuccess
<1>6. CASE ~CountsAsSuccess(post[i].at) BY <1>1, <1>2, <1>3, <1>4, <1>6
<1>. QED BY <1>5, <1>6

\* A replay gives its POST up and puts the row back.
LEMMA SyncLosesStep ==
    ASSUME TypeOK, NEW y \in Syncs, SyncLoses(y)
    PROVE  /\ Rests(y) /\ PutsBack(y)
           /\ \E i \in Posts :
                /\ post[i].from = y /\ Others(i)
                /\ Vacant(post'[i]) \/ Orphan(post'[i], post[i])
<1>1. Rests(y) /\ PutsBack(y) BY Rested DEF SyncLoses
<1>2. PICK i \in PostOf(y), lost \in BOOLEAN :
        post' = [post EXCEPT ![i] = Abandoned(@, lost)] BY DEF SyncLoses
<1>3. i \in Posts /\ post[i].from = y BY DEF PostOf
<1>4. post'[i] \in GivenUp(i) /\ Others(i) BY <1>2, <1>3, LostPost DEF Others
<1>. QED BY <1>1, <1>3, <1>4, GivenUpPost

-----------------------------------------------------------------------------
\* Callers: who waits for a POST changes only when it is sent, heard or given up.
Kept(p, q) ==
    /\ p.from = q.from /\ p.sale = q.sale /\ p.key = q.key
    /\ p.at # "free" => q.at # "free"

\* Every step but the sending of a POST.
LEMMA CallersKept ==
    ASSUME TypeOK, Callers,
           \A i \in Posts : \/ Kept(post'[i], post[i]) \/ Vacant(post'[i])
                            \/ Orphan(post'[i], post[i]),
           ringing' = ringing \/ ringing' = ringing + 1,
           \A i \in Posts : post'[i].from = Till => ringing' = ringing,
           \A i \in Posts : post[i].from = Till =>
              post'[i].from = Till \/ Vacant(post'[i]) \/ ringing' = ringing + 1,
           \A i \in Posts, y \in Syncs : post'[i].from = y =>
              sync'[y].at = sync[y].at /\ sync'[y].sale = sync[y].sale
    PROVE  Callers'
<1>. USE Typed, Constants
<1>1. ASSUME NEW i \in Posts
      PROVE  /\ post'[i].from # NoOne \/ post'[i].at # "free" => post'[i].sale \in Sales
             /\ post'[i].from = Till => post'[i].sale = ringing' /\ post'[i].key = NoKey
             /\ \A y \in Syncs : post'[i].from = y =>
                  /\ sync'[y].at = "sent" /\ sync'[y].sale = post'[i].sale
                  /\ post'[i].key # NoKey
             /\ post'[i].sale >= ringing' => post'[i].from = Till
  <2>0. /\ post[i].from # NoOne \/ post[i].at # "free" => post[i].sale \in Sales
        /\ post[i].from = Till => post[i].sale = ringing /\ post[i].key = NoKey
        /\ \A y \in Syncs : post[i].from = y =>
             /\ sync[y].at = "sent" /\ sync[y].sale = post[i].sale
             /\ post[i].key # NoKey
        /\ post[i].sale >= ringing => post[i].from = Till
    BY DEF Callers
  <2>a. post[i].sale \in Nat /\ ringing \in Nat /\ NoOne # Till /\ NoOne \notin Syncs
    OBVIOUS
  <2>b. post[i].sale >= ringing' => post[i].from = Till BY <2>0, <2>a
  <2>1. CASE Kept(post'[i], post[i]) BY <2>0, <2>b, <2>1 DEF Kept
  <2>2. CASE Vacant(post'[i]) BY <2>2 DEF Vacant, TypeOK
  <2>3. CASE Orphan(post'[i], post[i])
    <3>1. post'[i].sale >= ringing' => post'[i].from = Till
      <4>1. SUFFICES ASSUME post[i].sale >= ringing' PROVE FALSE
        BY <2>3 DEF Orphan
      <4>2. post[i].from = Till BY <2>b, <4>1
      <4>3. post[i].sale = ringing /\ post[i].sale \in Sales BY <2>0, <2>a, <4>2
      <4>4. ringing' = ringing + 1
        BY <2>3, <2>a, <4>2, <4>3 DEF Orphan, Vacant
      <4>. QED BY <2>a, <4>1, <4>3, <4>4
    <3>. QED BY <2>0, <2>a, <2>3, <3>1 DEF Orphan
  <2>. QED BY <2>1, <2>2, <2>3
<1>2. ASSUME NEW i \in Posts, NEW j \in Posts, post'[i].from = post'[j].from,
             post'[i].from # NoOne
      PROVE  i = j
  BY <1>2 DEF Callers, Kept, Vacant, Orphan
<1>. QED BY <1>1, <1>2 DEF Callers

\* The sending of a POST by an actor that waits for none.
LEMMA CallersSent ==
    ASSUME TypeOK, Callers, NEW i \in Posts, Vacant(post[i]), Others(i),
           post'[i].from # NoOne, post'[i].sale \in Sales, ringing' = ringing,
           \A j \in Posts : post[j].from # post'[i].from,
           post'[i].from = Till => post'[i].sale = ringing /\ post'[i].key = NoKey,
           post'[i].from # Till => post'[i].sale < ringing,
           \A y \in Syncs : IF post'[i].from = y
                            THEN /\ sync'[y].at = "sent" /\ post'[i].key # NoKey
                                 /\ sync'[y].sale = post'[i].sale
                            ELSE sync'[y] = sync[y]
    PROVE  Callers'
<1>. USE Typed, Constants
<1>1. ASSUME NEW j \in Posts
      PROVE  /\ post'[j].from # NoOne \/ post'[j].at # "free" => post'[j].sale \in Sales
             /\ post'[j].from = Till => post'[j].sale = ringing' /\ post'[j].key = NoKey
             /\ \A y \in Syncs : post'[j].from = y =>
                  /\ sync'[y].at = "sent" /\ sync'[y].sale = post'[j].sale
                  /\ post'[j].key # NoKey
             /\ post'[j].sale >= ringing' => post'[j].from = Till
  <2>a. post'[i].sale \in Nat /\ ringing \in Nat OBVIOUS
  <2>1. CASE j = i BY <2>1, <2>a
  <2>2. CASE j # i BY <2>2 DEF Callers, Others
  <2>. QED BY <2>1, <2>2
<1>2. ASSUME NEW j \in Posts, NEW k \in Posts, post'[j].from = post'[k].from,
             post'[j].from # NoOne
      PROVE  j = k
  BY <1>2 DEF Callers, Others
<1>. QED BY <1>1, <1>2 DEF Callers

\* No step breaks Callers.
LEMMA NextCallers == ASSUME IInv, [Next]_vars PROVE Callers'
<1>0. TypeOK /\ Callers /\ Rows BY DEF IInv
<1>t. /\ \A i \in Posts : Kept(post[i], post[i])
      /\ \A i \in Posts : post[i].from = Till => post[i].sale = ringing
  BY <1>0 DEF Kept, Callers
<1>. USE <1>0, <1>t, Typed, Constants DEF client
<1>1. CASE RingOffline BY <1>1, CallersKept DEF RingOffline, SaveOffline, PostOf
<1>2. CASE RingOnline
  <2>1. PICK i \in Posts :
          /\ Vacant(post[i]) /\ Others(i)
          /\ post'[i].from = Till /\ post'[i].sale = ringing /\ post'[i].key = NoKey
          /\ post'[i].at = "arrived"
    BY <1>2, SentPost DEF RingOnline
  <2>2. sync' = sync /\ ringing' = ringing /\ ringing \in Sales
          /\ \A j \in Posts : post[j].from # Till
    BY <1>2 DEF RingOnline, PostOf
  <2>. QED BY <2>1, <2>2, CallersSent
<1>3. CASE TillHears
  <2>1. PICK i \in Posts : post[i].from = Till /\ Others(i) /\ Vacant(post'[i])
    BY <1>3, TillHearsStep
  <2>2. \A j \in Posts : post'[j].from # Till BY <2>1 DEF Others, Vacant, Callers
  <2>3. sync' = sync /\ ringing' = ringing + 1 BY <1>3 DEF TillHears
  <2>4. \A j \in Posts : Kept(post'[j], post[j]) \/ Vacant(post'[j])
    BY <2>1 DEF Others
  <2>. QED BY <2>2, <2>3, <2>4, CallersKept
<1>4. CASE TillLoses
  <2>1. PICK i \in Posts : /\ post[i].from = Till /\ Others(i)
                           /\ Vacant(post'[i]) \/ Orphan(post'[i], post[i])
    BY <1>4, TillLosesStep
  <2>2. \A j \in Posts : post'[j].from # Till
    BY <2>1 DEF Others, Vacant, Orphan, Callers
  <2>3. sync' = sync /\ ringing' = ringing + 1
    BY <1>4 DEF TillLoses, SaveOffline
  <2>4. \A j \in Posts : \/ Kept(post'[j], post[j]) \/ Vacant(post'[j])
                         \/ Orphan(post'[j], post[j])
    BY <2>1 DEF Others
  <2>. QED BY <2>2, <2>3, <2>4, CallersKept
<1>5. CASE ClearQueue BY <1>5, CallersKept DEF ClearQueue
<1>6. CASE CloseTab
  <2>1. \A i \in Posts :
           /\ Kept(post'[i], post[i]) \/ Vacant(post'[i]) \/ Orphan(post'[i], post[i])
           /\ post'[i].from = NoOne
    BY <1>6, CloseTabStep DEF Vacant, Orphan
  <2>2. ringing' = ringing \/ ringing' = ringing + 1 BY <1>6 DEF CloseTab
  <2>3. \A i \in Posts : post[i].from = Till => ringing' = ringing + 1
    BY <1>6 DEF CloseTab, PostOf
  <2>. QED BY <2>1, <2>2, <2>3, CallersKept
<1>7. ASSUME NEW y \in Syncs, StartSync(y) PROVE Callers'
  <2>1. sync[y].at = "off" /\ \A x \in Syncs \ {y} : sync'[x] = sync[x]
    BY <1>7 DEF StartSync
  <2>2. \A i \in Posts : post[i].from # y BY <2>1 DEF Callers
  <2>3. post' = post /\ ringing' = ringing BY <1>7 DEF StartSync
  <2>. QED BY <2>1, <2>2, <2>3, CallersKept
<1>8. ASSUME NEW y \in Syncs, SyncSends(y) PROVE Callers'
  <2>1. PICK i \in Posts, s \in sync[y].todo :
             /\ Vacant(post[i]) /\ Others(i)
             /\ post'[i].from = y /\ post'[i].sale = s
             /\ post'[i].key = IF sync[y].held[s] # NoKey
                               THEN sync[y].held[s] ELSE minted[s] + 1
             /\ \A x \in Syncs \ {y} : sync'[x] = sync[x]
             /\ sync'[y].at = "sent" /\ sync'[y].sale = s
    BY <1>8, SyncSendsStep
  <2>2. s \in Sales /\ s < ringing
    <3>1. s \in Sales OBVIOUS
    <3>2. s \in Nat /\ ringing \in Nat BY <3>1
    <3>. QED BY <3>1, <3>2 DEF Rows
  <2>3. post'[i].key # NoKey
    <3>1. minted[s] \in Nat BY <2>2
    <3>. QED BY <2>1, <3>1
  <2>4. \A j \in Posts : post[j].from # y BY <1>8 DEF SyncSends, Callers
  <2>5. ringing' = ringing BY <1>8 DEF SyncSends
  <2>. QED BY <2>1, <2>2, <2>3, <2>4, <2>5, CallersSent
<1>9. ASSUME NEW y \in Syncs, SyncHears(y) PROVE Callers'
  <2>1. PICK i \in Posts : post[i].from = y /\ Others(i) /\ Vacant(post'[i])
    BY <1>9, SyncHearsStep
  <2>2. \A j \in Posts : post'[j].from # y BY <2>1 DEF Others, Vacant, Callers
  <2>3. ringing' = ringing /\ \A x \in Syncs \ {y} : sync'[x] = sync[x]
    BY <1>9, SyncHearsStep DEF SyncHears, Rests
  <2>4. \A j \in Posts : Kept(post'[j], post[j]) \/ Vacant(post'[j])
    BY <2>1 DEF Others
  <2>5. \A j \in Posts : post[j].from = Till => post'[j].from = Till
    BY <2>1 DEF Others
  <2>. QED BY <2>2, <2>3, <2>4, <2>5, CallersKept
<1>10. ASSUME NEW y \in Syncs, SyncLoses(y) PROVE Callers'
  <2>1. PICK i \in Posts : /\ post[i].from = y /\ Others(i)
                           /\ Vacant(post'[i]) \/ Orphan(post'[i], post[i])
    BY <1>10, SyncLosesStep
  <2>2. \A j \in Posts : post'[j].from # y
    BY <2>1 DEF Others, Vacant, Orphan, Callers
  <2>3. ringing' = ringing /\ \A x \in Syncs \ {y} : sync'[x] = sync[x]
    BY <1>10, SyncLosesStep DEF SyncLoses, Rests
  <2>4. \A j \in Posts : \/ Kept(post'[j], post[j]) \/ Vacant(post'[j])
                         \/ Orphan(post'[j], post[j])
    BY <2>1 DEF Others
  <2>5. \A j \in Posts : post[j].from = Till => post'[j].from = Till
    BY <2>1 DEF Others
  <2>. QED BY <2>2, <2>3, <2>4, <2>5, CallersKept
<1>11. ASSUME NEW i \in Posts, Served(i) \/ Inserted(i) PROVE Callers'
  <2>1. \A j \in Posts : Kept(post'[j], post[j]) \/ Vacant(post'[j])
    BY <1>11 DEF Served, Inserted, Others, Kept
  <2>2. \A j \in Posts : post[j].from = Till => post'[j].from = Till
    BY <1>11 DEF Served, Inserted, Others
  <2>3. ringing' = ringing /\ sync' = sync BY <1>11 DEF Served, Inserted
  <2>. QED BY <2>1, <2>2, <2>3, CallersKept
<1>12. CASE UNCHANGED vars BY <1>12, CallersKept DEF vars
<1>. QED BY <1>1, <1>2, <1>3, <1>4, <1>5, <1>6, <1>7, <1>8, <1>9, <1>10, <1>11,
            <1>12, ServerStep DEF Next

-----------------------------------------------------------------------------
\* Rows: a sale gets its key as it is rung up, and a row keeps it. One sale at
\* a time.
RowOf(s) ==
    /\ s >= ringing =>
        /\ minted[s] = 0 /\ s \notin queue /\ s \notin paper /\ s \notin fellBack
        /\ \A y \in Syncs : s \notin sync[y].todo /\ s # sync[y].sale
    /\ s \notin Legacy =>
        /\ minted[s] <= 1
        /\ s \in queue => keyOf[s] = 1
        /\ \A y \in Syncs :
             s \in sync[y].todo \/ s = sync[y].sale => sync[y].held[s] = 1

\* Rows, sale by sale.
LEMMA RowsByRow ==
    Rows <=> /\ ringing > LegacySales /\ fellBack \cap Legacy = {}
             /\ \A s \in Sales : RowOf(s)
BY DEF Rows, RowOf

\* Rows in the next state, from its parts.
LEMMA RowsNext ==
    ASSUME ringing' > LegacySales, fellBack' \cap Legacy = {},
           \A s \in Sales : RowOf(s)'
    PROVE  Rows'
BY DEF Rows, RowOf

\* The sale being rung up has no key, no row and no receipt yet.
LEMMA RingingIsNew ==
    ASSUME TypeOK, Rows, ringing \in Sales
    PROVE  /\ ringing \notin Legacy /\ minted[ringing] = 0 /\ ringing \in Nat
           /\ ringing \notin queue \cup paper \cup fellBack
           /\ \A y \in Syncs : ringing \notin sync[y].todo /\ ringing # sync[y].sale
<1>1. ringing \in Nat /\ LegacySales \in Nat BY Typed, SaleAssumption
<1>2. ringing > LegacySales /\ RowOf(ringing) BY RowsByRow
<1>. QED BY <1>1, <1>2 DEF RowOf, Legacy

\* The step that generates the key of a sale (saveOfflineTransaction).
LEMMA RowSaved ==
    ASSUME TypeOK, Rows, SaveOffline(ringing), ringing \in Sales, sync' = sync,
           fellBack' = fellBack \/ fellBack' = fellBack \cup {ringing}
    PROVE  Rows'
<1>1. /\ ringing \notin Legacy /\ minted[ringing] = 0 /\ ringing \in Nat
      /\ \A y \in Syncs : ringing \notin sync[y].todo /\ ringing # sync[y].sale
  BY RingingIsNew
<1>2. ringing' > LegacySales
  <2>1. ringing > LegacySales /\ LegacySales \in Nat BY SaleAssumption, RowsByRow
  <2>. QED BY <1>1, <2>1 DEF SaveOffline
<1>3. fellBack' \cap Legacy = {} BY <1>1 DEF Rows
<1>4. ASSUME NEW s \in Sales PROVE RowOf(s)'
  <2>1. RowOf(s) /\ s \in Nat BY RowsByRow, Constants
  <2>2. /\ minted' = [minted EXCEPT ![ringing] = 1]
        /\ queue' = queue \cup {ringing}
        /\ keyOf' = [keyOf EXCEPT ![ringing] = 1]
        /\ paper' = paper \cup {ringing} /\ ringing' = ringing + 1
    BY <1>1, Typed DEF SaveOffline
  <2>3. CASE s = ringing
    <3>1. minted'[s] = 1 /\ keyOf'[s] = 1 BY <2>2, <2>3, Typed
    <3>2. ~(s >= ringing') BY <1>1, <2>2, <2>3
    <3>. QED BY <1>1, <2>3, <3>1, <3>2 DEF RowOf
  <2>4. CASE s # ringing
    <3>1. minted'[s] = minted[s] /\ keyOf'[s] = keyOf[s] BY <2>2, <2>4, Typed
    <3>2. s >= ringing' => s >= ringing BY <1>1, <2>1, <2>2
    <3>. QED BY <2>1, <2>2, <2>4, <3>1, <3>2 DEF RowOf
  <2>. QED BY <2>3, <2>4
<1>. QED BY ONLY <1>2, <1>3, <1>4, RowsNext

\* Every step that generates no key.
LEMMA RowsKept ==
    ASSUME TypeOK, Rows, ringing' = ringing \/ ringing' = ringing + 1,
           UNCHANGED <<minted, paper, fellBack>>,
           \A s \in Sales : s \in queue' =>
              \/ s \in queue /\ keyOf'[s] = keyOf[s]
              \/ \E y \in Syncs : /\ s \in sync[y].todo \/ s = sync[y].sale
                                  /\ keyOf'[s] = sync[y].held[s],
           \A s \in Sales, y \in Syncs : s \in sync'[y].todo \/ s = sync'[y].sale =>
              \/ s \in queue /\ sync'[y].held[s] = keyOf[s]
              \/ /\ s \in sync[y].todo \/ s = sync[y].sale
                 /\ sync'[y].held[s] = sync[y].held[s]
    PROVE  Rows'
<1>1. ringing \in Nat /\ LegacySales \in Nat /\ ringing > LegacySales
  BY Typed, SaleAssumption, RowsByRow
<1>2. ringing' > LegacySales BY <1>1
<1>3. fellBack' \cap Legacy = {} BY DEF Rows
<1>4. ASSUME NEW s \in Sales PROVE RowOf(s)'
  <2>1. RowOf(s) /\ s \in Nat BY RowsByRow, Constants
  <2>2. s >= ringing' => s >= ringing BY <1>1, <2>1
  <2>. QED BY <2>1, <2>2 DEF RowOf
<1>. QED BY ONLY <1>2, <1>3, <1>4, RowsNext

\* No step breaks Rows; EnsureKey only ever finds a legacy row without a key.
LEMMA NextRows == ASSUME IInv, [Next]_vars PROVE Rows'
<1>0. TypeOK /\ Callers /\ Rows BY DEF IInv
<1>. USE <1>0, Typed, Constants DEF client
<1>1. CASE RingOffline BY <1>1, RowSaved DEF RingOffline
<1>2. CASE RingOnline BY <1>2, RowsKept DEF RingOnline
<1>3. CASE TillHears BY <1>3, RowsKept DEF TillHears
<1>4. CASE TillLoses
  <2>1. ringing \in Sales BY <1>4, TillLosesStep DEF Callers
  <2>. QED BY <1>4, <2>1, RowSaved DEF TillLoses
<1>5. CASE ClearQueue BY <1>5, RowsKept DEF ClearQueue, RemovesFromQueue
<1>6. CASE CloseTab
  <2>1. \A y \in Syncs : sync'[y].todo = {} /\ sync'[y].sale = 0
    BY <1>6 DEF CloseTab, Off
  <2>. QED BY <1>6, <2>1, RowsKept DEF CloseTab
<1>7. ASSUME NEW y \in Syncs, StartSync(y) PROVE Rows'
  <2>1. /\ \A x \in Syncs \ {y} : sync'[x] = sync[x]
        /\ sync'[y].todo = queue /\ sync'[y].sale = 0 /\ sync'[y].held = keyOf
    BY <1>7 DEF StartSync
  <2>. QED BY <1>7, <2>1, RowsKept DEF StartSync
<1>8. ASSUME NEW y \in Syncs, SyncSends(y) PROVE Rows'
  <2>1. PICK s \in sync[y].todo :
             /\ EnsureKey(y, s)
             /\ \A x \in Syncs \ {y} : sync'[x] = sync[x]
             /\ sync'[y].sale = s
             /\ sync'[y].todo = sync[y].todo \ {s} /\ sync'[y].held = sync[y].held
    BY <1>8, SyncSendsStep
  <2>2. s \in Sales /\ RowOf(s) /\ s \in Nat BY RowsByRow
  <2>3. UNCHANGED <<ringing, paper, fellBack>> BY <1>8 DEF SyncSends
  <2>4. \A t \in Sales, x \in Syncs : t \in sync'[x].todo \/ t = sync'[x].sale =>
          /\ t \in sync[x].todo \/ t = sync[x].sale
          /\ sync'[x].held[t] = sync[x].held[t]
    BY <2>1
  <2>5. CASE sync[y].held[s] # NoKey
    <3>1. UNCHANGED <<queue, keyOf, minted>> BY <2>1, <2>5 DEF EnsureKey
    <3>. QED BY <2>3, <2>4, <3>1, RowsKept
  <2>6. CASE sync[y].held[s] = NoKey
    <3>1. s \in Legacy BY <2>1, <2>2, <2>6 DEF RowOf
    <3>2. /\ minted' = [minted EXCEPT ![s] = @ + 1] /\ queue' = queue \cup {s}
          /\ keyOf' = [keyOf EXCEPT ![s] = minted[s] + 1]
      BY <2>1, <2>6 DEF EnsureKey
    <3>3. s < ringing BY <2>2 DEF RowOf
    <3>4. ASSUME NEW t \in Sales PROVE RowOf(t)'
      <4>1. RowOf(t) BY RowsByRow
      <4>2. CASE t = s BY <2>2, <2>3, <3>1, <3>3, <4>2 DEF RowOf
      <4>3. CASE t # s
        <5>1. minted'[t] = minted[t] /\ keyOf'[t] = keyOf[t] BY <3>2, <4>3
        <5>2. t \in queue' => t \in queue BY <3>2, <4>3
        <5>. QED BY <2>3, <2>4, <4>1, <5>1, <5>2 DEF RowOf
      <4>. QED BY <4>2, <4>3
    <3>5. ringing' > LegacySales /\ fellBack' \cap Legacy = {} BY <2>3 DEF Rows
    <3>. QED BY ONLY <3>4, <3>5, RowsNext
  <2>. QED BY <2>5, <2>6
<1>9. ASSUME NEW y \in Syncs, SyncHears(y) PROVE Rows'
  <2>1. Rests(y) /\ UNCHANGED <<ringing, minted, paper, fellBack>>
    BY <1>9, SyncHearsStep DEF SyncHears
  <2>2. \/ /\ queue' = queue \ {sync[y].sale}
           /\ keyOf' = [keyOf EXCEPT ![sync[y].sale] = NoKey]
        \/ PutsBack(y)
    BY <1>9, SyncHearsStep
  <2>3. \A s \in Sales : s \in queue' =>
              \/ s \in queue /\ keyOf'[s] = keyOf[s]
              \/ s = sync[y].sale /\ keyOf'[s] = sync[y].held[s]
    BY <2>2 DEF PutsBack
  <2>4. \A s \in Sales, x \in Syncs : s \in sync'[x].todo \/ s = sync'[x].sale =>
           /\ s \in sync[x].todo \/ s = sync[x].sale
           /\ sync'[x].held[s] = sync[x].held[s]
    BY <2>1 DEF Rests
  <2>. QED BY <2>1, <2>3, <2>4, RowsKept
<1>10. ASSUME NEW y \in Syncs, SyncLoses(y) PROVE Rows'
  <2>1. Rests(y) /\ PutsBack(y) /\ UNCHANGED <<ringing, minted, paper, fellBack>>
    BY <1>10, SyncLosesStep DEF SyncLoses
  <2>3. \A s \in Sales : s \in queue' =>
              \/ s \in queue /\ keyOf'[s] = keyOf[s]
              \/ s = sync[y].sale /\ keyOf'[s] = sync[y].held[s]
    BY <2>1 DEF PutsBack
  <2>4. \A s \in Sales, x \in Syncs : s \in sync'[x].todo \/ s = sync'[x].sale =>
           /\ s \in sync[x].todo \/ s = sync[x].sale
           /\ sync'[x].held[s] = sync[x].held[s]
    BY <2>1 DEF Rests
  <2>. QED BY <2>1, <2>3, <2>4, RowsKept
<1>11. ASSUME NEW i \in Posts, Served(i) \/ Inserted(i) PROVE Rows'
  BY <1>11, RowsKept DEF Served, Inserted
<1>12. CASE UNCHANGED vars BY <1>12, RowsKept DEF vars
<1>. QED BY <1>1, <1>2, <1>3, <1>4, <1>5, <1>6, <1>7, <1>8, <1>9, <1>10, <1>11,
            <1>12, ServerStep DEF Next

-----------------------------------------------------------------------------
\* Keys: what is stored or sent was generated before.
LEMMA KeysKept ==
    ASSUME TypeOK, Keys,
           \A s \in Sales : minted'[s] \in Nat /\ minted'[s] >= minted[s],
           \A s \in Sales : keyOf'[s] \in {keyOf[s], 0, minted'[s]}
                              \/ \E y \in Syncs : keyOf'[s] = sync[y].held[s],
           \A s \in Sales : used'[s] = used[s]
              \/ \E i \in Posts : /\ post[i].sale = s
                                  /\ used'[s] = used[s] \cup ({post[i].key} \ {0}),
           \A s \in Sales, y \in Syncs :
              sync'[y].held[s] \in {sync[y].held[s], 0, keyOf[s]},
           \A i \in Posts : post'[i].sale \in Sales =>
              \/ post'[i].sale = post[i].sale /\ post'[i].key = post[i].key
              \/ post'[i].key \in {0, minted'[post'[i].sale]}
              \/ \E y \in Syncs : post'[i].key = sync[y].held[post'[i].sale]
    PROVE  Keys'
<1>. USE Typed, Constants
<1>0. \A i \in Posts : post[i].sale \in Sales =>
          post[i].key \in Nat /\ post[i].key <= minted[post[i].sale]
  <2>1. \A i \in Posts : post[i].key \in Nat BY ONLY TypeOK, Typed
  <2>. QED BY <2>1 DEF Keys
<1>a. \A s \in Sales, y \in Syncs :
          sync[y].held[s] \in Nat /\ sync[y].held[s] <= minted[s]
  <2>1. \A y \in Syncs : sync[y].held \in [Sales -> Nat] BY ONLY TypeOK, Typed
  <2>2. \A s \in Sales, y \in Syncs : sync[y].held[s] \in Nat BY ONLY <2>1
  <2>3. \A s \in Sales, y \in Syncs : sync[y].held[s] <= minted[s] BY DEF Keys
  <2>. QED BY ONLY <2>2, <2>3
<1>1. ASSUME NEW s \in Sales
      PROVE  /\ keyOf'[s] <= minted'[s] /\ used'[s] \subseteq 1..minted'[s]
             /\ \A y \in Syncs : sync'[y].held[s] <= minted'[s]
  <2>1. /\ minted[s] \in Nat /\ minted'[s] \in Nat /\ minted'[s] >= minted[s]
        /\ keyOf[s] \in Nat /\ keyOf[s] <= minted[s]
        /\ used[s] \subseteq 1..minted[s]
    BY DEF Keys
  <2>2. \A y \in Syncs : sync[y].held[s] \in Nat /\ sync[y].held[s] <= minted[s]
    BY <1>a
  <2>3. \A i \in Posts : post[i].sale = s =>
           post[i].key \in Nat /\ post[i].key <= minted[s]
    BY <1>0
  <2>4. keyOf'[s] <= minted'[s] BY <2>1, <2>2
  <2>5. \A y \in Syncs : sync'[y].held[s] <= minted'[s] BY <2>1, <2>2
  <2>6. 1..minted[s] \subseteq 1..minted'[s] BY <2>1
  <2>7. \A k \in Nat \ {0} : k <= minted[s] => k \in 1..minted'[s] BY <2>1
  <2>8. used'[s] \subseteq 1..minted'[s] BY <2>1, <2>3, <2>6, <2>7
  <2>. QED BY <2>4, <2>5, <2>8
<1>2. ASSUME NEW i \in Posts, post'[i].sale \in Sales
      PROVE  post'[i].key <= minted'[post'[i].sale]
  <2>. DEFINE s == post'[i].sale
  <2>1. s \in Sales BY <1>2
  <2>2. /\ minted[s] \in Nat /\ minted'[s] \in Nat /\ minted'[s] >= minted[s]
    BY <2>1
  <2>3. \A y \in Syncs : sync[y].held[s] \in Nat /\ sync[y].held[s] <= minted[s]
    BY <1>a, <2>1
  <2>4. post[i].sale = s => post[i].key \in Nat /\ post[i].key <= minted[s]
    BY <1>0, <2>1
  <2>. QED BY <1>2, <2>2, <2>3, <2>4
<1>. QED BY <1>1, <1>2 DEF Keys

\* No step breaks Keys.
LEMMA NextKeys == ASSUME IInv, [Next]_vars PROVE Keys'
<1>0. TypeOK /\ Callers /\ Keys BY DEF IInv
<1>t. \A s \in Sales : minted[s] \in Nat /\ minted[s] >= minted[s]
  BY <1>0, Typed
<1>. USE <1>0, <1>t, Typed, Constants DEF client
<1>1. ASSUME SaveOffline(ringing), ringing \in Sales, sync' = sync, used' = used,
             \A i \in Posts : \/ post'[i] = post[i] \/ Vacant(post'[i])
                              \/ Orphan(post'[i], post[i])
      PROVE  Keys'
  <2>1. minted' = [minted EXCEPT ![ringing] = @ + 1]
          /\ keyOf' = [keyOf EXCEPT ![ringing] = minted[ringing] + 1]
    BY <1>1 DEF SaveOffline
  <2>2. \A s \in Sales : /\ minted'[s] \in Nat /\ minted'[s] >= minted[s]
                         /\ keyOf'[s] \in {keyOf[s], minted'[s]}
    BY <1>1, <2>1
  <2>. QED BY <1>1, <2>2, KeysKept DEF Vacant, Orphan
<1>2. CASE RingOffline BY <1>1, <1>2 DEF RingOffline, server
<1>3. CASE TillLoses
  <2>1. PICK i \in Posts : /\ post[i].from = Till /\ Others(i)
                           /\ Vacant(post'[i]) \/ Orphan(post'[i], post[i])
    BY <1>3, TillLosesStep
  <2>2. ringing \in Sales BY <2>1 DEF Callers
  <2>. QED BY <1>1, <1>3, <2>1, <2>2 DEF TillLoses, Others, server
<1>4. CASE RingOnline
  <2>1. PICK i \in Posts : /\ Others(i) /\ post'[i].key = NoKey
    BY <1>4, SentPost DEF RingOnline
  <2>. QED BY <1>4, <2>1, KeysKept DEF RingOnline, Others, server
<1>5. CASE TillHears
  <2>1. PICK i \in Posts : Others(i) /\ Vacant(post'[i]) BY <1>5, TillHearsStep
  <2>. QED BY <1>5, <2>1, KeysKept DEF TillHears, Others, Vacant, server
<1>6. CASE ClearQueue
  BY <1>6, KeysKept DEF ClearQueue, RemovesFromQueue, server
<1>7. CASE CloseTab
  <2>1. \A s \in Sales, y \in Syncs : sync'[y].held[s] = 0
    BY <1>7 DEF CloseTab, Off
  <2>2. \A i \in Posts : post'[i].sale \in Sales =>
           post'[i].sale = post[i].sale /\ post'[i].key = post[i].key
    BY <1>7, CloseTabStep DEF Vacant, Orphan
  <2>. QED BY <1>7, <2>1, <2>2, KeysKept DEF CloseTab, server
<1>8. ASSUME NEW y \in Syncs, StartSync(y) PROVE Keys'
  <2>1. \A s \in Sales, x \in Syncs : sync'[x].held[s] \in {sync[x].held[s], keyOf[s]}
    BY <1>8 DEF StartSync
  <2>. QED BY <1>8, <2>1, KeysKept DEF StartSync, server
<1>9. ASSUME NEW y \in Syncs, SyncSends(y) PROVE Keys'
  <2>1. PICK i \in Posts, s \in sync[y].todo :
             /\ Others(i) /\ post'[i].sale = s
             /\ post'[i].key = IF sync[y].held[s] # NoKey
                               THEN sync[y].held[s] ELSE minted[s] + 1
             /\ EnsureKey(y, s)
             /\ \A x \in Syncs \ {y} : sync'[x] = sync[x]
             /\ sync'[y].held = sync[y].held
    BY <1>9, SyncSendsStep
  <2>2. s \in Sales /\ used' = used BY <1>9 DEF SyncSends, server
  <2>3. \A x \in Syncs : sync'[x].held = sync[x].held BY <2>1
  <2>4. CASE sync[y].held[s] # NoKey
    <3>1. UNCHANGED <<keyOf, minted>> BY <2>1, <2>4 DEF EnsureKey
    <3>. QED BY <2>1, <2>2, <2>3, <2>4, <3>1, KeysKept DEF Others
  <2>5. CASE sync[y].held[s] = NoKey
    <3>1. /\ minted' = [minted EXCEPT ![s] = @ + 1]
          /\ keyOf' = [keyOf EXCEPT ![s] = minted[s] + 1]
      BY <2>1, <2>5 DEF EnsureKey
    <3>2. \A t \in Sales : /\ minted'[t] \in Nat /\ minted'[t] >= minted[t]
                           /\ keyOf'[t] \in {keyOf[t], minted'[t]}
      BY <2>2, <3>1
    <3>3. post'[i].key = minted'[s] BY <2>1, <2>2, <2>5, <3>1
    <3>. QED BY <2>1, <2>2, <2>3, <3>2, <3>3, KeysKept DEF Others
  <2>. QED BY <2>4, <2>5
<1>10. ASSUME NEW y \in Syncs, Rests(y), UNCHANGED <<minted, used>>,
              \/ keyOf' = [keyOf EXCEPT ![sync[y].sale] = NoKey]
              \/ PutsBack(y),
              \E i \in Posts :
                 Others(i) /\ (Vacant(post'[i]) \/ Orphan(post'[i], post[i]))
       PROVE  Keys'
  <2>1. \A s \in Sales : keyOf'[s] \in {keyOf[s], 0, sync[y].held[s]}
    BY <1>10 DEF PutsBack
  <2>2. \A s \in Sales, x \in Syncs : sync'[x].held[s] \in {sync[x].held[s], 0}
    BY <1>10 DEF Rests
  <2>3. \A i \in Posts : post'[i].sale \in Sales =>
           post'[i].sale = post[i].sale /\ post'[i].key = post[i].key
    BY <1>10 DEF Others, Vacant, Orphan
  <2>. QED BY <1>10, <2>1, <2>2, <2>3, KeysKept
<1>11. ASSUME NEW y \in Syncs, SyncHears(y) PROVE Keys'
  BY <1>10, <1>11, SyncHearsStep DEF SyncHears, server
<1>12. ASSUME NEW y \in Syncs, SyncLoses(y) PROVE Keys'
  BY <1>10, <1>12, SyncLosesStep DEF SyncLoses, server
<1>13. ASSUME NEW i \in Posts, Served(i) PROVE Keys'
  BY <1>13, KeysKept DEF Served, Others, Vacant
<1>14. ASSUME NEW i \in Posts, Inserted(i) PROVE Keys'
  <2>1. \A s \in Sales :
           \/ used'[s] = used[s]
           \/ post[i].sale = s /\ used'[s] = used[s] \cup ({post[i].key} \ {0})
    <3>1. used' = [used EXCEPT ![post[i].sale] =
                     used[post[i].sale] \cup ({post[i].key} \ {0})]
      BY <1>14 DEF Inserted
    <3>2. used \in [Sales -> SUBSET Nat] OBVIOUS
    <3>3. ASSUME NEW s \in Sales, post[i].sale # s PROVE used'[s] = used[s]
      BY ONLY <3>1, <3>2, <3>3
    <3>4. ASSUME NEW s \in Sales, post[i].sale = s
          PROVE  used'[s] = used[s] \cup ({post[i].key} \ {0})
      BY ONLY <3>1, <3>2, <3>4
    <3>. QED BY <3>3, <3>4
  <2>2. \A j \in Posts : post'[j].sale = post[j].sale /\ post'[j].key = post[j].key
    BY <1>14 DEF Inserted, Others
  <2>. QED BY <1>14, <2>1, <2>2, KeysKept DEF Inserted
<1>15. CASE UNCHANGED vars BY <1>15, KeysKept DEF vars, server
<1>. QED BY <1>2, <1>3, <1>4, <1>5, <1>6, <1>7, <1>8, <1>9, <1>11, <1>12, <1>13,
            <1>14, <1>15, ServerStep DEF Next

-----------------------------------------------------------------------------
\* Recorded: an answer of success, a used key and a receipt that left the queue
\* all mean a record.
LEMMA RecordedKept ==
    ASSUME Recorded, UNCHANGED <<recorded, used>>,
           \A i \in Posts : post'[i].at \in {"recorded", "ok"} =>
              recorded[post'[i].sale] > 0,
           \A s \in Sales : s >= ringing' /\ recorded[s] > 0 =>
              \E i \in Posts : post'[i].from = Till /\ post'[i].sale = s,
           \A s \in paper' \ cleared' : s \in queue' \/ recorded[s] > 0
    PROVE  Recorded'
BY DEF Recorded, PostOf, PaperReceiptIsKept

\* No step breaks Recorded: a row is deleted on an answer of success only.
LEMMA NextRecorded == ASSUME IInv, [Next]_vars PROVE Recorded'
<1>0. TypeOK /\ Callers /\ Recorded BY DEF IInv
<1>. USE <1>0, Typed, Constants DEF client, server, clears
<1>p. \A i \in Posts : post[i].at \in {"recorded", "ok"} => recorded[post[i].sale] > 0
  BY DEF Recorded
<1>q. \A s \in Sales : s >= ringing /\ recorded[s] > 0 =>
          \E i \in Posts : post[i].from = Till /\ post[i].sale = s
  BY DEF Recorded, PostOf
<1>r. \A s \in paper \ cleared : s \in queue \/ recorded[s] > 0
  BY DEF Recorded, PaperReceiptIsKept
<1>s. \A s \in Sales : recorded[s] > 0 =>
         \/ s < ringing
         \/ s = ringing /\ \E i \in Posts : post[i].from = Till
  <2>1. \A i \in Posts : post[i].from = Till => post[i].sale = ringing BY DEF Callers
  <2>2. \A s \in Sales : s \in Nat OBVIOUS
  <2>. QED BY <1>q, <2>1, <2>2
\* POSTs that go away leave no promise behind.
<1>g. ASSUME \A i \in Posts : \/ post'[i] = post[i] \/ Vacant(post'[i])
                              \/ Orphan(post'[i], post[i])
      PROVE  \A i \in Posts : post'[i].at \in {"recorded", "ok"} =>
                recorded[post'[i].sale] > 0
  BY <1>g, <1>p DEF Vacant, Orphan
<1>1. CASE RingOffline
  <2>1. \A i \in Posts : post[i].from # Till BY <1>1 DEF RingOffline, PostOf
  <2>2. \A s \in Sales : recorded[s] > 0 => ~(s >= ringing + 1) BY <1>s
  <2>3. /\ paper' = paper \cup {ringing} /\ queue' = queue \cup {ringing}
        /\ ringing' = ringing + 1
        /\ UNCHANGED <<post, recorded, used, cleared>>
    BY <1>1 DEF RingOffline, SaveOffline
  <2>. QED BY <1>p, <1>r, <2>2, <2>3, RecordedKept
<1>2. CASE RingOnline
  <2>1. PICK i \in Posts :
             /\ Vacant(post[i]) /\ Others(i)
             /\ post'[i].from = Till /\ post'[i].sale = ringing
             /\ post'[i].at = "arrived"
    BY <1>2, SentPost DEF RingOnline
  <2>2. \A j \in Posts : post[j].from # Till BY <1>2 DEF RingOnline, PostOf
  <2>3. UNCHANGED <<ringing, paper, queue, recorded, used, cleared>>
    BY <1>2 DEF RingOnline
  <2>4. \A j \in Posts : post'[j].at \in {"recorded", "ok"} =>
           recorded[post'[j].sale] > 0
    BY <1>p, <2>1 DEF Others
  <2>5. \A s \in Sales : recorded[s] > 0 => ~(s >= ringing) BY <1>q, <2>2
  <2>. QED BY <1>r, <2>3, <2>4, <2>5, RecordedKept
<1>3. CASE TillHears
  <2>1. \A i \in Posts : post'[i] = post[i] \/ Vacant(post'[i])
    BY <1>3, TillHearsStep DEF Others
  <2>2. \A s \in Sales : recorded[s] > 0 => ~(s >= ringing + 1) BY <1>s
  <2>3. ringing' = ringing + 1 /\ UNCHANGED <<paper, queue, recorded, used, cleared>>
    BY <1>3 DEF TillHears
  <2>. QED BY <1>g, <1>r, <2>1, <2>2, <2>3, RecordedKept
<1>4. CASE TillLoses
  <2>1. \A i \in Posts : \/ post'[i] = post[i] \/ Vacant(post'[i])
                         \/ Orphan(post'[i], post[i])
    BY <1>4, TillLosesStep DEF Others
  <2>2. \A s \in Sales : recorded[s] > 0 => ~(s >= ringing + 1) BY <1>s
  <2>3. /\ paper' = paper \cup {ringing} /\ queue' = queue \cup {ringing}
        /\ ringing' = ringing + 1
        /\ UNCHANGED <<recorded, used, cleared>>
    BY <1>4 DEF TillLoses, SaveOffline
  <2>. QED BY <1>g, <1>r, <2>1, <2>2, <2>3, RecordedKept
<1>5. CASE ClearQueue
  <2>1. /\ cleared' = cleared \cup queue
        /\ UNCHANGED <<ringing, paper, post, recorded, used>>
    BY <1>5 DEF ClearQueue
  <2>. QED BY <1>p, <1>q, <1>r, <2>1, RecordedKept
<1>6. CASE CloseTab
  <2>1. \A i \in Posts : \/ post'[i] = post[i] \/ Vacant(post'[i])
                         \/ Orphan(post'[i], post[i])
    BY <1>6, CloseTabStep
  <2>2. \A s \in Sales : recorded[s] > 0 => ~(s >= ringing')
    BY <1>s, <1>6 DEF CloseTab, PostOf
  <2>3. UNCHANGED <<paper, queue, recorded, used, cleared>> BY <1>6 DEF CloseTab
  <2>. QED BY <1>g, <1>r, <2>1, <2>2, <2>3, RecordedKept
<1>7. ASSUME NEW y \in Syncs, StartSync(y) PROVE Recorded'
  <2>1. UNCHANGED <<ringing, paper, queue, cleared, post, recorded, used>>
    BY <1>7 DEF StartSync
  <2>. QED BY <1>p, <1>q, <1>r, <2>1, RecordedKept
<1>8. ASSUME NEW y \in Syncs, SyncSends(y) PROVE Recorded'
  <2>1. PICK i \in Posts, s \in sync[y].todo :
             /\ Vacant(post[i]) /\ Others(i)
             /\ post'[i].at = "arrived" /\ EnsureKey(y, s)
    BY <1>8, SyncSendsStep
  <2>2. queue \subseteq queue' BY <2>1 DEF EnsureKey
  <2>3. UNCHANGED <<ringing, paper, recorded, used, cleared>> BY <1>8 DEF SyncSends
  <2>4. \A j \in Posts : post'[j].at \in {"recorded", "ok"} =>
           recorded[post'[j].sale] > 0
    BY <1>p, <2>1 DEF Others
  <2>5. \A j \in Posts : post[j].from = Till => post'[j] = post[j]
    BY <2>1 DEF Others, Vacant
  <2>. QED BY <1>q, <1>r, <2>2, <2>3, <2>4, <2>5, RecordedKept
<1>9. ASSUME NEW y \in Syncs, SyncHears(y) PROVE Recorded'
  <2>1. PICK i \in Posts :
                /\ post[i].from = y /\ Others(i) /\ Vacant(post'[i])
                /\ \/ /\ post[i].at = "ok"
                      /\ queue' = queue \ {sync[y].sale}
                   \/ PutsBack(y)
    BY <1>9, SyncHearsStep
  <2>2. post[i].sale = sync[y].sale BY <2>1 DEF Callers
  <2>3. \A s \in queue : s \in queue' \/ recorded[s] > 0
    BY <1>p, <2>1, <2>2 DEF PutsBack
  <2>4. UNCHANGED <<ringing, paper, recorded, used, cleared>> BY <1>9 DEF SyncHears
  <2>5. \A j \in Posts : post[j].from = Till => post'[j] = post[j]
    BY <2>1 DEF Others
  <2>6. \A j \in Posts : post'[j] = post[j] \/ Vacant(post'[j]) BY <2>1 DEF Others
  <2>. QED BY <1>g, <1>q, <1>r, <2>3, <2>4, <2>5, <2>6, RecordedKept
<1>10. ASSUME NEW y \in Syncs, SyncLoses(y) PROVE Recorded'
  <2>1. PICK i \in Posts : /\ post[i].from = y /\ Others(i)
                           /\ Vacant(post'[i]) \/ Orphan(post'[i], post[i])
    BY <1>10, SyncLosesStep
  <2>2. queue \subseteq queue' BY <1>10 DEF SyncLoses, PutsBack
  <2>3. UNCHANGED <<ringing, paper, recorded, used, cleared>> BY <1>10 DEF SyncLoses
  <2>4. \A j \in Posts : post[j].from = Till => post'[j] = post[j]
    BY <2>1 DEF Others
  <2>5. \A j \in Posts : \/ post'[j] = post[j] \/ Vacant(post'[j])
                         \/ Orphan(post'[j], post[j])
    BY <2>1 DEF Others
  <2>. QED BY <1>g, <1>q, <1>r, <2>2, <2>3, <2>4, <2>5, RecordedKept
<1>11. ASSUME NEW i \in Posts, Served(i) PROVE Recorded'
  <2>1. UNCHANGED <<ringing, paper, queue, cleared, recorded, used>>
    BY <1>11 DEF Served
  <2>2. \A j \in Posts : post'[j].at \in {"recorded", "ok"} =>
           recorded[post'[j].sale] > 0
    BY <1>p, <1>11 DEF Served, Others, Vacant
  <2>3. \A j \in Posts : post[j].from = Till =>
           post'[j].from = Till /\ post'[j].sale = post[j].sale
    BY <1>11 DEF Served, Others
  <2>. QED BY <1>q, <1>r, <2>1, <2>2, <2>3, RecordedKept
<1>12. ASSUME NEW i \in Posts, Inserted(i) PROVE Recorded'
  <2>1. post[i].sale \in Sales BY <1>12 DEF Inserted, Callers
  <2>2. /\ \A s \in Sales : recorded[s] > 0 => recorded'[s] > 0
        /\ recorded'[post[i].sale] > 0
        /\ \A s \in Sales : s # post[i].sale =>
              recorded'[s] = recorded[s] /\ used'[s] = used[s]
    BY <1>12, <2>1 DEF Inserted
  <2>3. UNCHANGED <<ringing, paper, queue, cleared>> BY <1>12 DEF Inserted
  <2>4. \A j \in Posts : /\ post'[j].from = post[j].from
                         /\ post'[j].sale = post[j].sale
                         /\ j # i => post'[j] = post[j]
    BY <1>12 DEF Inserted, Others
  <2>5. \A s \in Sales : used'[s] # {} => recorded'[s] > 0
    BY <2>2 DEF Recorded
  <2>6. \A j \in Posts : post'[j].at \in {"recorded", "ok"} =>
           recorded'[post'[j].sale] > 0
    <3>1. \A j \in Posts : post[j].at \in {"recorded", "ok"} => post[j].sale \in Sales
      BY DEF Callers
    <3>. QED BY <1>p, <2>2, <2>4, <3>1
  <2>7. \A s \in Sales : s >= ringing' /\ recorded'[s] > 0 =>
          \E j \in Posts : post'[j].from = Till /\ post'[j].sale = s
    <3>1. SUFFICES ASSUME NEW s \in Sales, s >= ringing, recorded'[s] > 0
                   PROVE \E j \in Posts : post[j].from = Till /\ post[j].sale = s
      BY <2>3, <2>4
    <3>2. CASE s = post[i].sale BY <3>1, <3>2 DEF Callers
    <3>3. CASE s # post[i].sale BY <1>q, <2>2, <3>1, <3>3
    <3>. QED BY <3>2, <3>3
  <2>8. PaperReceiptIsKept' BY <1>r, <2>2, <2>3 DEF PaperReceiptIsKept
  <2>. QED BY <2>5, <2>6, <2>7, <2>8 DEF Recorded, PostOf
<1>13. CASE UNCHANGED vars BY <1>p, <1>q, <1>r, <1>13, RecordedKept DEF vars
<1>. QED BY <1>1, <1>2, <1>3, <1>4, <1>5, <1>6, <1>7, <1>8, <1>9, <1>10, <1>11,
            <1>12, <1>13, ServerStep DEF Next

-----------------------------------------------------------------------------
\* Counting: the first POST of a sale, the only one without a key, is followed
\* by a key only if it was given up.
LEMMA CountingKept ==
    ASSUME TypeOK, Counting, UNCHANGED <<recorded, used>>, fellBack \subseteq fellBack',
           \A i \in Posts, s \in Sales :
              post'[i].sale = s /\ post'[i].key = NoKey =>
                 /\ Keyless(i, s)
                 /\ post'[i].at \in {"arrived", "looked", "checked"} =>
                      post[i].at \in {"arrived", "looked", "checked"},
           \A s \in Sales :
              \/ minted'[s] = minted[s]
              \/ /\ minted'[s] = minted[s] + 1
                 /\ \/ s \in Legacy \cup fellBack'
                    \/ recorded[s] = 0 /\ \A i \in Posts : ~Keyless(i, s)
    PROVE  Counting'
<1>1. ASSUME NEW s \in Sales, NEW i \in Posts, NEW j \in Posts,
             post'[i].sale = s /\ post'[i].key = NoKey,
             post'[j].sale = s /\ post'[j].key = NoKey
      PROVE  i = j
  BY <1>1 DEF Counting
<1>2. ASSUME NEW s \in Sales, minted'[s] <= 1
      PROVE  /\ recorded[s] <= Keyed(s) + 1
             /\ \A i \in Posts :
                  (post'[i].sale = s /\ post'[i].key = NoKey)
                    /\ post'[i].at \in {"arrived", "looked", "checked"}
                      => recorded[s] <= Keyed(s)
             /\ s \notin fellBack' /\ (minted'[s] = 1 \/ s \in Legacy) =>
                  /\ recorded[s] <= Keyed(s)
                  /\ \A i \in Posts : ~(post'[i].sale = s /\ post'[i].key = NoKey)
  <2>1. minted[s] \in Nat /\ recorded[s] \in Nat /\ Keyed(s) \in {0, 1}
    BY Typed DEF Keyed
  <2>2. minted[s] <= 1 BY <1>2, <2>1
  <2>3. /\ recorded[s] <= Keyed(s) + 1
        /\ \A i \in Posts :
             Keyless(i, s) /\ post[i].at \in {"arrived", "looked", "checked"}
               => recorded[s] <= Keyed(s)
        /\ s \notin fellBack /\ (minted[s] = 1 \/ s \in Legacy) =>
             recorded[s] <= Keyed(s) /\ \A i \in Posts : ~Keyless(i, s)
    BY <2>2 DEF Counting
  <2>4. ASSUME s \notin fellBack', minted'[s] = 1 \/ s \in Legacy
        PROVE  recorded[s] <= Keyed(s) /\ \A i \in Posts : ~Keyless(i, s)
    BY <1>2, <2>1, <2>3, <2>4
  <2>5. ASSUME NEW i \in Posts, post'[i].sale = s, post'[i].key = NoKey
        PROVE  /\ Keyless(i, s)
               /\ post'[i].at \in {"arrived", "looked", "checked"} =>
                    recorded[s] <= Keyed(s)
    BY <2>3, <2>5
  <2>6. recorded[s] <= Keyed(s) + 1 BY <2>3
  <2>7. \A i \in Posts :
           (post'[i].sale = s /\ post'[i].key = NoKey)
             /\ post'[i].at \in {"arrived", "looked", "checked"}
               => recorded[s] <= Keyed(s)
    BY <2>5
  <2>8. s \notin fellBack' /\ (minted'[s] = 1 \/ s \in Legacy) =>
                  /\ recorded[s] <= Keyed(s)
                  /\ \A i \in Posts : ~(post'[i].sale = s /\ post'[i].key = NoKey)
    BY <2>4, <2>5
  <2>. QED BY <2>6, <2>7, <2>8
<1>3. \A s \in Sales : Keyed(s)' = Keyed(s) /\ recorded'[s] = recorded[s]
  BY DEF Keyed
<1>. QED BY <1>1, <1>2, <1>3 DEF Counting, Keyless

\* The commit of a new record: under the key, once; or without one, by the first POST.
LEMMA CountingInserted ==
    ASSUME TypeOK, Callers, Keys, Counting, NEW i \in Posts, Inserted(i)
    PROVE  Counting'
<1>. USE Typed, Constants DEF client
<1>1. post[i].sale \in Sales BY DEF Inserted, Callers
<1>2. /\ minted' = minted /\ fellBack' = fellBack
      /\ \A s \in Sales \ {post[i].sale} :
            recorded'[s] = recorded[s] /\ used'[s] = used[s]
      /\ recorded'[post[i].sale] = recorded[post[i].sale] + 1
      /\ used'[post[i].sale] = used[post[i].sale] \cup ({post[i].key} \ {0})
  BY <1>1 DEF Inserted
<1>3. \A j \in Posts : /\ post'[j].sale = post[j].sale /\ post'[j].key = post[j].key
                       /\ j # i => post'[j].at = post[j].at
  BY DEF Inserted, Others
<1>4. \A s \in Sales, j \in Posts : Keyless(j, s)' <=> Keyless(j, s)
  BY <1>3 DEF Keyless
<1>5. ASSUME NEW s \in Sales, minted[s] <= 1
      PROVE  /\ recorded'[s] <= Keyed(s)' + 1
             /\ \A j \in Posts :
                  Keyless(j, s) /\ post'[j].at \in {"arrived", "looked", "checked"}
                    => recorded'[s] <= Keyed(s)'
             /\ s \notin fellBack /\ (minted[s] = 1 \/ s \in Legacy) =>
                  /\ recorded'[s] <= Keyed(s)'
                  /\ \A j \in Posts : ~Keyless(j, s)
  <2>1. minted[s] \in Nat /\ recorded[s] \in Nat /\ Keyed(s) \in {0, 1}
    BY DEF Keyed
  <2>2. /\ recorded[s] <= Keyed(s) + 1
        /\ \A j \in Posts :
             Keyless(j, s) /\ post[j].at \in {"arrived", "looked", "checked"}
               => recorded[s] <= Keyed(s)
        /\ s \notin fellBack /\ (minted[s] = 1 \/ s \in Legacy) =>
             recorded[s] <= Keyed(s) /\ \A j \in Posts : ~Keyless(j, s)
    BY <1>5 DEF Counting
  <2>3. CASE s # post[i].sale
    <3>1. Keyed(s)' = Keyed(s) /\ recorded'[s] = recorded[s]
      BY <1>2, <2>3 DEF Keyed
    <3>2. \A j \in Posts : Keyless(j, s) => post'[j].at = post[j].at
      BY <1>3, <2>3 DEF Keyless
    <3>. QED BY <2>2, <3>1, <3>2
  <2>4. CASE s = post[i].sale /\ post[i].key = NoKey
    <3>1. Keyless(i, s) BY <2>4 DEF Keyless
    <3>2. recorded[s] <= Keyed(s) BY <2>2, <3>1 DEF Inserted
    <3>3. \A j \in Posts : Keyless(j, s) => j = i BY <3>1 DEF Counting
    <3>4. post'[i].at = "recorded" BY DEF Inserted
    <3>5. used'[s] = used[s] /\ recorded'[s] = recorded[s] + 1 BY <1>2, <2>4
    <3>6. Keyed(s)' = Keyed(s) BY <3>5 DEF Keyed
    <3>. QED BY <2>1, <2>2, <3>1, <3>2, <3>3, <3>4, <3>5, <3>6
  <2>5. CASE s = post[i].sale /\ post[i].key # NoKey
    <3>1. post[i].key = 1
      <4>1. post[i].key <= minted[s] BY <2>5 DEF Keys
      <4>2. post[i].key \in Nat OBVIOUS
      <4>. QED BY <1>5, <2>1, <2>5, <4>1, <4>2
    <3>2. used[s] \subseteq 1..minted[s] BY DEF Keys
    <3>3. used[s] \subseteq {1} BY <1>5, <2>1, <3>2
    <3>4. 1 \notin used[s] BY <2>5, <3>1 DEF Inserted
    <3>5. used[s] = {} BY <3>3, <3>4
    <3>6. used'[s] # {} /\ recorded'[s] = recorded[s] + 1 BY <1>2, <2>5, <3>1
    <3>7. Keyed(s) = 0 /\ Keyed(s)' = 1 BY <3>5, <3>6 DEF Keyed
    <3>8. \A j \in Posts : Keyless(j, s) => post'[j].at = post[j].at
      BY <1>3, <2>5 DEF Keyless
    <3>. QED BY <2>1, <2>2, <3>6, <3>7, <3>8
  <2>. QED BY <2>3, <2>4, <2>5
<1>6. \A s \in Sales : \A j, k \in Posts : Keyless(j, s) /\ Keyless(k, s) => j = k
  BY DEF Counting
<1>. QED BY <1>2, <1>4, <1>5, <1>6 DEF Counting

\* No step breaks Counting.
LEMMA NextCounting == ASSUME IInv, [Next]_vars PROVE Counting'
<1>0. TypeOK /\ Callers /\ Rows /\ Keys /\ Recorded /\ Counting BY DEF IInv
<1>. USE <1>0, Typed, Constants DEF client, server
\* A sale that is about to be rung up has no record and no POST.
<1>n. ASSUME PostOf(Till) = {}, ringing \in Sales
      PROVE  recorded[ringing] = 0 /\ \A i \in Posts : post[i].sale # ringing
  <2>1. \A i \in Posts : post[i].from # Till BY <1>n DEF PostOf
  <2>2. ringing \in Nat /\ ringing >= ringing OBVIOUS
  <2>3. ~(recorded[ringing] > 0) BY <1>n, <2>2 DEF Recorded
  <2>4. recorded[ringing] \in Nat BY <1>n
  <2>. QED BY <2>1, <2>2, <2>3, <2>4 DEF Callers
\* POSTs that go away or go on are no new ones without a key.
<1>g. ASSUME \A i \in Posts : \/ post'[i] = post[i] \/ Vacant(post'[i])
                              \/ Orphan(post'[i], post[i])
      PROVE  \A i \in Posts, s \in Sales :
                post'[i].sale = s /\ post'[i].key = NoKey =>
                   Keyless(i, s) /\ post'[i].at = post[i].at
  BY <1>g DEF Keyless, Vacant, Orphan
<1>1. CASE RingOffline
  <2>1. /\ minted' = [minted EXCEPT ![ringing] = @ + 1]
        /\ UNCHANGED <<recorded, used, fellBack, post>>
    BY <1>1 DEF RingOffline, SaveOffline
  <2>2. recorded[ringing] = 0 /\ \A i \in Posts : ~Keyless(i, ringing)
    BY <1>1, <1>n DEF RingOffline, Keyless
  <2>3. \A s \in Sales : s # ringing => minted'[s] = minted[s] BY <2>1
  <2>4. minted'[ringing] = minted[ringing] + 1 BY <1>1, <2>1 DEF RingOffline
  <2>. QED BY <1>g, <2>1, <2>2, <2>3, <2>4, CountingKept
<1>2. CASE RingOnline
  <2>1. PICK i \in Posts :
          /\ Vacant(post[i]) /\ Others(i)
          /\ post'[i].from = Till /\ post'[i].sale = ringing /\ post'[i].key = NoKey
          /\ post'[i].at = "arrived"
    BY <1>2, SentPost DEF RingOnline
  <2>2. UNCHANGED <<minted, recorded, used, fellBack>> /\ ringing \in Sales
    BY <1>2 DEF RingOnline
  <2>3. recorded[ringing] = 0 /\ \A j \in Posts : post[j].sale # ringing
    BY <1>2, <1>n DEF RingOnline
  <2>4. minted[ringing] = 0 /\ ringing \notin Legacy BY <2>2, RingingIsNew
  <2>5. \A s \in Sales : Keyed(s)' = Keyed(s) /\ Keyed(s) \in {0, 1}
    BY <2>2 DEF Keyed
  <2>6. \A s \in Sales, j \in Posts :
           Keyless(j, s)' =>
              \/ s = ringing /\ j = i
              \/ j # i /\ Keyless(j, s) /\ post'[j].at = post[j].at
    BY <2>1 DEF Keyless, Others
  <2>7. ASSUME NEW s \in Sales, NEW j \in Posts, NEW k \in Posts,
               Keyless(j, s)', Keyless(k, s)'
        PROVE  j = k
    BY <2>3, <2>6, <2>7 DEF Counting, Keyless
  <2>8. ASSUME NEW s \in Sales, minted[s] <= 1
        PROVE  /\ recorded[s] <= Keyed(s) + 1
               /\ \A j \in Posts :
                    Keyless(j, s)' /\ post'[j].at \in {"arrived", "looked", "checked"}
                      => recorded[s] <= Keyed(s)
               /\ s \notin fellBack /\ (minted[s] = 1 \/ s \in Legacy) =>
                    /\ recorded[s] <= Keyed(s)
                    /\ \A j \in Posts : ~Keyless(j, s)'
    <3>1. CASE s = ringing BY <2>3, <2>4, <2>5, <3>1
    <3>2. CASE s # ringing BY <2>6, <2>8, <3>2 DEF Counting
    <3>. QED BY <3>1, <3>2
  <2>. QED BY <2>2, <2>5, <2>7, <2>8 DEF Counting
<1>3. CASE TillHears
  <2>1. \A i \in Posts : post'[i] = post[i] \/ Vacant(post'[i])
    BY <1>3, TillHearsStep DEF Others
  <2>2. UNCHANGED <<minted, recorded, used, fellBack>> BY <1>3 DEF TillHears
  <2>. QED BY <1>g, <2>1, <2>2, CountingKept
<1>4. CASE TillLoses
  <2>1. \A i \in Posts : \/ post'[i] = post[i] \/ Vacant(post'[i])
                         \/ Orphan(post'[i], post[i])
    BY <1>4, TillLosesStep DEF Others
  <2>2. /\ minted' = [minted EXCEPT ![ringing] = @ + 1]
        /\ fellBack' = fellBack \cup {ringing} /\ UNCHANGED <<recorded, used>>
    BY <1>4 DEF TillLoses, SaveOffline
  <2>3. \A s \in Sales :
           \/ minted'[s] = minted[s]
           \/ minted'[s] = minted[s] + 1 /\ s \in fellBack'
    BY <2>2
  <2>. QED BY <1>g, <2>1, <2>2, <2>3, CountingKept
<1>5. CASE ClearQueue
  <2>1. UNCHANGED <<minted, recorded, used, fellBack, post>> BY <1>5 DEF ClearQueue
  <2>. QED BY <1>g, <2>1, CountingKept
<1>6. CASE CloseTab
  <2>1. \A i \in Posts : \/ post'[i] = post[i] \/ Vacant(post'[i])
                         \/ Orphan(post'[i], post[i])
    BY <1>6, CloseTabStep
  <2>2. UNCHANGED <<minted, recorded, used, fellBack>> BY <1>6 DEF CloseTab
  <2>. QED BY <1>g, <2>1, <2>2, CountingKept
<1>7. ASSUME NEW y \in Syncs, StartSync(y) PROVE Counting'
  <2>1. UNCHANGED <<minted, recorded, used, fellBack, post>> BY <1>7 DEF StartSync
  <2>. QED BY <1>g, <2>1, CountingKept
<1>8. ASSUME NEW y \in Syncs, SyncSends(y) PROVE Counting'
  <2>1. PICK i \in Posts, s \in sync[y].todo :
             /\ Others(i) /\ post'[i].sale = s
             /\ post'[i].key = IF sync[y].held[s] # NoKey
                               THEN sync[y].held[s] ELSE minted[s] + 1
             /\ EnsureKey(y, s)
    BY <1>8, SyncSendsStep
  <2>2. s \in Sales /\ UNCHANGED <<recorded, used, fellBack>> BY <1>8 DEF SyncSends
  <2>3. minted[s] \in Nat BY <2>2
  <2>4. post'[i].key # NoKey BY <2>1, <2>3
  <2>5. \A j \in Posts, t \in Sales :
           post'[j].sale = t /\ post'[j].key = NoKey =>
              Keyless(j, t) /\ post'[j].at = post[j].at
    BY <2>1, <2>4 DEF Others, Keyless
  <2>6. CASE sync[y].held[s] # NoKey
    <3>1. minted' = minted BY <2>1, <2>6 DEF EnsureKey
    <3>. QED BY <2>2, <2>5, <3>1, CountingKept
  <2>7. CASE sync[y].held[s] = NoKey
    <3>1. s \in Legacy BY <2>2, <2>7 DEF Rows
    <3>2. minted' = [minted EXCEPT ![s] = @ + 1] BY <2>1, <2>7 DEF EnsureKey
    <3>3. \A t \in Sales :
             \/ minted'[t] = minted[t]
             \/ minted'[t] = minted[t] + 1 /\ t \in Legacy
      BY <3>1, <3>2
    <3>. QED BY <2>2, <2>5, <3>3, CountingKept
  <2>. QED BY <2>6, <2>7
<1>9. ASSUME NEW y \in Syncs, SyncHears(y) PROVE Counting'
  <2>1. \A i \in Posts : post'[i] = post[i] \/ Vacant(post'[i])
    BY <1>9, SyncHearsStep DEF Others
  <2>2. UNCHANGED <<minted, recorded, used, fellBack>> BY <1>9 DEF SyncHears
  <2>. QED BY <1>g, <2>1, <2>2, CountingKept
<1>10. ASSUME NEW y \in Syncs, SyncLoses(y) PROVE Counting'
  <2>1. \A i \in Posts : \/ post'[i] = post[i] \/ Vacant(post'[i])
                         \/ Orphan(post'[i], post[i])
    BY <1>10, SyncLosesStep DEF Others
  <2>2. UNCHANGED <<minted, recorded, used, fellBack>> BY <1>10 DEF SyncLoses
  <2>. QED BY <1>g, <2>1, <2>2, CountingKept
<1>11. ASSUME NEW i \in Posts, Served(i) PROVE Counting'
  <2>1. UNCHANGED <<minted, recorded, used, fellBack>> BY <1>11 DEF Served
  <2>2. \A j \in Posts, s \in Sales :
           post'[j].sale = s /\ post'[j].key = NoKey =>
              /\ Keyless(j, s)
              /\ post'[j].at \in {"arrived", "looked", "checked"} =>
                   post[j].at \in {"arrived", "looked", "checked"}
    BY <1>11 DEF Served, Others, Vacant, Keyless
  <2>. QED BY <2>1, <2>2, CountingKept
<1>12. ASSUME NEW i \in Posts, Inserted(i) PROVE Counting'
  BY <1>12, CountingInserted
<1>13. CASE UNCHANGED vars
  <2>1. UNCHANGED <<minted, recorded, used, fellBack, post>> BY <1>13 DEF vars
  <2>. QED BY <1>g, <2>1, CountingKept
<1>. QED BY <1>1, <1>2, <1>3, <1>4, <1>5, <1>6, <1>7, <1>8, <1>9, <1>10, <1>11,
            <1>12, <1>13, ServerStep DEF Next

-----------------------------------------------------------------------------
\* Gone: a row comes from the till or from a replay that holds it, a POST from
\* the till or from such a replay.
Holds(y, s) == s \in sync[y].todo \/ s = sync[y].sale

\* Every step but Clear Queue itself.
LEMMA GoneKept ==
    ASSUME TypeOK, Gone, forgotten' = forgotten,
           ringing' = ringing \/ ringing' = ringing + 1,
           \A s \in Sales : s < ringing /\ s \in queue' =>
              s \in queue \/ \E y \in Syncs : Holds(y, s),
           \A s \in Sales, y \in Syncs : s \in sync'[y].todo \/ s = sync'[y].sale =>
              s \in queue \/ Holds(y, s),
           \A s \in Sales, i \in Posts : s < ringing /\ post'[i].sale = s =>
              post[i].sale = s \/ \E y \in Syncs : Holds(y, s)
    PROVE  Gone'
<1>. SUFFICES ASSUME NEW s \in forgotten
              PROVE  /\ s < ringing' /\ s \notin queue'
                     /\ \A y \in Syncs : s \notin sync'[y].todo \cup {sync'[y].sale}
                     /\ \A i \in Posts : post'[i].sale # s
  BY DEF Gone
<1>1. s \in Sales /\ s \in Nat /\ ringing \in Nat BY Typed, Constants
<1>2. /\ s < ringing /\ s \notin queue /\ \A i \in Posts : post[i].sale # s
      /\ \A y \in Syncs : ~Holds(y, s)
  BY DEF Gone, Holds
<1>3. s < ringing' BY <1>1, <1>2
<1>. QED BY <1>1, <1>2, <1>3

\* No step breaks Gone.
LEMMA NextGone == ASSUME IInv, [Next]_vars PROVE Gone'
<1>0. TypeOK /\ Callers /\ Rows /\ Gone BY DEF IInv
<1>. USE <1>0, Typed, Constants DEF client, clears
<1>g. ASSUME \A i \in Posts : \/ post'[i] = post[i] \/ Vacant(post'[i])
                              \/ Orphan(post'[i], post[i])
      PROVE  \A s \in Sales, i \in Posts : post'[i].sale = s => post[i].sale = s
  BY <1>g DEF Vacant, Orphan
<1>r. \A s \in Sales : s < ringing => s # ringing
  BY Constants
<1>1. CASE RingOffline
  <2>1. /\ queue' = queue \cup {ringing} /\ ringing' = ringing + 1
        /\ UNCHANGED <<sync, post, forgotten>>
    BY <1>1 DEF RingOffline, SaveOffline
  <2>. QED BY <1>r, <2>1, GoneKept DEF Holds
<1>2. CASE RingOnline
  <2>1. PICK i \in Posts : Others(i) /\ post'[i].sale = ringing
    BY <1>2, SentPost DEF RingOnline
  <2>2. UNCHANGED <<ringing, queue, sync, forgotten>> BY <1>2 DEF RingOnline
  <2>. QED BY <1>r, <2>1, <2>2, GoneKept DEF Others, Holds
<1>3. CASE TillHears
  <2>1. \A i \in Posts : post'[i] = post[i] \/ Vacant(post'[i])
    BY <1>3, TillHearsStep DEF Others
  <2>2. ringing' = ringing + 1 /\ UNCHANGED <<queue, sync, forgotten>>
    BY <1>3 DEF TillHears
  <2>. QED BY <1>g, <2>1, <2>2, GoneKept DEF Holds
<1>4. CASE TillLoses
  <2>1. \A i \in Posts : \/ post'[i] = post[i] \/ Vacant(post'[i])
                         \/ Orphan(post'[i], post[i])
    BY <1>4, TillLosesStep DEF Others
  <2>2. /\ queue' = queue \cup {ringing} /\ ringing' = ringing + 1
        /\ UNCHANGED <<sync, forgotten>>
    BY <1>4 DEF TillLoses, SaveOffline
  <2>. QED BY <1>g, <1>r, <2>1, <2>2, GoneKept DEF Holds
<1>5. CASE ClearQueue
  <2>1. /\ queue' = {} /\ UNCHANGED <<ringing, sync, post>>
    BY <1>5 DEF ClearQueue, RemovesFromQueue
  <2>2. \A s \in forgotten' \ forgotten :
           /\ s \in queue
           /\ \A y \in Syncs : s \notin sync[y].todo \cup {sync[y].sale}
           /\ \A i \in Posts : post[i].sale # s
    <3>1. forgotten' = forgotten \cup (queue \ InHand) BY <1>5 DEF ClearQueue
    <3>2. \A y \in Syncs : sync[y].todo \cup {sync[y].sale} \subseteq InHand
      BY DEF InHand
    <3>3. ASSUME NEW i \in Posts PROVE post[i].sale \in InHand
      <4>1. post[i].sale \in {post[j].sale : j \in Posts} BY ONLY i \in Posts
      <4>. QED BY <4>1 DEF InHand
    <3>. QED BY <3>1, <3>2, <3>3
  <2>3. ASSUME NEW s \in queue PROVE s \in Sales /\ s < ringing
    <3>1. s \in Sales /\ ringing \in Nat OBVIOUS
    <3>2. s \in Nat BY <3>1
    <3>3. ~(s >= ringing) BY <3>1 DEF Rows
    <3>. QED BY <3>1, <3>2, <3>3
  <2>. QED BY <2>1, <2>2, <2>3 DEF Gone
<1>6. CASE CloseTab
  <2>1. \A i \in Posts : \/ post'[i] = post[i] \/ Vacant(post'[i])
                         \/ Orphan(post'[i], post[i])
    BY <1>6, CloseTabStep
  <2>2. \A y \in Syncs : sync'[y].todo = {} /\ sync'[y].sale = 0
    BY <1>6 DEF CloseTab, Off
  <2>3. /\ ringing' = ringing \/ ringing' = ringing + 1
        /\ UNCHANGED <<queue, forgotten>>
    BY <1>6 DEF CloseTab
  <2>. QED BY <1>g, <2>1, <2>2, <2>3, GoneKept
<1>7. ASSUME NEW y \in Syncs, StartSync(y) PROVE Gone'
  <2>1. /\ \A x \in Syncs \ {y} : sync'[x] = sync[x]
        /\ sync'[y].todo = queue /\ sync'[y].sale = 0
        /\ UNCHANGED <<ringing, queue, post, forgotten>>
    BY <1>7 DEF StartSync
  <2>. QED BY <2>1, GoneKept DEF Holds
<1>8. ASSUME NEW y \in Syncs, SyncSends(y) PROVE Gone'
  <2>1. PICK i \in Posts, s \in sync[y].todo :
             /\ Others(i) /\ post'[i].sale = s /\ EnsureKey(y, s)
             /\ \A x \in Syncs \ {y} : sync'[x] = sync[x]
             /\ sync'[y].sale = s /\ sync'[y].todo = sync[y].todo \ {s}
    BY <1>8, SyncSendsStep
  <2>2. UNCHANGED <<ringing, forgotten>> BY <1>8 DEF SyncSends
  <2>3. Holds(y, s) BY DEF Holds
  <2>4. queue' \subseteq queue \cup {s} BY <2>1 DEF EnsureKey
  <2>. QED BY <2>1, <2>2, <2>3, <2>4, GoneKept DEF Others, Holds
<1>9. ASSUME NEW y \in Syncs, SyncHears(y) \/ SyncLoses(y) PROVE Gone'
  <2>1. Rests(y) /\ UNCHANGED <<ringing, forgotten>>
    BY <1>9, SyncHearsStep, SyncLosesStep DEF SyncHears, SyncLoses
  <2>2. queue' \subseteq queue \cup {sync[y].sale}
    BY <1>9, SyncHearsStep, SyncLosesStep DEF PutsBack
  <2>3. \A i \in Posts : \/ post'[i] = post[i] \/ Vacant(post'[i])
                         \/ Orphan(post'[i], post[i])
    BY <1>9, SyncHearsStep, SyncLosesStep DEF Others
  <2>4. \A s \in Sales, x \in Syncs : s \in sync'[x].todo \/ s = sync'[x].sale =>
           s \in queue \/ Holds(x, s)
    BY <2>1 DEF Rests, Holds
  <2>5. \A s \in Sales : s \in queue' => s \in queue \/ Holds(y, s)
    BY <2>2 DEF Holds
  <2>. QED BY <1>g, <2>1, <2>3, <2>4, <2>5, GoneKept
<1>10. ASSUME NEW i \in Posts, Served(i) \/ Inserted(i) PROVE Gone'
  <2>1. UNCHANGED <<ringing, queue, sync, forgotten>>
    BY <1>10 DEF Served, Inserted
  <2>2. \A s \in Sales, j \in Posts : post'[j].sale = s => post[j].sale = s
    BY <1>10 DEF Served, Inserted, Others, Vacant
  <2>. QED BY <2>1, <2>2, GoneKept DEF Holds
<1>11. CASE UNCHANGED vars
  <2>1. UNCHANGED <<ringing, queue, sync, post, forgotten>> BY <1>11 DEF vars
  <2>. QED BY <2>1, GoneKept DEF Holds
<1>. QED BY <1>1, <1>2, <1>3, <1>4, <1>5, <1>6, <1>7, <1>8, <1>9, <1>10, <1>11,
            ServerStep DEF Next

-----------------------------------------------------------------------------
\* Every reachable state satisfies the invariant.
THEOREM Inductive == Spec => []IInv
<1>1. ASSUME IInv, [Next]_vars PROVE IInv'
  BY <1>1, NextType, NextCallers, NextRows, NextKeys, NextRecorded, NextCounting,
     NextGone DEF IInv
<1>. QED BY <1>1, InitInv, PTL DEF Spec

\* The variables keep their types: the stock is never negative, and no key is
\* in a record that was not generated.
THEOREM TypeCorrect == Spec => []TypeOK
BY Inductive, PTL DEF IInv

\* A sale with an offline receipt is queued or recorded, unless Clear Queue was
\* used: no replay, crash or lost answer drops it.
THEOREM ReceiptIsKept == Spec => []PaperReceiptIsKept
BY Inductive, PTL DEF IInv, Recorded

\* Beside the lost answer of a keyless first POST and a legacy row that was
\* given two keys nothing records a sale twice.
THEOREM DoubleSaleHoles == Spec => []DoubleSaleOnlyThroughHoles
<1>1. ASSUME IInv PROVE DoubleSaleOnlyThroughHoles
  <2>0. TypeOK /\ Rows /\ Keys /\ Counting BY <1>1 DEF IInv
  <2>. SUFFICES ASSUME NEW s \in Sales, recorded[s] > 1
                PROVE  \/ s \in fellBack /\ recorded[s] = 2
                       \/ s \in Legacy /\ minted[s] > 1
    BY DEF DoubleSaleOnlyThroughHoles
  <2>1. minted[s] \in Nat /\ recorded[s] \in Nat /\ Keyed(s) \in {0, 1}
    BY <2>0, Typed DEF Keyed
  <2>2. minted[s] <= 1 =>
          /\ recorded[s] <= Keyed(s) + 1
          /\ s \notin fellBack /\ (minted[s] = 1 \/ s \in Legacy) =>
                recorded[s] <= Keyed(s)
    BY <2>0 DEF Counting
  <2>3. CASE s \in Legacy
    <3>1. s \notin fellBack BY <2>0, <2>3 DEF Rows
    <3>. QED BY <2>1, <2>2, <2>3, <3>1
  <2>4. CASE s \notin Legacy
    <3>1. minted[s] <= 1 BY <2>0, <2>4 DEF Rows
    <3>2. minted[s] = 0 => Keyed(s) = 0
      <4>1. used[s] \subseteq 1..minted[s] BY <2>0 DEF Keys
      <4>. QED BY <4>1 DEF Keyed
    <3>. QED BY <2>1, <2>2, <3>1, <3>2
  <2>. QED BY <2>3, <2>4
<1>. QED BY <1>1, Inductive, PTL

\* What Clear Queue removed while nothing was working on it is never queued and
\* never recorded again.
THEOREM ClearedStaysForgotten == Spec => ClearedIsForgotten
<1>1. ASSUME IInv, IInv', [Next]_vars
      PROVE  [\A s \in forgotten : s \notin queue' /\ recorded'[s] = recorded[s]]_vars
  <2>0. TypeOK /\ Callers /\ Gone /\ Gone' BY <1>1 DEF IInv
  <2>. SUFFICES ASSUME NEW s \in forgotten
                PROVE  s \notin queue' /\ recorded'[s] = recorded[s]
    OBVIOUS
  <2>1. forgotten \subseteq forgotten'
    BY <1>1, <2>0, ServerStep DEF Next, RingOffline, RingOnline, TillHears, TillLoses,
       ClearQueue, CloseTab, StartSync, SyncSends, SyncHears, SyncLoses, Served,
       Inserted, vars, clears
  <2>2. s \notin queue' BY <2>0, <2>1 DEF Gone
  <2>3. recorded' = recorded \/ \E i \in Posts : Inserted(i)
    BY <1>1, ServerStep DEF Next, RingOffline, RingOnline, TillHears, TillLoses,
       ClearQueue, CloseTab, StartSync, SyncSends, SyncHears, SyncLoses, Served,
       vars, server
  <2>4. ASSUME NEW i \in Posts, Inserted(i) PROVE recorded'[s] = recorded[s]
    <3>1. post[i].sale # s BY <2>0 DEF Gone
    <3>2. recorded \in [Sales -> Nat] /\ s \in Sales BY <2>0, Typed
    <3>. QED BY <2>4, <3>1, <3>2 DEF Inserted
  <2>. QED BY <2>2, <2>3, <2>4
<1>. QED BY <1>1, Inductive, PTL DEF Spec, ClearedIsForgotten

\* A queued sale stays queued or is recorded, and a cleared one never returns.
THEOREM QueueIsReliable == Spec => QueueKeepsItsWord
BY ReceiptIsKept, ClearedStaysForgotten, PTL DEF QueueKeepsItsWord
-----------------------------------------------------------------------------
(* The stock.                                                               *)

\* Only the insert of a sale touches the table and the stock.
LEMMA TableChanges ==
    ASSUME [Next]_vars
    PROVE  UNCHANGED <<stock, recorded>> \/ \E i \in Posts : Commit(i)
BY DEF Next, vars, server, RingOffline, RingOnline, TillHears, TillLoses, ClearQueue,
   CloseTab, StartSync, SyncSends, SyncHears, SyncLoses, Lookup, Refuse, CheckStock,
   RunEffects, SkipEffects, Die

\* A committed sale takes its unit, a replay and a rollback take none.
LEMMA CommitTakesWhatItSells ==
    ASSUME IInv, NEW i \in Posts, Commit(i)
    PROVE  \/ UNCHANGED <<stock, recorded>>
           \/ /\ post[i].sale \in Sales
              /\ stock' = stock - 1
              /\ recorded' = [recorded EXCEPT ![post[i].sale] = @ + 1]
<1>1. post[i].sale \in Sales
  <2>1. post[i].at # "free" BY DEF Commit, At
  <2>. QED BY <2>1 DEF IInv, Callers
<1>2. CASE KeyTaken(post[i])
  BY <1>2 DEF Commit, Insert, Deduct
<1>3. CASE ~KeyTaken(post[i])
  BY <1>1, <1>3 DEF Commit, Insert, Deduct
<1>. QED BY <1>2, <1>3

\* The units left and the units sold.
StockSum == stock + SumOver(recorded, Sales) = Stock

\* The units sold and the units left are the units there were at first.
THEOREM StockIsConserved == Spec => []StockMatchesSales
<1>0. IsFiniteSet(Sales) BY Constants, FS_Interval DEF Sales
<1>1. Init => StockSum
  <2>. SUFFICES ASSUME Init PROVE StockSum OBVIOUS
  <2>1. \A s \in Sales : recorded[s] = 0 BY DEF Init
  <2>2. SumOver(recorded, Sales) = 0 BY <1>0, <2>1, SumOfZeros
  <2>3. stock = Stock /\ Stock \in Nat BY Constants DEF Init
  <2>. QED BY <2>2, <2>3 DEF StockSum
<1>2. ASSUME IInv, StockSum, [Next]_vars PROVE StockSum'
  <2>1. stock + SumOver(recorded, Sales) = Stock BY <1>2 DEF StockSum
  <2>2. stock \in Int /\ recorded \in [Sales -> Nat] BY <1>2, Constants DEF IInv, TypeOK
  <2>3. SumOver(recorded, Sales) \in Int BY <1>0, <2>2, SumIsInt
  <2>4. stock' + SumOver(recorded', Sales) = Stock
    <3>1. CASE UNCHANGED <<stock, recorded>> BY <2>1, <3>1
    <3>2. CASE ~UNCHANGED <<stock, recorded>>
      <4>1. PICK i \in Posts : Commit(i) BY <1>2, <3>2, TableChanges
      <4>2. PICK s \in Sales : /\ stock' = stock - 1
                               /\ recorded' = [recorded EXCEPT ![s] = @ + 1]
        BY <1>2, <3>2, <4>1, CommitTakesWhatItSells
      <4>3. recorded[s] \in Int /\ recorded'[s] = recorded[s] + 1 BY <2>2, <4>2
      <4>4. SumOver(recorded', Sales)
              = SumOver(recorded, Sales) - recorded[s] + recorded'[s]
        <5>1. \A x \in Sales : recorded[x] \in Int BY <2>2
        <5>2. recorded'[s] \in Int BY <4>3
        <5>3. \A x \in Sales \ {s} : recorded'[x] = recorded[x] BY <2>2, <4>2
        <5>. QED BY <1>0, <5>1, <5>2, <5>3, SumChanged
      <4>. QED BY <2>1, <2>2, <2>3, <4>2, <4>3, <4>4
    <3>. QED BY <3>1, <3>2
  <2>. QED BY <2>4 DEF StockSum
<1>3. StockSum => StockMatchesSales BY DEF StockSum, StockMatchesSales, SumOver
<1>. QED BY <1>1, <1>2, <1>3, Inductive, PTL DEF Spec
-----------------------------------------------------------------------------
(* The steps after the commit.                                              *)

\* The POSTs that have recorded a sale, or found it recorded, and whose later
\* steps are still to be run.
Owing(s) == {i \in Posts : post[i].sale = s /\ post[i].at = "recorded"}

\* Two POSTs of a sale that are at the server have different keys, unless they
\* met there under one.
AloneUnderKey ==
    \A i, j \in Posts :
        /\ post[i].at \in Running /\ post[j].at \in Running
        /\ post[i].sale = post[j].sale /\ post[i].key = post[j].key
        /\ post[i].sale \notin together
        => i = j

\* So what the lookup did not find, the insert does not find either.
FreshKeys ==
    \A i \in Posts :
        post[i].at \in {"looked", "checked"} /\ post[i].sale \notin together
        => post[i].key = NoKey \/ post[i].key \notin used[post[i].sale]

\* Each record has run its effects or still owes them.
Owed ==
    /\ \A s \in Sales : IsFiniteSet(Owing(s))
    /\ \A s \in Sales \ (together \cup missed) :
         recorded[s] = effects[s] + Cardinality(Owing(s))

EffectsOwed == AloneUnderKey /\ FreshKeys /\ Owed

\* A POST that stays where it is at the server, whoever waits for it.
Stays(p, q) == p.at = q.at /\ p.sale = q.sale /\ p.key = q.key
\* One whose answer is heard or lost, or that does not arrive.
Leaves(p, q) == p.at = "free" /\ q.at \in Answers \cup {"arrived"}

\* Giving up a POST takes nothing back from the server.
LEMMA AbandonedStays ==
    ASSUME TypeOK, NEW i \in Posts, NEW lost \in BOOLEAN
    PROVE  LET p == Abandoned(post[i], lost) IN Stays(p, post[i]) \/ Leaves(p, post[i])
<1>1. post[i] \in Requests BY DEF TypeOK
<1>2. LET p == [post[i] EXCEPT !.from = NoOne] IN Stays(p, post[i])
  BY <1>1 DEF Requests, Stays
<1>3. Free.at = "free" BY DEF Free
<1>. QED BY <1>2, <1>3 DEF Abandoned, Leaves

\* No step of a client but a fetch changes what the server is doing.
LEMMA ClientStays ==
    ASSUME TypeOK, NEW i \in Posts,
           \/ TillHears \/ TillLoses \/ CloseTab
           \/ \E y \in Syncs : SyncHears(y) \/ SyncLoses(y)
    PROVE  Stays(post'[i], post[i]) \/ Leaves(post'[i], post[i])
<1>0. post \in [Posts -> Requests] BY DEF TypeOK
<1>1. ASSUME NEW j \in Posts, post[j].at \in Answers, post' = [post EXCEPT ![j] = Free]
      PROVE  Stays(post'[i], post[i]) \/ Leaves(post'[i], post[i])
  BY <1>0, <1>1 DEF Stays, Leaves, Free
<1>2. ASSUME NEW j \in Posts, NEW lost \in BOOLEAN,
             post' = [post EXCEPT ![j] = Abandoned(post[j], lost)]
      PROVE  Stays(post'[i], post[i]) \/ Leaves(post'[i], post[i])
  <2>1. CASE i = j
    <3>1. post'[i] = Abandoned(post[i], lost) BY <1>0, <1>2, <2>1
    <3>. QED BY <3>1, AbandonedStays
  <2>2. CASE i # j BY <1>0, <1>2, <2>2 DEF Stays
  <2>. QED BY <2>1, <2>2
<1>3. CASE TillHears BY <1>1, <1>3 DEF TillHears, PostOf
<1>4. CASE TillLoses BY <1>2, <1>4 DEF TillLoses, PostOf
<1>5. CASE CloseTab
  <2>1. PICK lost \in SUBSET Posts :
          post' = [j \in Posts |-> IF post[j].from = NoOne THEN post[j]
                                   ELSE Abandoned(post[j], j \in lost)]
    BY <1>5 DEF CloseTab
  <2>2. post'[i] = post[i] \/ post'[i] = Abandoned(post[i], i \in lost) BY <2>1
  <2>3. (i \in lost) \in BOOLEAN OBVIOUS
  <2>. QED BY <2>2, <2>3, AbandonedStays DEF Stays
<1>6. ASSUME NEW y \in Syncs, SyncHears(y)
      PROVE  Stays(post'[i], post[i]) \/ Leaves(post'[i], post[i])
  BY <1>1, <1>6 DEF SyncHears, PostOf
<1>7. ASSUME NEW y \in Syncs, SyncLoses(y)
      PROVE  Stays(post'[i], post[i]) \/ Leaves(post'[i], post[i])
  BY <1>2, <1>7 DEF SyncLoses, PostOf
<1>. QED BY <1>3, <1>4, <1>5, <1>6, <1>7

\* What the server owes is unchanged while nothing is recorded and no POST
\* comes to its last steps or leaves them.
LEMMA OwedKept ==
    ASSUME Owed, UNCHANGED <<recorded, effects>>, missed \subseteq missed',
           together \subseteq together',
           \A i \in Posts : /\ post[i].at = "recorded" <=> post'[i].at = "recorded"
                            /\ post[i].at = "recorded" => post'[i].sale = post[i].sale
    PROVE  Owed'
<1>1. ASSUME NEW s \in Sales PROVE Owing(s)' = Owing(s) BY DEF Owing
<1>. QED BY <1>1 DEF Owed

\* The steps of the clients that send nothing, and the others that leave the
\* POSTs alone.
LEMMA EffectsOwedKept ==
    ASSUME EffectsOwed, UNCHANGED <<recorded, used, effects, missed, together>>,
           \A i \in Posts : Stays(post'[i], post[i]) \/ Leaves(post'[i], post[i])
    PROVE  EffectsOwed'
<1>. USE DEF EffectsOwed
<1>1. \A i \in Posts : post'[i].at # "free" => Stays(post'[i], post[i])
  BY DEF Leaves
<1>2. AloneUnderKey'
  <2>1. \A i \in Posts : post'[i].at \in Running => Stays(post'[i], post[i])
    BY <1>1 DEF Running
  <2>. QED BY <2>1 DEF AloneUnderKey, Stays
<1>3. FreshKeys' BY <1>1 DEF FreshKeys, Stays
<1>4. Owed'
  <2>1. \A i \in Posts : /\ post[i].at = "recorded" <=> post'[i].at = "recorded"
                         /\ post[i].at = "recorded" => post'[i].sale = post[i].sale
    BY DEF Stays, Leaves, Answers
  <2>. QED BY <2>1, OwedKept
<1>. QED BY <1>2, <1>3, <1>4

\* A fetch: a second one under a key that is at work is remembered.
LEMMA EffectsOwedSent ==
    ASSUME TypeOK, EffectsOwed, UNCHANGED <<recorded, used, effects, missed>>,
           NEW a, NEW s, NEW k, Send(a, s, k)
    PROVE  EffectsOwed'
<1>. USE DEF EffectsOwed
<1>1. PICK i \in Posts : /\ Vacant(post[i]) /\ Others(i) /\ post'[i].sale = s
                         /\ post'[i].key = k /\ post'[i].at = "arrived"
  BY SentPost
<1>2. /\ together \subseteq together'
      /\ (\E j \in Posts : /\ post[j].sale = s /\ post[j].key = k
                           /\ post[j].at \in Running) => s \in together'
  BY DEF Send
<1>3. \A j \in Posts \ {i} : post'[j] = post[j] BY <1>1 DEF Others
<1>4. AloneUnderKey'
  <2>. SUFFICES ASSUME NEW j \in Posts, NEW l \in Posts, j # l,
                       post'[j].at \in Running, post'[l].at \in Running,
                       post'[j].sale = post'[l].sale, post'[j].key = post'[l].key
                PROVE  post'[j].sale \in together'
    BY DEF AloneUnderKey
  <2>1. CASE j = i BY <1>1, <1>2, <1>3, <2>1
  <2>2. CASE l = i BY <1>1, <1>2, <1>3, <2>2
  <2>3. CASE j # i /\ l # i BY <1>2, <1>3, <2>3 DEF AloneUnderKey
  <2>. QED BY <2>1, <2>2, <2>3
<1>5. FreshKeys' BY <1>1, <1>2, <1>3 DEF FreshKeys
<1>6. Owed'
  <2>1. post[i].at # "recorded" /\ post'[i].at # "recorded" BY <1>1 DEF Vacant
  <2>2. \A j \in Posts : /\ post[j].at = "recorded" <=> post'[j].at = "recorded"
                         /\ post[j].at = "recorded" => post'[j].sale = post[j].sale
    BY <1>3, <2>1
  <2>. QED BY <1>2, <2>2, OwedKept
<1>. QED BY <1>4, <1>5, <1>6
\* A step of the server moves one POST on or answers it.
Works(i, from, to) ==
    /\ post[i].at \in from /\ Others(i)
    /\ post'[i].at \in to \cup {"free"} \cup Answers
    /\ post'[i].at # "free" => post'[i].sale = post[i].sale /\ post'[i].key = post[i].key

\* Each step, with what it does to a POST.
LEMMA WorksOn ==
    ASSUME TypeOK, NEW i \in Posts
    PROVE  /\ Lookup(i) => \/ Works(i, {"arrived"}, {})
                           \/ Works(i, {"arrived"}, {"looked"}) /\ ~KeyTaken(post[i])
           /\ Refuse(i) => Works(i, {"arrived", "looked"}, {})
           /\ CheckStock(i) => Works(i, {"looked"}, {"checked"})
           /\ RunEffects(i) => Works(i, {"recorded"}, {})
           /\ SkipEffects(i) => Works(i, {"recorded"}, {})
           /\ Die(i) => Works(i, Running, {})
<1>1. ASSUME NEW step \in Answers, Answer(i, step)
      PROVE  /\ Others(i) /\ post'[i].at \in Answers \cup {"free"}
             /\ post'[i].at # "free" =>
                  post'[i].sale = post[i].sale /\ post'[i].key = post[i].key
  BY <1>1, Moved DEF Vacant
<1>2. "ok" \in Answers /\ "refused" \in Answers BY DEF Answers
<1>3. ASSUME Lookup(i)
      PROVE  \/ Works(i, {"arrived"}, {})
             \/ Works(i, {"arrived"}, {"looked"}) /\ ~KeyTaken(post[i])
  <2>1. post[i].at = "arrived" BY <1>3 DEF Lookup, At
  <2>2. CASE FindsOriginal(post[i])
    <3>1. Answer(i, "ok") BY <1>3, <2>2 DEF Lookup
    <3>. QED BY <1>1, <1>2, <2>1, <3>1 DEF Works
  <2>3. CASE ~FindsOriginal(post[i])
    <3>1. To(i, "looked") /\ ~KeyTaken(post[i]) BY <1>3, <2>3 DEF Lookup, FindsOriginal
    <3>. QED BY <2>1, <3>1, SteppedOn DEF Works
  <2>. QED BY <2>2, <2>3
<1>4. ASSUME Refuse(i) PROVE Works(i, {"arrived", "looked"}, {})
  <2>1. post[i].at \in {"arrived", "looked"} /\ Answer(i, "refused")
    BY <1>4 DEF Refuse, At
  <2>. QED BY <1>1, <1>2, <2>1 DEF Works
<1>5. ASSUME CheckStock(i) PROVE Works(i, {"looked"}, {"checked"})
  <2>1. post[i].at = "looked" BY <1>5 DEF CheckStock, At
  <2>2. CASE stock > 0
    <3>1. To(i, "checked") BY <1>5, <2>2 DEF CheckStock
    <3>. QED BY <2>1, <3>1, SteppedOn DEF Works
  <2>3. CASE ~(stock > 0)
    <3>1. Answer(i, "refused") BY <1>5, <2>3 DEF CheckStock
    <3>. QED BY <1>1, <1>2, <2>1, <3>1 DEF Works
  <2>. QED BY <2>2, <2>3
<1>6. ASSUME RunEffects(i) PROVE Works(i, {"recorded"}, {})
  <2>1. post[i].at = "recorded" /\ Answer(i, "ok") BY <1>6 DEF RunEffects, At
  <2>. QED BY <1>1, <1>2, <2>1 DEF Works
<1>7. ASSUME SkipEffects(i) PROVE Works(i, {"recorded"}, {})
  <2>1. post[i].at = "recorded" /\ Answer(i, "ok") BY <1>7 DEF SkipEffects, At
  <2>. QED BY <1>1, <1>2, <2>1 DEF Works
<1>8. ASSUME Die(i) PROVE Works(i, Running, {})
  <2>1. post[i].at \in Running /\ Answer(i, "refused") BY <1>8 DEF Die, At
  <2>. QED BY <1>1, <1>2, <2>1 DEF Works
<1>. QED BY <1>3, <1>4, <1>5, <1>6, <1>7, <1>8

\* Whatever step the server takes, the keys at work stay apart.
LEMMA AloneServed ==
    ASSUME AloneUnderKey, NEW i \in Posts, NEW from \in SUBSET Running, NEW to,
           Works(i, from, to), UNCHANGED together
    PROVE  AloneUnderKey'
<1>1. \A j \in Posts : post'[j].at \in Running =>
          /\ post[j].at \in Running
          /\ post'[j].sale = post[j].sale /\ post'[j].key = post[j].key
  BY DEF Works, Others, Running
<1>. QED BY <1>1 DEF AloneUnderKey

\* And a key found free is free until the insert.
LEMMA FreshServed ==
    ASSUME FreshKeys, NEW i \in Posts, NEW from, NEW to,
           Works(i, from, to), UNCHANGED <<together, used>>,
           \/ from \subseteq {"looked", "checked"} \/ to \cap {"looked", "checked"} = {}
           \/ ~KeyTaken(post[i])
    PROVE  FreshKeys'
<1>1. ASSUME NEW j \in Posts, post'[j].at \in {"looked", "checked"},
             post'[j].sale \notin together
      PROVE  post'[j].key = NoKey \/ post'[j].key \notin used[post'[j].sale]
  <2>1. CASE j # i BY <1>1, <2>1 DEF Works, Others, FreshKeys
  <2>2. CASE j = i
    <3>1. post'[i].sale = post[i].sale /\ post'[i].key = post[i].key
      BY <1>1, <2>2 DEF Works
    <3>2. post'[i].at \in to /\ post[i].at \in from BY <1>1, <2>2 DEF Works, Answers
    <3>3. CASE from \subseteq {"looked", "checked"}
      BY <1>1, <2>2, <3>1, <3>2, <3>3 DEF FreshKeys
    <3>4. CASE ~KeyTaken(post[i]) BY <2>2, <3>1, <3>4 DEF KeyTaken
    <3>5. CASE to \cap {"looked", "checked"} = {} BY <1>1, <2>2, <3>2, <3>5
    <3>. QED BY <3>3, <3>4, <3>5
  <2>. QED BY <2>1, <2>2
<1>. QED BY <1>1 DEF FreshKeys

\* One POST less, or one more, owes the effects of its sale.
LEMMA OwingChanges ==
    ASSUME NEW i \in Posts, Others(i), NEW s \in Sales, IsFiniteSet(Owing(s))
    PROVE  /\ IsFiniteSet(Owing(s)')
           /\ i \notin Owing(s) /\ i \notin Owing(s)' => Owing(s)' = Owing(s)
           /\ i \in Owing(s) /\ i \notin Owing(s)' =>
                Cardinality(Owing(s)') = Cardinality(Owing(s)) - 1
           /\ i \notin Owing(s) /\ i \in Owing(s)' =>
                Cardinality(Owing(s)') = Cardinality(Owing(s)) + 1
<1>1. \A j \in Posts \ {i} : j \in Owing(s)' <=> j \in Owing(s) BY DEF Owing, Others
<1>2. Owing(s) \subseteq Posts /\ Owing(s)' \subseteq Posts BY DEF Owing
<1>3. CASE i \in Owing(s)'
  <2>1. Owing(s)' = Owing(s) \cup {i} BY <1>1, <1>2, <1>3
  <2>. QED BY <1>3, <2>1, FS_AddElement
<1>4. CASE i \notin Owing(s)'
  <2>1. Owing(s)' = Owing(s) \ {i} BY <1>1, <1>2, <1>4
  <2>. QED BY <1>4, <2>1, FS_RemoveElement
<1>. QED BY <1>3, <1>4
\* What is owed changes only by a POST that gets to the last steps or is
\* through with them.
LEMMA OwedServed ==
    ASSUME Owed, NEW i \in Posts, NEW from, NEW to, Works(i, from, to),
           "recorded" \notin from \cup to, UNCHANGED <<recorded, effects, missed, together>>
    PROVE  Owed'
<1>1. post[i].at # "recorded" /\ post'[i].at # "recorded" BY DEF Works, Answers
<1>2. \A j \in Posts \ {i} : post'[j] = post[j] BY DEF Works, Others
<1>. QED BY <1>1, <1>2, OwedKept

\* The insert adds a record and a POST that owes its effects; a POST that finds
\* its key taken by another has met that one under the key.
LEMMA EffectsOwedCommitted ==
    ASSUME IInv, EffectsOwed, NEW i \in Posts, Commit(i)
    PROVE  EffectsOwed'
<1>. USE DEF EffectsOwed
<1>0. TypeOK BY DEF IInv
<1>1. /\ post[i].at = "checked" /\ UNCHANGED <<effects, missed, together>>
      /\ recorded \in [Sales -> Nat] /\ used \in [Sales -> SUBSET Nat]
      /\ effects \in [Sales -> Nat]
  BY <1>0, Typed DEF Commit, At, TypeOK
<1>s. post[i].sale \in Sales
  <2>1. post[i].at # "free" BY <1>1
  <2>. QED BY <2>1 DEF IInv, Callers
<1>2. CASE ~KeyTaken(post[i]) /\ ~Claims
  <2>1. Answer(i, "refused") /\ UNCHANGED <<recorded, used>> BY <1>2 DEF Commit
  <2>2. Works(i, {"checked"}, {})
    <3>1. Others(i) /\ post'[i].at \in {"refused", "free"}
          /\ (post'[i].at # "free" =>
                post'[i].sale = post[i].sale /\ post'[i].key = post[i].key)
      BY <1>0, <2>1, Moved DEF Vacant
    <3>. QED BY <1>1, <3>1 DEF Works, Answers
  <2>3. AloneUnderKey' BY <1>1, <2>2, AloneServed DEF Running
  <2>4. FreshKeys' BY <1>1, <2>1, <2>2, FreshServed
  <2>5. Owed' BY <1>1, <2>1, <2>2, OwedServed
  <2>. QED BY <2>3, <2>4, <2>5
<1>3. CASE KeyTaken(post[i]) \/ Claims
  <2>1. To(i, "recorded") /\ Insert(post[i]) BY <1>3 DEF Commit
  <2>2. /\ Others(i) /\ post'[i].sale = post[i].sale /\ post'[i].key = post[i].key
        /\ post'[i].at = "recorded"
    BY <1>0, <2>1, SteppedOn
  <2>3. \A j \in Posts \ {i} : post'[j] = post[j] BY <2>2 DEF Others
  <2>4. AloneUnderKey'
    <3>1. Works(i, {"checked"}, {"recorded"}) BY <1>1, <2>2 DEF Works
    <3>. QED BY <1>1, <3>1, AloneServed DEF Running
  <2>5. FreshKeys'
    <3>. SUFFICES ASSUME NEW j \in Posts, post'[j].at \in {"looked", "checked"},
                         post'[j].sale \notin together, post'[j].key # NoKey
                  PROVE  post'[j].key \notin used'[post'[j].sale]
      BY <1>1 DEF FreshKeys
    <3>1. j # i /\ post'[j] = post[j] BY <2>2, <2>3
    <3>2. post[j].key \notin used[post[j].sale] BY <3>1 DEF FreshKeys
    <3>3. post[j].sale = post[i].sale => post[j].key # post[i].key
      BY <1>1, <3>1 DEF AloneUnderKey, Running
    <3>4. UNCHANGED used \/ used' = [used EXCEPT ![post[i].sale] = @ \cup ({post[i].key} \ {NoKey})]
      BY <2>1 DEF Insert
    <3>5. post[j].sale \in Sales
      <4>1. post[j].at # "free" BY <3>1
      <4>. QED BY <4>1 DEF IInv, Callers
    <3>. QED BY <1>1, <1>s, <3>1, <3>2, <3>3, <3>4, <3>5
  <2>6. Owed'
    <3>1. ASSUME NEW s \in Sales PROVE IsFiniteSet(Owing(s)')
      BY <2>2, <3>1, OwingChanges DEF Owed
    <3>2. ASSUME NEW s \in Sales \ (together \cup missed)
          PROVE  recorded'[s] = effects[s] + Cardinality(Owing(s)')
      <4>1. /\ IsFiniteSet(Owing(s)) /\ recorded[s] = effects[s] + Cardinality(Owing(s))
            /\ Cardinality(Owing(s)) \in Nat
        BY FS_CardinalityType DEF Owed
      <4>2. i \notin Owing(s) BY <1>1 DEF Owing
      <4>3. CASE s = post[i].sale
        <5>1. i \in Owing(s)' BY <2>2, <4>3 DEF Owing
        <5>2. Cardinality(Owing(s)') = Cardinality(Owing(s)) + 1
          BY <2>2, <4>1, <4>2, <5>1, OwingChanges
        <5>3. ~KeyTaken(post[i]) BY <1>1, <4>3 DEF FreshKeys, KeyTaken
        <5>4. recorded'[s] = recorded[s] + 1 BY <1>1, <2>1, <4>3, <5>3 DEF Insert
        <5>5. recorded[s] \in Nat /\ effects[s] \in Nat BY <1>1
        <5>. QED BY <4>1, <5>2, <5>4, <5>5
      <4>4. CASE s # post[i].sale
        <5>1. i \notin Owing(s)' BY <2>2, <4>4 DEF Owing
        <5>2. Owing(s)' = Owing(s) BY <2>2, <4>1, <4>2, <5>1, OwingChanges
        <5>3. recorded'[s] = recorded[s] BY <1>1, <2>1, <4>4 DEF Insert
        <5>. QED BY <4>1, <5>2, <5>3
      <4>. QED BY <4>3, <4>4
    <3>. QED BY <1>1, <3>1, <3>2 DEF Owed
  <2>. QED BY <2>4, <2>5, <2>6
<1>. QED BY <1>2, <1>3
\* A POST that is through with the last steps has run them once, or is the
\* reason why its sale counts as missed.
LEMMA EffectsOwedPaid ==
    ASSUME IInv, EffectsOwed, NEW i \in Posts, NEW from \in SUBSET Running,
           Works(i, from, {}), UNCHANGED <<recorded, used, together>>,
           \/ /\ post[i].at = "recorded" /\ UNCHANGED missed
              /\ effects' = [effects EXCEPT ![post[i].sale] = @ + 1]
           \/ /\ UNCHANGED effects
              /\ missed' = IF post[i].at = "recorded"
                           THEN missed \cup {post[i].sale} ELSE missed
    PROVE  EffectsOwed'
<1>. USE DEF EffectsOwed
<1>0. TypeOK /\ effects \in [Sales -> Nat] /\ recorded \in [Sales -> Nat]
  BY DEF IInv, TypeOK
<1>s. Others(i) /\ post'[i].at # "recorded" BY DEF Works, Answers
<1>1. AloneUnderKey' BY AloneServed
<1>2. FreshKeys' BY FreshServed
<1>3. Owed'
  <2>1. ASSUME NEW s \in Sales PROVE IsFiniteSet(Owing(s)')
    BY <1>s, <2>1, OwingChanges DEF Owed
  <2>2. ASSUME NEW s \in Sales \ (together \cup missed'), s \notin missed
        PROVE  recorded[s] = effects'[s] + Cardinality(Owing(s)')
    <3>1. /\ IsFiniteSet(Owing(s)) /\ recorded[s] = effects[s] + Cardinality(Owing(s))
          /\ Cardinality(Owing(s)) \in Nat /\ effects[s] \in Nat
      BY <1>0, <2>2, FS_CardinalityType DEF Owed
    <3>2. i \notin Owing(s)' BY <1>s DEF Owing
    <3>3. CASE i \in Owing(s)
      <4>1. post[i].at = "recorded" /\ post[i].sale = s BY <3>3 DEF Owing
      <4>2. effects' = [effects EXCEPT ![s] = @ + 1] BY <2>2, <4>1
      <4>3. effects'[s] = effects[s] + 1 BY <1>0, <4>2
      <4>4. Cardinality(Owing(s)') = Cardinality(Owing(s)) - 1
        BY <1>s, <3>1, <3>2, <3>3, OwingChanges
      <4>. QED BY <3>1, <4>3, <4>4
    <3>4. CASE i \notin Owing(s)
      <4>1. Owing(s)' = Owing(s) BY <1>s, <3>1, <3>2, <3>4, OwingChanges
      <4>2. post[i].at = "recorded" => post[i].sale # s BY <3>4 DEF Owing
      <4>3. effects'[s] = effects[s] BY <1>0, <4>2
      <4>. QED BY <3>1, <4>1, <4>3
    <3>. QED BY <3>3, <3>4
  <2>3. missed \subseteq missed' OBVIOUS
  <2>. QED BY <2>1, <2>2, <2>3 DEF Owed
<1>. QED BY <1>1, <1>2, <1>3

\* No step leaves effects unaccounted for.
LEMMA NextEffectsOwed == ASSUME IInv, EffectsOwed, [Next]_vars PROVE EffectsOwed'
<1>0. TypeOK BY DEF IInv
<1>. USE DEF server
<1>s. (\A i \in Posts : post'[i] = post[i]) =>
        \A i \in Posts : Stays(post'[i], post[i]) \/ Leaves(post'[i], post[i])
  BY DEF Stays
<1>1. CASE \/ TillHears \/ TillLoses \/ CloseTab
           \/ \E y \in Syncs : SyncHears(y) \/ SyncLoses(y)
  <2>1. UNCHANGED <<recorded, used, effects, missed, together>>
    BY <1>1 DEF TillHears, TillLoses, CloseTab, SyncHears, SyncLoses
  <2>2. \A i \in Posts : Stays(post'[i], post[i]) \/ Leaves(post'[i], post[i])
    BY <1>0, <1>1, ClientStays
  <2>. QED BY <2>1, <2>2, EffectsOwedKept
<1>2. CASE \/ RingOffline \/ ClearQueue \/ UNCHANGED vars
           \/ \E y \in Syncs : StartSync(y)
  <2>1. UNCHANGED <<post, recorded, used, effects, missed, together>>
    BY <1>2 DEF RingOffline, ClearQueue, StartSync, vars
  <2>. QED BY <1>s, <2>1, EffectsOwedKept
<1>3. CASE RingOnline
  <2>1. Send(Till, ringing, NoKey) /\ UNCHANGED <<recorded, used, effects, missed>>
    BY <1>3 DEF RingOnline
  <2>. QED BY <1>0, <2>1, EffectsOwedSent
<1>4. ASSUME NEW y \in Syncs, SyncSends(y) PROVE EffectsOwed'
  <2>1. UNCHANGED <<recorded, used, effects, missed>> BY <1>4 DEF SyncSends
  <2>2. PICK s, k : Send(y, s, k) BY <1>4 DEF SyncSends
  <2>. QED BY <1>0, <2>1, <2>2, EffectsOwedSent
<1>5. ASSUME NEW i \in Posts, Lookup(i) PROVE EffectsOwed'
  <2>1. UNCHANGED <<recorded, used, effects, missed, together>> BY <1>5 DEF Lookup, At
  <2>2. \/ Works(i, {"arrived"}, {})
        \/ Works(i, {"arrived"}, {"looked"}) /\ ~KeyTaken(post[i])
    BY <1>0, <1>5, WorksOn
  <2>3. AloneUnderKey' BY <2>1, <2>2, AloneServed DEF Running, EffectsOwed
  <2>4. FreshKeys' BY <2>1, <2>2, FreshServed DEF EffectsOwed
  <2>5. Owed' BY <2>1, <2>2, OwedServed DEF EffectsOwed
  <2>. QED BY <2>3, <2>4, <2>5 DEF EffectsOwed
<1>6. ASSUME NEW i \in Posts, Refuse(i) \/ CheckStock(i) PROVE EffectsOwed'
  <2>1. UNCHANGED <<recorded, used, effects, missed, together>>
    BY <1>6 DEF Refuse, CheckStock, At
  <2>2. Works(i, {"arrived", "looked"}, {}) \/ Works(i, {"looked"}, {"checked"})
    BY <1>0, <1>6, WorksOn
  <2>3. AloneUnderKey' BY <2>1, <2>2, AloneServed DEF Running, EffectsOwed
  <2>4. FreshKeys' BY <2>1, <2>2, FreshServed DEF EffectsOwed
  <2>5. Owed' BY <2>1, <2>2, OwedServed DEF EffectsOwed
  <2>. QED BY <2>3, <2>4, <2>5 DEF EffectsOwed
<1>7. ASSUME NEW i \in Posts, Commit(i) PROVE EffectsOwed'
  BY <1>7, EffectsOwedCommitted
<1>8. ASSUME NEW i \in Posts, RunEffects(i) PROVE EffectsOwed'
  <2>1. /\ post[i].at = "recorded" /\ UNCHANGED <<recorded, used, missed, together>>
        /\ effects' = [effects EXCEPT ![post[i].sale] = @ + 1]
    BY <1>8 DEF RunEffects, At
  <2>2. Works(i, {"recorded"}, {}) BY <1>0, <1>8, WorksOn
  <2>. QED BY <2>1, <2>2, EffectsOwedPaid DEF Running
<1>9. ASSUME NEW i \in Posts, SkipEffects(i) PROVE EffectsOwed'
  <2>1. /\ post[i].at = "recorded" /\ UNCHANGED <<recorded, used, effects, together>>
        /\ missed' = missed \cup {post[i].sale}
    BY <1>9 DEF SkipEffects, At
  <2>2. Works(i, {"recorded"}, {}) BY <1>0, <1>9, WorksOn
  <2>. QED BY <2>1, <2>2, EffectsOwedPaid DEF Running
<1>10. ASSUME NEW i \in Posts, Die(i) PROVE EffectsOwed'
  <2>1. /\ UNCHANGED <<recorded, used, effects, together>>
        /\ missed' = IF post[i].at = "recorded"
                     THEN missed \cup {post[i].sale} ELSE missed
    BY <1>10 DEF Die, At
  <2>2. Works(i, Running, {}) BY <1>0, <1>10, WorksOn
  <2>. QED BY <2>1, <2>2, EffectsOwedPaid
<1>. QED BY <1>1, <1>2, <1>3, <1>4, <1>5, <1>6, <1>7, <1>8, <1>9, <1>10 DEF Next

\* Every record has had its loyalty points, audit entry and eTIMS event once,
\* unless two POSTs met under its key or the steps failed.
THEOREM EffectsOnce == Spec => []EffectsOncePerRecord
<1>1. Init => EffectsOwed
  <2>. SUFFICES ASSUME Init PROVE EffectsOwed OBVIOUS
  <2>1. \A i \in Posts : post[i].at = "free" BY DEF Init, Free
  <2>2. \A s \in Sales : Owing(s) = {} /\ recorded[s] = 0 /\ effects[s] = 0
    BY <2>1 DEF Owing, Init
  <2>3. Owed BY <2>2, FS_EmptySet DEF Owed
  <2>. QED BY <2>1, <2>3 DEF EffectsOwed, AloneUnderKey, FreshKeys, Running
<1>2. IInv /\ EffectsOwed /\ [Next]_vars => EffectsOwed' BY NextEffectsOwed
<1>3. ASSUME IInv, EffectsOwed PROVE EffectsOncePerRecord
  <2>. SUFFICES ASSUME NEW s \in Sales \ (together \cup missed),
                       \A i \in Posts : post[i].sale = s => post[i].at # "recorded"
                PROVE  effects[s] = recorded[s]
    BY DEF EffectsOncePerRecord
  <2>1. Owing(s) = {} BY DEF Owing
  <2>2. recorded[s] = effects[s] + Cardinality(Owing(s)) BY <1>3 DEF EffectsOwed, Owed
  <2>3. effects[s] \in Nat BY <1>3 DEF IInv, TypeOK
  <2>. QED BY <2>1, <2>2, <2>3, FS_EmptySet
<1>. QED BY <1>1, <1>2, <1>3, Inductive, PTL DEF Spec

=============================================================================
