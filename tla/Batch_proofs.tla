---------------------------- MODULE Batch_proofs ----------------------------
(***************************************************************************)
(* Proofs about BatchService, for any number of orders, any concurrency    *)
(* and any number of cancels, store failures and restarts.                 *)
(***************************************************************************)
EXTENDS Batch, FiniteSetTheorems, TLAPS

\* A worker between taking an index and filing it; a dead one never will.
Holding(w) == pc[w] \notin {"off", "gone"}

Early == {"idle", "arming", "saving", "disarming", "refused"}

\* Before the pool starts there is nothing stored.
NothingYet ==
    drive \in Early =>
        /\ next = 1 /\ meta = "none" /\ mark = "none"
        /\ \A w \in Worker : pc[w] = "off"

\* An index is held by one worker, and not yet filed.
HeldOnce ==
    /\ \A w \in Worker : Holding(w) =>
          held[w] \in Order /\ held[w] < next /\ filed[held[w]] = 0
    /\ \A w, v \in Worker : Holding(w) /\ Holding(v) /\ held[w] = held[v] => w = v

\* An index that was handed out is filed once or held; the others are not
\* filed.
NoneLost ==
    \A o \in Order :
        /\ o < next => filed[o] = 1 \/ \E w \in Worker : Holding(w) /\ held[w] = o
        /\ o >= next => filed[o] = 0

\* While the drive is on no worker is dead, and one leaves only when it may.
PoolIsWhole ==
    drive = "pool" => \A w \in Worker :
        /\ pc[w] \notin {"off", "dead"}
        /\ pc[w] = "gone" => cancelled \/ next > Total

\* "completed", written or about to be.
CompletedWhenAllFiled ==
    mark = "completed" \/ meta = "completed" => \A o \in Order : filed[o] = 1

\* A cancel names a batch that was accepted, and it stays accepted.
CancelNamesBatch ==
    /\ \A c \in Caller : asked[c] # "idle" => meta # "none"
    /\ drive = "marking" => mark # "none"

PoolInv ==
    /\ NothingYet /\ HeldOnce /\ NoneLost /\ PoolIsWhole /\ CompletedWhenAllFiled
    /\ CancelNamesBatch

----------------------------------------------------------------------------
\* The pool has a worker, and each starts on an order of its own.
LEMMA WorkerIsOrder ==
    /\ Total \in Nat \ {0}
    /\ 1 \in Worker
    /\ Worker \subseteq Order
    /\ Cardinality(Worker) \in Nat
    /\ \A o \in Order : o \in Worker <=> o < Cardinality(Worker) + 1
  <1> DEFINE n == IF Concurrency < Total THEN Concurrency ELSE Total
  <1>1. n \in Nat /\ 1 <= n /\ n <= Total
    BY SizeAssumption
  <1>2. Cardinality(1..n) = n
    BY <1>1, FS_Interval
  <1> HIDE DEF n
  <1>3. Worker = 1..n
    BY DEF Worker, n
  <1> QED BY <1>1, <1>2, <1>3, SizeAssumption DEF Order

\* Type correctness of the batch, part by part.
LEMMA InitTypes == BatchInit => BatchTypeOK
  <1>1. BatchInit => PoolTypeOK
    BY SizeAssumption DEF BatchInit, PoolTypeOK, WorkerAt, NoOrder
  <1>2. BatchInit => RunTypeOK /\ CancelTypeOK
    BY DEF BatchInit, RunTypeOK, CancelTypeOK
  <1>3. BatchInit => NoticeTypeOK
    BY DEF BatchInit, NoticeTypeOK
  <1>4. BatchInit => cancelled \in BOOLEAN
    BY DEF BatchInit
  <1> QED BY <1>1, <1>2, <1>3, <1>4 DEF BatchTypeOK

LEMMA PoolTypes ==
    ASSUME PoolTypeOK, [BatchNext]_vars
    PROVE  PoolTypeOK'
  <1>1. ASSUME Launch PROVE PoolTypeOK'
    BY <1>1, WorkerIsOrder DEF Launch, PoolTypeOK, WorkerAt, Counted, Driving
  <1>2. ASSUME Restart PROVE PoolTypeOK'
    BY <1>2 DEF Restart, PoolTypeOK, WorkerAt, Counted, Driving
  <1>3. ASSUME NEW w \in Worker, Count(w) PROVE PoolTypeOK'
    BY <1>3 DEF Count, PoolTypeOK, WorkerAt, Counted, Driving
  <1>4. ASSUME NEW w \in Worker, Create(w) PROVE PoolTypeOK'
    BY <1>4 DEF Create, PoolTypeOK, WorkerAt, Counted, Driving
  <1>5. ASSUME NEW w \in Worker, Poll(w) PROVE PoolTypeOK'
    BY <1>5 DEF Poll, PoolTypeOK, WorkerAt, Counted, Driving
  <1>6. ASSUME NEW w \in Worker, Act(w) PROVE PoolTypeOK'
    BY <1>6 DEF Act, PoolTypeOK, WorkerAt, Counted, Driving
  <1>7. ASSUME NEW w \in Worker, Leave(w) PROVE PoolTypeOK'
    BY <1>7 DEF Leave, PoolTypeOK, WorkerAt, Counted, Driving
  <1>8. ASSUME NEW w \in Worker, Score(w) PROVE PoolTypeOK'
    BY <1>8 DEF Score, PoolTypeOK, WorkerAt, Counted, Driving
  <1>9. ASSUME NEW w \in Worker, File(w) PROVE PoolTypeOK'
    <2>1. next' \in Nat \ {0}
      BY <1>9 DEF File, PoolTypeOK, NextTurn
    <2>2. pc' \in [Worker -> WorkerAt]
      BY <1>9 DEF File, PoolTypeOK, NextTurn, WorkerAt
    <2>3. next <= Total => next \in Order
      BY SizeAssumption DEF PoolTypeOK, Order
    <2>4. held' \in [Worker -> Order \cup {NoOrder}]
      BY <1>9, <2>3 DEF File, PoolTypeOK, NextTurn
    <2>5. filed' \in [Order -> Nat]
      <3>1. held[w] \in Order => filed[held[w]] + 1 \in Nat
        BY DEF PoolTypeOK
      <3> QED BY <1>9, <3>1 DEF File, PoolTypeOK
    <2> QED BY <1>9, <2>1, <2>2, <2>4, <2>5 DEF File, PoolTypeOK
  <1>10. ASSUME NEW w \in Worker, Expire(w) PROVE PoolTypeOK'
    BY <1>10 DEF Expire, PoolTypeOK, WorkerAt, Counted, Driving
  <1>11. ASSUME NEW w \in Worker, WorkerFault(w) PROVE PoolTypeOK'
    BY <1>11 DEF WorkerFault, PoolTypeOK, WorkerAt, Counted, Driving
  <1>12. ASSUME UNCHANGED vars PROVE PoolTypeOK'
    BY <1>12 DEF vars, poolVars, PoolTypeOK
  <1>13. ASSUME StartListener \/ WaitForSeller \/ Disarm \/ Decide \/ Mark
        PROVE  PoolTypeOK'
    BY <1>13 DEF StartListener, WaitForSeller, Disarm, Decide, Mark, PoolTypeOK, poolVars
  <1>14. ASSUME NEW c \in Caller, CallCancel(c) \/ ReadForCancel(c) \/ CancelPeer(c) \/ WriteCancelled(c)
        PROVE  PoolTypeOK'
    BY <1>14 DEF CallCancel, ReadForCancel, CancelPeer, WriteCancelled, PoolTypeOK, poolVars
  <1>15. ASSUME NEW o \in Order, \/ OnStatus(o) \/ Age(o) \/ SettleRead(o) \/ SettlePost(o)
                            \/ WatchRead(o) \/ WatchPost(o)
        PROVE  PoolTypeOK'
    BY <1>15 DEF OnStatus, Age, SettleRead, AwaitWithin, SettlePost, WatchRead, WatchPost, PoolTypeOK, poolVars
  <1> QED
    BY <1>1, <1>2, <1>3, <1>4, <1>5, <1>6, <1>7, <1>8, <1>9, <1>10, <1>11, <1>12, <1>13, <1>14, <1>15
    DEF BatchNext, Starting, Working, Cancelling, Notifying

LEMMA RunTypes ==
    ASSUME RunTypeOK, CancelTypeOK, [BatchNext]_vars
    PROVE  RunTypeOK'
  <1>1. ASSUME StartListener PROVE RunTypeOK'
    BY <1>1 DEF StartListener, RunTypeOK, CancelTypeOK, Fault
  <1>2. ASSUME WaitForSeller PROVE RunTypeOK'
    BY <1>2 DEF WaitForSeller, RunTypeOK, CancelTypeOK, Fault
  <1>3. ASSUME Launch PROVE RunTypeOK'
    BY <1>3 DEF Launch, RunTypeOK, CancelTypeOK, Fault
  <1>4. ASSUME Disarm PROVE RunTypeOK'
    BY <1>4 DEF Disarm, RunTypeOK, CancelTypeOK, Fault
  <1>5. ASSUME Decide PROVE RunTypeOK'
    BY <1>5 DEF Decide, RunTypeOK, CancelTypeOK, Fault
  <1>6. ASSUME Mark PROVE RunTypeOK'
    BY <1>6 DEF Mark, RunTypeOK, CancelTypeOK, Fault
  <1>7. ASSUME Restart PROVE RunTypeOK'
    BY <1>7 DEF Restart, RunTypeOK, CancelTypeOK, Fault
  <1>8. ASSUME NEW w \in Worker, WorkerFault(w) PROVE RunTypeOK'
    BY <1>8 DEF WorkerFault, RunTypeOK, CancelTypeOK, Fault
  <1>9. ASSUME NEW c \in Caller, CancelPeer(c) PROVE RunTypeOK'
    BY <1>9 DEF CancelPeer, RunTypeOK, CancelTypeOK, Fault
  <1>10. ASSUME NEW c \in Caller, WriteCancelled(c) PROVE RunTypeOK'
    BY <1>10 DEF WriteCancelled, RunTypeOK, CancelTypeOK, Fault
  <1>11. ASSUME UNCHANGED vars PROVE RunTypeOK'
    BY <1>11 DEF vars, RunTypeOK
  <1>12. ASSUME NEW w \in Worker, Count(w) \/ Create(w) \/ Poll(w) \/ Act(w) \/ Leave(w) \/ Score(w) \/ File(w) \/ Expire(w)
        PROVE  RunTypeOK'
    BY <1>12 DEF Count, Create, Poll, Act, Leave, Score, File, Expire, RunTypeOK
  <1>13. ASSUME NEW c \in Caller, CallCancel(c) \/ ReadForCancel(c)
        PROVE  RunTypeOK'
    BY <1>13 DEF CallCancel, ReadForCancel, RunTypeOK
  <1>14. ASSUME NEW o \in Order, \/ OnStatus(o) \/ Age(o) \/ SettleRead(o) \/ SettlePost(o)
                            \/ WatchRead(o) \/ WatchPost(o)
        PROVE  RunTypeOK'
    BY <1>14 DEF OnStatus, Age, SettleRead, AwaitWithin, SettlePost, WatchRead, WatchPost, RunTypeOK
  <1> QED
    BY <1>1, <1>2, <1>3, <1>4, <1>5, <1>6, <1>7, <1>8, <1>9, <1>10, <1>11, <1>12, <1>13, <1>14
    DEF BatchNext, Starting, Working, Cancelling, Notifying

LEMMA CancelTypes ==
    ASSUME CancelTypeOK, RunTypeOK, [BatchNext]_vars
    PROVE  CancelTypeOK'
  <1>1. ASSUME Restart PROVE CancelTypeOK'
    BY <1>1 DEF Restart, RunTypeOK, CancelTypeOK
  <1>2. ASSUME NEW c \in Caller, CallCancel(c) PROVE CancelTypeOK'
    BY <1>2 DEF CallCancel, RunTypeOK, CancelTypeOK
  <1>3. ASSUME NEW c \in Caller, ReadForCancel(c) PROVE CancelTypeOK'
    BY <1>3 DEF ReadForCancel, RunTypeOK, CancelTypeOK
  <1>4. ASSUME NEW c \in Caller, CancelPeer(c) PROVE CancelTypeOK'
    BY <1>4 DEF CancelPeer, RunTypeOK, CancelTypeOK
  <1>5. ASSUME NEW c \in Caller, WriteCancelled(c) PROVE CancelTypeOK'
    BY <1>5 DEF WriteCancelled, RunTypeOK, CancelTypeOK
  <1>6. ASSUME UNCHANGED vars PROVE CancelTypeOK'
    BY <1>6 DEF vars, cancelVars, CancelTypeOK
  <1>7. ASSUME StartListener \/ WaitForSeller \/ Launch \/ Disarm \/ Decide \/ Mark
        PROVE  CancelTypeOK'
    BY <1>7 DEF StartListener, WaitForSeller, Launch, Disarm, Decide, Mark, CancelTypeOK, cancelVars
  <1>8. ASSUME NEW w \in Worker, Count(w) \/ Create(w) \/ Poll(w) \/ Act(w) \/ Leave(w) \/ Score(w) \/ File(w) \/ Expire(w) \/ WorkerFault(w)
        PROVE  CancelTypeOK'
    BY <1>8 DEF Count, Create, Poll, Act, Leave, Score, File, Expire, WorkerFault, CancelTypeOK, cancelVars
  <1>9. ASSUME NEW o \in Order, \/ OnStatus(o) \/ Age(o) \/ SettleRead(o) \/ SettlePost(o)
                            \/ WatchRead(o) \/ WatchPost(o)
        PROVE  CancelTypeOK'
    BY <1>9 DEF OnStatus, Age, SettleRead, AwaitWithin, SettlePost, WatchRead, WatchPost, CancelTypeOK, cancelVars
  <1> QED
    BY <1>1, <1>2, <1>3, <1>4, <1>5, <1>6, <1>7, <1>8, <1>9
    DEF BatchNext, Starting, Working, Cancelling, Notifying

LEMMA NoticeTypes ==
    ASSUME NoticeTypeOK, [BatchNext]_vars
    PROVE  NoticeTypeOK'
  <1>1. ASSUME Restart PROVE NoticeTypeOK'
    BY <1>1 DEF Restart, NoticeTypeOK
  <1>2. ASSUME NEW w \in Worker, File(w) PROVE NoticeTypeOK'
    BY <1>2 DEF File, NoticeTypeOK
  <1>3. ASSUME NEW o \in Order, OnStatus(o) PROVE NoticeTypeOK'
    <2>1. done' \in [Order -> BOOLEAN]
      BY <1>3 DEF OnStatus, NoticeTypeOK
    <2>2. watching' \in [Order -> [reading : Nat, posting : Nat]]
      BY <1>3 DEF OnStatus, NoticeTypeOK
    <2>3. heard' \in [Order -> Nat]
      BY <1>3 DEF OnStatus, NoticeTypeOK
    <2>4. UNCHANGED <<awaiting, aged, notified, settling, posts>>
      BY <1>3 DEF OnStatus
    <2> QED BY <2>1, <2>2, <2>3, <2>4 DEF NoticeTypeOK
  <1>4. ASSUME NEW o \in Order, SettleRead(o) PROVE NoticeTypeOK'
    BY <1>4 DEF SettleRead, AwaitWithin, NoticeTypeOK
  <1>5. ASSUME NEW o \in Order, SettlePost(o) PROVE NoticeTypeOK'
    BY <1>5 DEF SettlePost, AwaitWithin, NoticeTypeOK
  <1>6. ASSUME NEW o \in Order, WatchRead(o) PROVE NoticeTypeOK'
    BY <1>6 DEF WatchRead, NoticeTypeOK
  <1>7. ASSUME NEW o \in Order, WatchPost(o) PROVE NoticeTypeOK'
    BY <1>7 DEF WatchPost, NoticeTypeOK
  <1>8. ASSUME UNCHANGED vars PROVE NoticeTypeOK'
    BY <1>8 DEF vars, noticeVars, NoticeTypeOK
  <1>9. ASSUME StartListener \/ WaitForSeller \/ Launch \/ Disarm \/ Decide \/ Mark
        PROVE  NoticeTypeOK'
    BY <1>9 DEF StartListener, WaitForSeller, Launch, Disarm, Decide, Mark, NoticeTypeOK, noticeVars
  <1>10. ASSUME NEW w \in Worker, Count(w) \/ Create(w) \/ Poll(w) \/ Act(w) \/ Leave(w) \/ Score(w) \/ Expire(w) \/ WorkerFault(w)
        PROVE  NoticeTypeOK'
    BY <1>10 DEF Count, Create, Poll, Act, Leave, Score, Expire, WorkerFault, NoticeTypeOK, noticeVars
  <1>11. ASSUME NEW c \in Caller, CallCancel(c) \/ ReadForCancel(c) \/ CancelPeer(c) \/ WriteCancelled(c)
        PROVE  NoticeTypeOK'
    BY <1>11 DEF CallCancel, ReadForCancel, CancelPeer, WriteCancelled, NoticeTypeOK, noticeVars
  <1>12. ASSUME NEW o \in Order, Age(o) PROVE NoticeTypeOK'
    BY <1>12 DEF Age, NoticeTypeOK
  <1> QED
    BY <1>1, <1>2, <1>3, <1>4, <1>5, <1>6, <1>7, <1>8, <1>9, <1>10, <1>11, <1>12
    DEF BatchNext, Starting, Working, Cancelling, Notifying

LEMMA CancelledType ==
    ASSUME cancelled \in BOOLEAN, [BatchNext]_vars
    PROVE  cancelled' \in BOOLEAN
  BY DEF BatchNext, vars, poolVars, cancelVars, noticeVars, Starting, StartListener, WaitForSeller,
         Launch, Disarm, Decide, Mark, Restart, Working, Count, Create, Poll, Act, Leave,
         Score, File, Expire, WorkerFault, CallCancel, Cancelling, ReadForCancel,
         CancelPeer, WriteCancelled, OnStatus, Age, Notifying, SettleRead, SettlePost,
         WatchRead, WatchPost

THEOREM BatchTypeCorrect == BatchSpec => []BatchTypeOK
  <1>1. BatchTypeOK /\ [BatchNext]_vars => BatchTypeOK'
    BY PoolTypes, RunTypes, CancelTypes, NoticeTypes, CancelledType DEF BatchTypeOK
  <1> QED BY InitTypes, <1>1, PTL DEF BatchSpec

----------------------------------------------------------------------------
(***************************************************************************)
(* No order is lost or driven twice.                                       *)
(***************************************************************************)

\* What the pool's invariant reads.
poolView == <<drive, meta, mark, next, pc, held, filed, cancelled, asked>>

LEMMA InitPool == BatchInit => PoolInv
  BY WorkerIsOrder
  DEF BatchInit, PoolInv, NothingYet, HeldOnce, NoneLost, PoolIsWhole,
      CompletedWhenAllFiled, CancelNamesBatch, Holding, Order, Early

LEMMA StillPool ==
    ASSUME PoolInv, UNCHANGED poolView
    PROVE  PoolInv'
  BY DEF PoolInv, poolView, NothingYet, HeldOnce, NoneLost, PoolIsWhole,
         CompletedWhenAllFiled, CancelNamesBatch, Holding

\* A worker that holds an order goes on holding it.
LEMMA WorkerMoves ==
    ASSUME PoolTypeOK, PoolInv, NEW w \in Worker, NEW place \in Driving \cup {"leaving", "scoring", "filing"},
           Holding(w), pc' = [pc EXCEPT ![w] = place],
           UNCHANGED <<drive, meta, mark, next, held, filed, cancelled, asked>>
    PROVE  PoolInv'
  <1>1. \A v \in Worker : Holding(v)' <=> Holding(v)
    BY DEF PoolTypeOK, Holding, Driving
  <1>2. NothingYet' /\ PoolIsWhole'
    BY DEF PoolInv, NothingYet, PoolIsWhole, PoolTypeOK, Holding, Driving
  <1>3. HeldOnce' /\ NoneLost'
    BY <1>1 DEF PoolInv, HeldOnce, NoneLost
  <1>4. CompletedWhenAllFiled' /\ CancelNamesBatch'
    BY DEF PoolInv, CompletedWhenAllFiled, CancelNamesBatch
  <1> QED BY <1>2, <1>3, <1>4 DEF PoolInv

\* A worker that dies keeps its order, and the drive is off.
LEMMA FaultKeepsPool ==
    ASSUME PoolTypeOK, PoolInv, NEW w \in Worker, WorkerFault(w)
    PROVE  PoolInv'
  <1>1. \A v \in Worker : Holding(v)' <=> Holding(v)
    BY DEF PoolTypeOK, Holding, WorkerFault
  <1>2. NothingYet' /\ PoolIsWhole'
    BY DEF PoolInv, NothingYet, PoolIsWhole, WorkerFault, Early
  <1>3. HeldOnce' /\ NoneLost'
    BY <1>1 DEF PoolInv, HeldOnce, NoneLost, WorkerFault
  <1>4. CompletedWhenAllFiled' /\ CancelNamesBatch'
    BY DEF PoolInv, CompletedWhenAllFiled, CancelNamesBatch, WorkerFault, cancelVars
  <1> QED BY <1>2, <1>3, <1>4 DEF PoolInv

\* The pool starts with one order in each hand.
LEMMA LaunchKeepsPool ==
    ASSUME BatchTypeOK, PoolInv, Launch
    PROVE  PoolInv'
  <1>1. next = 1 /\ meta = "none" /\ mark = "none" /\ \A w \in Worker : pc[w] = "off"
    BY DEF PoolInv, NothingYet, Launch, Early
  <1>2. \A o \in Order : filed[o] = 0
    BY <1>1 DEF PoolInv, NoneLost, Order
  <1>3. CASE drive' = "pool" /\ meta' = "running" /\ next' = Cardinality(Worker) + 1
             /\ pc' = [w \in Worker |-> "counting"] /\ held' = [w \in Worker |-> w]
    <2>1. UNCHANGED <<filed, mark, cancelled, asked>>
      BY DEF Launch, cancelVars
    <2>2. \A w \in Worker : Holding(w)' /\ held'[w] = w
      BY <1>3 DEF Holding
    <2>3. NothingYet' /\ PoolIsWhole'
      BY <1>3 DEF NothingYet, PoolIsWhole, Early
    <2>4. HeldOnce'
      <3>1. \A w \in Worker : w \in Order /\ w < next' /\ filed'[w] = 0
        BY <1>2, <1>3, <2>1, WorkerIsOrder
      <3> QED BY <2>2, <3>1 DEF HeldOnce
    <2>5. NoneLost'
      <3>1. \A o \in Order : o < next' => Holding(o)' /\ held'[o] = o /\ o \in Worker
        BY <1>3, <2>2, WorkerIsOrder
      <3> QED BY <1>2, <2>1, <3>1 DEF NoneLost
    <2>6. CompletedWhenAllFiled' /\ CancelNamesBatch'
      BY <1>1, <1>3, <2>1 DEF CompletedWhenAllFiled, CancelNamesBatch
    <2> QED BY <2>3, <2>4, <2>5, <2>6 DEF PoolInv
  <1>4. CASE drive' \in {"disarming", "refused"} /\ UNCHANGED <<meta, next, pc, held>>
    <2>1. UNCHANGED <<filed, mark, cancelled, asked>>
      BY DEF Launch, cancelVars
    <2> QED
      BY <1>1, <1>4, <2>1
      DEF PoolInv, NothingYet, HeldOnce, NoneLost, PoolIsWhole, CompletedWhenAllFiled,
          CancelNamesBatch, Holding, Early
  <1> QED BY <1>3, <1>4 DEF Launch

\* A worker files the order it holds and takes the next one, or leaves.
LEMMA FileKeepsPool ==
    ASSUME PoolTypeOK, PoolInv, NEW w \in Worker, File(w)
    PROVE  PoolInv'
  <1> DEFINE h == held[w]
  <1>1. /\ Holding(w) /\ h \in Order /\ h < next /\ filed[h] = 0
        /\ \A v \in Worker : Holding(v) /\ v # w => held[v] # h
    BY DEF PoolInv, HeldOnce, Holding, File
  <1>2. /\ filed' = [filed EXCEPT ![h] = 1]
        /\ UNCHANGED <<drive, meta, mark, cancelled, asked>>
    BY <1>1 DEF File, cancelVars, PoolTypeOK
  <1>3. \A o \in Order : filed'[o] = IF o = h THEN 1 ELSE filed[o]
    BY <1>2 DEF PoolTypeOK
  <1>4. next \in Nat /\ (next <= Total => next \in Order)
    BY SizeAssumption DEF PoolTypeOK, Order
  <1>5. NothingYet' /\ CancelNamesBatch'
    BY <1>1, <1>2 DEF PoolInv, NothingYet, CancelNamesBatch, Holding
  <1>6. CompletedWhenAllFiled'
    BY <1>1, <1>2 DEF PoolInv, CompletedWhenAllFiled
  <1>7. CASE pc' = [pc EXCEPT ![w] = "gone"] /\ next' \in {next, next + 1} /\ held' = held
             /\ ((cancelled /\ next' = next) \/ next > Total)
    <2>1. \A v \in Worker : Holding(v)' <=> Holding(v) /\ v # w
      BY <1>1, <1>7 DEF Holding, PoolTypeOK
    <2>2. HeldOnce'
      BY <1>1, <1>3, <1>4, <1>7, <2>1 DEF PoolInv, HeldOnce, Order
    <2>3. NoneLost'
      <3>1. \A o \in Order : (o < next' <=> o < next) \/ (o < next /\ o < next')
        BY <1>4, <1>7, SizeAssumption DEF Order
      <3> QED BY <1>1, <1>3, <1>4, <1>7, <2>1, <3>1 DEF PoolInv, NoneLost, Order
    <2>4. PoolIsWhole'
      BY <1>2, <1>4, <1>7, SizeAssumption DEF PoolInv, PoolIsWhole, PoolTypeOK
    <2> QED BY <1>5, <1>6, <2>2, <2>3, <2>4 DEF PoolInv
  <1>8. CASE pc' = [pc EXCEPT ![w] = "counting"] /\ next' = next + 1 /\ next <= Total
             /\ held' = [held EXCEPT ![w] = next]
    <2>1. \A v \in Worker : /\ Holding(v)' <=> Holding(v)
                            /\ held'[v] = IF v = w THEN next ELSE held[v]
      BY <1>1, <1>8 DEF Holding, PoolTypeOK
    <2>2. filed[next] = 0 /\ next # h
      BY <1>1, <1>4, <1>8 DEF PoolInv, NoneLost, Order
    <2>3. HeldOnce'
      <3>1. \A v \in Worker : Holding(v) /\ v # w => held[v] # next /\ held[v] # h
        BY <1>1, <1>4 DEF PoolInv, HeldOnce, Order
      <3>2. ASSUME NEW v \in Worker, Holding(v)'
            PROVE  held'[v] \in Order /\ held'[v] < next' /\ filed'[held'[v]] = 0
        BY <1>3, <1>4, <1>8, <2>1, <2>2, <3>1, <3>2 DEF PoolInv, HeldOnce, Order
      <3>3. ASSUME NEW u \in Worker, NEW v \in Worker,
                   Holding(u)', Holding(v)', held'[u] = held'[v]
            PROVE  u = v
        BY <2>1, <3>1, <3>3 DEF PoolInv, HeldOnce
      <3> QED BY <3>2, <3>3 DEF HeldOnce
    <2>4. NoneLost'
      <3>1. ASSUME NEW o \in Order, o < next'
            PROVE  filed'[o] = 1 \/ \E v \in Worker : Holding(v)' /\ held'[v] = o
        <4>1. CASE o = next
          BY <1>1, <2>1, <4>1
        <4>2. CASE o < next
          BY <1>3, <2>1, <4>2 DEF PoolInv, NoneLost
        <4> QED BY <1>4, <1>8, <3>1, <4>1, <4>2 DEF Order
      <3>2. ASSUME NEW o \in Order, o >= next'
            PROVE  filed'[o] = 0
        BY <1>1, <1>3, <1>4, <1>8, <3>2 DEF PoolInv, NoneLost, Order
      <3> QED BY <3>1, <3>2 DEF NoneLost
    <2>5. PoolIsWhole'
      BY <1>2, <1>4, <1>8, SizeAssumption DEF PoolInv, PoolIsWhole, PoolTypeOK
    <2> QED BY <1>5, <1>6, <2>3, <2>4, <2>5 DEF PoolInv
  <1> QED BY <1>7, <1>8, <1>4 DEF File, NextTurn

\* Every worker left: what the drive writes is true.
LEMMA DecideKeepsPool ==
    ASSUME PoolTypeOK, PoolInv, Decide
    PROVE  PoolInv'
  <1>1. /\ UNCHANGED <<meta, next, pc, held, filed, cancelled, asked>>
        /\ drive' = "marking" /\ mark' # "none"
    BY DEF Decide, poolVars, cancelVars
  <1>2. ASSUME mark' = "completed" PROVE \A o \in Order : filed[o] = 1
    <2>1. ~cancelled
      BY <1>2 DEF Decide
    <2>2. next > Total
      BY <2>1, WorkerIsOrder DEF Decide, PoolInv, PoolIsWhole
    <2>3. \A o \in Order : o < next
      BY <2>2, SizeAssumption DEF Order, PoolTypeOK
    <2>4. \A w \in Worker : ~Holding(w)
      BY DEF Decide, Holding
    <2> QED BY <2>3, <2>4 DEF PoolInv, NoneLost
  <1> QED
    BY <1>1, <1>2
    DEF PoolInv, NothingYet, HeldOnce, NoneLost, PoolIsWhole, CompletedWhenAllFiled,
        CancelNamesBatch, Holding, Early

\* A restart takes the workers and the drive, and leaves what is stored.
LEMMA RestartKeepsPool ==
    ASSUME PoolTypeOK, CancelTypeOK, PoolInv, Restart
    PROVE  PoolInv'
  <1>1. UNCHANGED <<meta, mark, next, held, filed>>
    BY DEF Restart
  <1>2. \A w \in Worker : /\ Holding(w)' <=> Holding(w)
                          /\ pc[w] = "off" => pc'[w] = "off"
    BY DEF Restart, Holding
  <1>3. HeldOnce' /\ NoneLost' /\ CompletedWhenAllFiled'
    BY <1>1, <1>2 DEF PoolInv, HeldOnce, NoneLost, CompletedWhenAllFiled
  <1>4. NothingYet' /\ PoolIsWhole'
    BY <1>1, <1>2 DEF PoolInv, NothingYet, PoolIsWhole, Restart, Early
  <1>5. CancelNamesBatch'
    BY <1>1 DEF PoolInv, CancelNamesBatch, Restart
  <1> QED BY <1>3, <1>4, <1>5 DEF PoolInv

\* The start before the pool, the final write, and the cancels.
LEMMA OthersKeepPool ==
    ASSUME PoolInv,
           \/ StartListener \/ WaitForSeller \/ Disarm \/ Mark
           \/ \E c \in Caller : CallCancel(c) \/ Cancelling(c)
    PROVE  PoolInv'
  <1> USE DEF PoolInv, NothingYet, HeldOnce, NoneLost, PoolIsWhole, CompletedWhenAllFiled,
              CancelNamesBatch, Holding, Early, poolVars, cancelVars
  <1>1. CASE StartListener \/ WaitForSeller \/ Disarm
    BY <1>1 DEF StartListener, WaitForSeller, Disarm
  <1>2. CASE Mark
    <2>1. /\ mark # "none" /\ drive' \in {"ended", "crashed"} /\ meta' \in {meta, mark}
          /\ UNCHANGED <<mark, next, pc, held, filed, cancelled, asked>>
      BY <1>2 DEF Mark
    <2> QED BY <2>1
  <1>3. ASSUME NEW c \in Caller, CallCancel(c) \/ ReadForCancel(c) \/ CancelPeer(c)
        PROVE  PoolInv'
    BY <1>3 DEF CallCancel, ReadForCancel, CancelPeer
  <1>4. ASSUME NEW c \in Caller, WriteCancelled(c) PROVE PoolInv'
    BY <1>4 DEF WriteCancelled
  <1> QED BY <1>1, <1>2, <1>3, <1>4 DEF Cancelling

\* The inductive invariant of the worker pool.
THEOREM PoolInvariant == BatchSpec => []PoolInv
  <1>1. BatchTypeOK /\ PoolInv /\ [BatchNext]_vars => PoolInv'
    <2> SUFFICES ASSUME BatchTypeOK, PoolInv, [BatchNext]_vars PROVE PoolInv'
      OBVIOUS
    <2>0. PoolTypeOK /\ CancelTypeOK
      BY DEF BatchTypeOK
    <2>1. CASE Starting
      BY <2>1, OthersKeepPool, LaunchKeepsPool DEF Starting
    <2>2. CASE Decide \/ Mark \/ Restart
      BY <2>0, <2>2, DecideKeepsPool, OthersKeepPool, RestartKeepsPool
    <2>3. ASSUME NEW w \in Worker,
                 \/ Count(w) \/ Create(w) \/ Poll(w) \/ Act(w) \/ Leave(w) \/ Score(w)
                 \/ Expire(w)
          PROVE  PoolInv'
      <3>1. CASE UNCHANGED poolView
        BY <3>1, StillPool
      <3>2. CASE ~UNCHANGED poolView
        <4>1. /\ Holding(w)
              /\ \E place \in Driving \cup {"leaving", "scoring", "filing"} :
                    pc' = [pc EXCEPT ![w] = place]
              /\ UNCHANGED <<drive, meta, mark, next, held, filed, cancelled, asked>>
          BY <2>3, <3>2
          DEF Count, Create, Poll, Act, Leave, Score, Expire, Holding, Driving, cancelVars,
              poolView
        <4> QED BY <2>0, <4>1, WorkerMoves
      <3> QED BY <3>1, <3>2
    <2>4. ASSUME NEW w \in Worker, WorkerFault(w) \/ File(w) PROVE PoolInv'
      BY <2>0, <2>4, FaultKeepsPool, FileKeepsPool
    <2>5. ASSUME NEW c \in Caller, CallCancel(c) \/ Cancelling(c) PROVE PoolInv'
      BY <2>5, OthersKeepPool
    <2>6. ASSUME NEW o \in Order, OnStatus(o) \/ Age(o) \/ Notifying(o) PROVE PoolInv'
      <3>1. UNCHANGED poolView
        BY <2>6
        DEF OnStatus, Age, Notifying, SettleRead, SettlePost, WatchRead, WatchPost, poolVars,
            cancelVars, poolView
      <3> QED BY <3>1, StillPool
    <2>7. CASE UNCHANGED vars
      BY <2>7, StillPool DEF vars, poolVars, cancelVars, poolView
    <2> QED BY <2>1, <2>2, <2>3, <2>4, <2>5, <2>6, <2>7 DEF BatchNext, Working
  <1> QED BY InitPool, BatchTypeCorrect, <1>1, PTL DEF BatchSpec

\* A batch stored as "completed" has one result for each of its orders,
\* however many orders and workers (#driveAll).
THEOREM CompletedBatchesAreComplete == BatchSpec => []CompletedIsComplete
  <1>1. PoolInv => CompletedIsComplete
    BY DEF PoolInv, CompletedWhenAllFiled, CompletedIsComplete
  <1> QED BY PoolInvariant, <1>1, PTL

----------------------------------------------------------------------------
(***************************************************************************)
(* The seller, and the completion notice.                                  *)
(***************************************************************************)

\* A start that ended told a seller whose batch id we hold, and so did a cancel
\* that got past it; without a seller there is nobody to arm.
SellerTold ==
    /\ drive = "idle" => peer = "none"
    /\ ~HasPeer => peer # "armed"
    /\ drive = "refused" => peer # "armed"
    /\ \A c \in Caller :
          /\ asked[c] # "idle" => drive # "idle"
          /\ asked[c] \in {"writing", "answered"} => peer # "armed"

\* A seller is armed once, before any cancel, and never again: a call that is
\* answered, and a start that is refused, leave behind no seller that answered
\* with its batch id and was not told (batch_run_start's catch,
\* batch_run_cancel).  One whose answer was lost is out of reach of both.
THEOREM EverySellerHeardFromIsTold == BatchSpec => []NothingLeftArmed
  <1>1. BatchInit => SellerTold
    BY DEF BatchInit, SellerTold
  <1>2. BatchTypeOK /\ PoolInv /\ SellerTold /\ [BatchNext]_vars => SellerTold'
    <2> SUFFICES ASSUME CancelTypeOK, PoolInv, SellerTold, [BatchNext]_vars
                 PROVE  SellerTold'
      BY DEF BatchTypeOK
    <2> USE DEF SellerTold
    <2>0. drive \in Early => \A c \in Caller : asked[c] = "idle"
      BY DEF PoolInv, NothingYet, CancelNamesBatch
    <2>1. CASE StartListener
      BY <2>0, <2>1 DEF StartListener, Early, cancelVars
    <2>2. CASE WaitForSeller \/ Launch \/ Disarm
      BY <2>0, <2>2 DEF WaitForSeller, Launch, Disarm, Early, cancelVars
    <2>3. CASE Decide \/ Mark
      BY <2>3 DEF Decide, Mark, cancelVars
    <2>4. CASE Restart
      BY <2>4 DEF Restart
    <2>5. ASSUME NEW w \in Worker, Working(w) \/ Expire(w) \/ WorkerFault(w)
          PROVE  SellerTold'
      BY <2>5
      DEF Working, Count, Create, Poll, Act, Leave, Score, File, Expire, WorkerFault,
          cancelVars
    <2>6. ASSUME NEW c \in Caller, CallCancel(c) PROVE SellerTold'
      BY <2>6 DEF CallCancel, PoolInv, NothingYet, Early, CancelTypeOK
    <2>7. ASSUME NEW c \in Caller, Cancelling(c) PROVE SellerTold'
      <3>1. CASE ReadForCancel(c)
        BY <3>1 DEF ReadForCancel, CancelTypeOK
      <3>2. CASE CancelPeer(c)
        BY <3>2 DEF CancelPeer, CancelTypeOK
      <3>3. CASE WriteCancelled(c)
        BY <3>3 DEF WriteCancelled, CancelTypeOK
      <3> QED BY <2>7, <3>1, <3>2, <3>3 DEF Cancelling
    <2>8. ASSUME NEW o \in Order, OnStatus(o) \/ Age(o) \/ Notifying(o) PROVE SellerTold'
      BY <2>8
      DEF OnStatus, Age, Notifying, SettleRead, SettlePost, WatchRead, WatchPost, cancelVars
    <2>9. CASE UNCHANGED vars
      BY <2>9 DEF vars, cancelVars
    <2> QED
      BY <2>1, <2>2, <2>3, <2>4, <2>5, <2>6, <2>7, <2>8, <2>9 DEF BatchNext, Starting
  <1>3. SellerTold => NothingLeftArmed
    BY DEF SellerTold, NothingLeftArmed, Answered
  <1> QED BY BatchTypeCorrect, PoolInvariant, <1>1, <1>2, <1>3, PTL DEF BatchSpec

\* Nothing but its age lets go of an order whose on_confirm has not gone out,
\* for any number of on_status calls, of posts that fail and of other orders
\* registered in between (#settleCompletion, #awaitWithin).
THEOREM OnlyTimeForgetsANotice == BatchSpec => []NeverForgotten
  <1>1. BatchInit => NeverForgotten
    BY SizeAssumption DEF BatchInit, NeverForgotten, Order
  <1>2. BatchTypeOK /\ PoolInv /\ NeverForgotten /\ [BatchNext]_vars => NeverForgotten'
    <2> SUFFICES ASSUME PoolTypeOK, RunTypeOK, NoticeTypeOK, PoolInv, NeverForgotten,
                        [BatchNext]_vars
                 PROVE  NeverForgotten'
      BY DEF BatchTypeOK
    <2> USE SizeAssumption DEF NeverForgotten, Order
    <2>1. CASE Starting \/ Decide \/ Mark
      BY <2>1
      DEF Starting, StartListener, WaitForSeller, Launch, Disarm, Decide, Mark, noticeVars,
          poolVars
    <2>2. CASE Restart
      BY <2>2 DEF Restart, RunTypeOK
    <2>3. ASSUME NEW w \in Worker, Act(w) PROVE NeverForgotten'
      <3>1. filed[held[w]] = 0
        BY <2>3 DEF Act, PoolInv, HeldOnce, Holding
      <3>2. \A o \in Watched : o # held[w] => traded'[o] = traded[o]
        BY <2>3 DEF Act, PoolTypeOK
      <3> QED BY <2>3, <3>1, <3>2 DEF Act, noticeVars
    <2>4. ASSUME NEW w \in Worker, File(w) PROVE NeverForgotten'
      <3>1. \A o \in Watched : o # held[w] => filed'[o] = filed[o] /\ settling'[o] = settling[o]
        BY <2>4 DEF File, PoolTypeOK, NoticeTypeOK
      <3>2. held[w] \in Watched /\ traded[held[w]] => settling'[held[w]] = "reading"
        BY <2>4 DEF File, NoticeTypeOK
      <3> QED BY <2>4, <3>1, <3>2 DEF File
    <2>5. ASSUME NEW w \in Worker,
                 \/ Working(w) /\ ~Act(w) /\ ~File(w)
                 \/ Expire(w) \/ WorkerFault(w)
          PROVE  NeverForgotten'
      BY <2>5
      DEF Working, Count, Create, Poll, Leave, Score, Expire, WorkerFault, noticeVars
    <2>6. ASSUME NEW c \in Caller, CallCancel(c) \/ Cancelling(c) PROVE NeverForgotten'
      BY <2>6
      DEF CallCancel, Cancelling, ReadForCancel, CancelPeer, WriteCancelled, noticeVars, poolVars
    <2>7. ASSUME NEW o \in Order, OnStatus(o) \/ Age(o) \/ WatchRead(o) \/ WatchPost(o)
          PROVE  NeverForgotten'
      BY <2>7 DEF OnStatus, Age, WatchRead, WatchPost, poolVars
    <2>8. ASSUME NEW o \in Order, SettleRead(o) \/ SettlePost(o) PROVE NeverForgotten'
      <3>1. \A x \in Order : x # o => settling'[x] = settling[x]
        BY <2>8 DEF SettleRead, SettlePost, NoticeTypeOK
      <3>2. CASE SettleRead(o)
        BY <3>1, <3>2 DEF SettleRead, AwaitWithin, NoticeTypeOK, poolVars
      <3>3. CASE SettlePost(o)
        BY <3>1, <3>3 DEF SettlePost, AwaitWithin, NoticeTypeOK, poolVars
      <3> QED BY <2>8, <3>2, <3>3
    <2>9. CASE UNCHANGED vars
      BY <2>9 DEF vars, noticeVars, poolVars
    <2> QED
      BY <2>1, <2>2, <2>3, <2>4, <2>5, <2>6, <2>7, <2>8, <2>9 DEF BatchNext, Notifying
  <1> QED BY BatchTypeCorrect, PoolInvariant, <1>1, <1>2, PTL DEF BatchSpec
----------------------------------------------------------------------------
(***************************************************************************)
(* The counters of batch_run_status.                                       *)
(***************************************************************************)

\* The counters count two disjoint sets of orders: those in flight and those
\* under a status.  Where a worker is says which of them its order is in; of
\* the order of a dead worker nothing is known, except that nobody else has it.
CountersCount(flying, scored) ==
    /\ flying \in SUBSET Order /\ scored \in SUBSET Order /\ flying \cap scored = {}
    /\ inFlight = Cardinality(flying) /\ tally = Cardinality(scored)
    /\ \A o \in flying \cup scored : o < next
    /\ \A o \in Order : filed[o] # 0 => o \in scored
    /\ \A w \in Worker :
        /\ pc[w] \in Counted => held[w] \in flying
        /\ pc[w] = "filing" => held[w] \in scored
        /\ pc[w] \in {"counting", "scoring"} => held[w] \notin flying \cup scored

CountersOK == \E flying, scored \in SUBSET Order : CountersCount(flying, scored)

\* What CountersCount reads.
countersView == <<next, pc, held, inFlight, tally, filed>>

LEMMA OrdersAreTotal ==
    /\ IsFiniteSet(Order) /\ Cardinality(Order) = Total
    /\ \A S \in SUBSET Order : IsFiniteSet(S) /\ Cardinality(S) \in 0..Total
  <1>1. IsFiniteSet(Order) /\ Cardinality(Order) = Total
    BY SizeAssumption, FS_Interval DEF Order
  <1>2. ASSUME NEW S \in SUBSET Order PROVE IsFiniteSet(S) /\ Cardinality(S) \in 0..Total
    <2>1. IsFiniteSet(S) /\ Cardinality(S) <= Cardinality(Order)
      BY <1>1, FS_Subset
    <2>2. Cardinality(S) \in Nat
      BY <2>1, FS_CardinalityType
    <2> QED BY <1>1, <2>1, <2>2, SizeAssumption
  <1> QED BY <1>1, <1>2

\* An order joins a set it was not in, or leaves one it was in.
LEMMA OneOrderMore ==
    ASSUME NEW S \in SUBSET Order, NEW o \in Order
    PROVE  /\ o \notin S => Cardinality(S \cup {o}) = Cardinality(S) + 1
           /\ o \in S => Cardinality(S \ {o}) = Cardinality(S) - 1
  <1>1. IsFiniteSet(S) /\ Cardinality(S) \in Nat
    BY OrdersAreTotal
  <1> QED BY <1>1, FS_AddElement, FS_RemoveElement

LEMMA CountersStay ==
    ASSUME CountersOK, UNCHANGED countersView
    PROVE  CountersOK'
  BY DEF CountersOK, CountersCount, countersView

\* A worker moves between places of one kind.
LEMMA CountersStayWithMove ==
    ASSUME PoolTypeOK, CountersOK, NEW w \in Worker, NEW place \in WorkerAt,
           pc' = [pc EXCEPT ![w] = place],
           \/ pc[w] \in Counted /\ place \in Counted
           \/ place = "dead",
           UNCHANGED <<next, held, inFlight, tally, filed>>
    PROVE  CountersOK'
  <1>1. PICK flying \in SUBSET Order, scored \in SUBSET Order : CountersCount(flying, scored)
    BY DEF CountersOK
  <1>2. \A v \in Worker : pc'[v] = IF v = w THEN place ELSE pc[v]
    BY DEF PoolTypeOK
  <1>3. CountersCount(flying, scored)'
    BY <1>1, <1>2 DEF CountersCount, Counted, Driving
  <1> QED BY <1>3 DEF CountersOK

LEMMA CountCounts ==
    ASSUME PoolTypeOK, PoolInv, CountersOK, NEW w \in Worker, Count(w)
    PROVE  CountersOK'
  <1>0. PICK h : h = held[w]
    OBVIOUS
  <1>1. PICK flying \in SUBSET Order, scored \in SUBSET Order : CountersCount(flying, scored)
    BY DEF CountersOK
  <1>2. /\ h \in Order /\ h < next /\ h \notin flying \cup scored
        /\ \A v \in Worker : Holding(v) /\ v # w => held[v] # h
    BY <1>0, <1>1 DEF PoolInv, HeldOnce, Holding, Count, CountersCount
  <1>3. Cardinality(flying \cup {h}) = Cardinality(flying) + 1
    BY <1>2, OneOrderMore
  <1>4. /\ UNCHANGED <<next, held, tally, filed>> /\ inFlight' = inFlight + 1
        /\ \A v \in Worker : pc'[v] = IF v = w THEN "creating" ELSE pc[v]
    BY DEF Count, PoolTypeOK
  <1>5. CountersCount(flying \cup {h}, scored)'
    <2>1. ASSUME NEW v \in Worker
          PROVE  /\ pc'[v] \in Counted => held[v] \in flying \cup {h}
                 /\ pc'[v] = "filing" => held[v] \in scored
                 /\ pc'[v] \in {"counting", "scoring"} => held[v] \notin flying \cup {h} \cup scored
      BY <1>0, <1>1, <1>2, <1>4 DEF CountersCount, Counted, Driving, Holding
    <2> QED BY <1>1, <1>2, <1>3, <1>4, <2>1 DEF CountersCount
  <1>6. flying \cup {h} \in SUBSET Order
    BY <1>2
  <1> QED BY <1>5, <1>6 DEF CountersOK

LEMMA LeaveCounts ==
    ASSUME PoolTypeOK, PoolInv, CountersOK, NEW w \in Worker, Leave(w)
    PROVE  CountersOK'
  <1>0. PICK h : h = held[w]
    OBVIOUS
  <1>1. PICK flying \in SUBSET Order, scored \in SUBSET Order : CountersCount(flying, scored)
    BY DEF CountersOK
  <1>2. /\ h \in Order /\ h < next /\ h \in flying
        /\ \A v \in Worker : Holding(v) /\ v # w => held[v] # h
    BY <1>0, <1>1 DEF PoolInv, HeldOnce, Holding, Leave, CountersCount, Counted
  <1>3. Cardinality(flying \ {h}) = Cardinality(flying) - 1
    BY <1>2, OneOrderMore
  <1>4. /\ UNCHANGED <<next, held, tally, filed>> /\ inFlight' = inFlight - 1
        /\ \A v \in Worker : pc'[v] = IF v = w THEN "scoring" ELSE pc[v]
    BY DEF Leave, PoolTypeOK
  <1>5. CountersCount(flying \ {h}, scored)'
    <2>1. ASSUME NEW v \in Worker
          PROVE  /\ pc'[v] \in Counted => held[v] \in flying \ {h}
                 /\ pc'[v] = "filing" => held[v] \in scored
                 /\ pc'[v] \in {"counting", "scoring"} => held[v] \notin (flying \ {h}) \cup scored
      BY <1>0, <1>1, <1>2, <1>4 DEF CountersCount, Counted, Driving, Holding
    <2> QED BY <1>1, <1>2, <1>3, <1>4, <2>1 DEF CountersCount
  <1>6. flying \ {h} \in SUBSET Order
    BY <1>2
  <1> QED BY <1>5, <1>6 DEF CountersOK

LEMMA ScoreCounts ==
    ASSUME PoolTypeOK, PoolInv, CountersOK, NEW w \in Worker, Score(w)
    PROVE  CountersOK'
  <1>0. PICK h : h = held[w]
    OBVIOUS
  <1>1. PICK flying \in SUBSET Order, scored \in SUBSET Order : CountersCount(flying, scored)
    BY DEF CountersOK
  <1>2. /\ h \in Order /\ h < next /\ h \notin flying \cup scored
        /\ \A v \in Worker : Holding(v) /\ v # w => held[v] # h
    BY <1>0, <1>1 DEF PoolInv, HeldOnce, Holding, Score, CountersCount
  <1>3. Cardinality(scored \cup {h}) = Cardinality(scored) + 1
    BY <1>2, OneOrderMore
  <1>4. /\ UNCHANGED <<next, held, inFlight, filed>> /\ tally' = tally + 1
        /\ \A v \in Worker : pc'[v] = IF v = w THEN "filing" ELSE pc[v]
    BY DEF Score, PoolTypeOK
  <1>5. CountersCount(flying, scored \cup {h})'
    <2>1. ASSUME NEW v \in Worker
          PROVE  /\ pc'[v] \in Counted => held[v] \in flying
                 /\ pc'[v] = "filing" => held[v] \in scored \cup {h}
                 /\ pc'[v] \in {"counting", "scoring"} => held[v] \notin flying \cup (scored \cup {h})
      BY <1>0, <1>1, <1>2, <1>4 DEF CountersCount, Counted, Driving, Holding
    <2> QED BY <1>1, <1>2, <1>3, <1>4, <2>1 DEF CountersCount
  <1>6. scored \cup {h} \in SUBSET Order
    BY <1>2
  <1> QED BY <1>5, <1>6 DEF CountersOK

\* The order that is filed is scored; the next one is in neither set.
LEMMA FileCounts ==
    ASSUME PoolTypeOK, PoolInv, CountersOK, NEW w \in Worker, File(w)
    PROVE  CountersOK'
  <1> DEFINE h == held[w]
  <1>1. PICK flying \in SUBSET Order, scored \in SUBSET Order : CountersCount(flying, scored)
    BY DEF CountersOK
  <1>2. h \in Order /\ h \in scored /\ next \in Nat
    BY <1>1 DEF PoolInv, HeldOnce, Holding, File, CountersCount, PoolTypeOK
  <1>3. /\ UNCHANGED <<inFlight, tally>> /\ next' \in {next, next + 1}
        /\ \A o \in Order : o # h => filed'[o] = filed[o]
        /\ \A v \in Worker : v # w => pc'[v] = pc[v] /\ held'[v] = held[v]
        /\ \/ pc'[w] = "gone"
           \/ pc'[w] = "counting" /\ held'[w] = next
    BY DEF File, NextTurn, PoolTypeOK
  <1>4. CountersCount(flying, scored)'
    <2>1. ASSUME NEW v \in Worker
          PROVE  /\ pc'[v] \in Counted => held'[v] \in flying
                 /\ pc'[v] = "filing" => held'[v] \in scored
                 /\ pc'[v] \in {"counting", "scoring"} => held'[v] \notin flying \cup scored
      BY <1>1, <1>2, <1>3 DEF CountersCount, Counted, Driving
    <2>2. \A o \in flying \cup scored : o < next'
      BY <1>1, <1>2, <1>3 DEF CountersCount, Order
    <2>3. \A o \in Order : filed'[o] # 0 => o \in scored
      BY <1>1, <1>2, <1>3 DEF CountersCount
    <2> QED BY <1>1, <1>3, <2>1, <2>2, <2>3 DEF CountersCount
  <1> QED BY <1>4 DEF CountersOK

LEMMA LaunchCounts ==
    ASSUME PoolTypeOK, PoolInv, CountersOK, Launch
    PROVE  CountersOK'
  <1>1. PICK flying \in SUBSET Order, scored \in SUBSET Order : CountersCount(flying, scored)
    BY DEF CountersOK
  <1>2. next = 1
    BY DEF PoolInv, NothingYet, Launch, Early
  <1>3. flying = {} /\ scored = {}
    BY <1>1, <1>2 DEF CountersCount, Order
  <1>4. CASE /\ next' = Cardinality(Worker) + 1
             /\ pc' = [w \in Worker |-> "counting"]
             /\ UNCHANGED <<inFlight, tally, filed>>
    <2>1. CountersCount(flying, scored)'
      BY <1>1, <1>3, <1>4 DEF CountersCount, Counted, Driving
    <2> QED BY <2>1 DEF CountersOK
  <1>5. CASE UNCHANGED countersView
    BY <1>5, CountersStay
  <1> QED BY <1>4, <1>5 DEF Launch, countersView

LEMMA RestartCounts ==
    ASSUME PoolTypeOK, CountersOK, Restart
    PROVE  CountersOK'
  <1>1. PICK flying \in SUBSET Order, scored \in SUBSET Order : CountersCount(flying, scored)
    BY DEF CountersOK
  <1>2. /\ UNCHANGED <<next, held, inFlight, tally, filed>>
        /\ \A v \in Worker : pc'[v] \in {pc[v], "dead"}
    BY DEF Restart
  <1>3. CountersCount(flying, scored)'
    BY <1>1, <1>2 DEF CountersCount, Counted, Driving
  <1> QED BY <1>3 DEF CountersOK

\* The counters count orders, each once, whatever workers die holding one.
LEMMA CountersInvariant == BatchSpec => []CountersOK
  <1>1. BatchInit => CountersOK
    <2> SUFFICES ASSUME BatchInit PROVE CountersCount({}, {})
      BY DEF CountersOK
    <2> QED BY FS_EmptySet DEF BatchInit, CountersCount, Counted, Driving
  <1>2. BatchTypeOK /\ PoolInv /\ CountersOK /\ [BatchNext]_vars => CountersOK'
    <2> SUFFICES ASSUME PoolTypeOK, PoolInv, CountersOK, [BatchNext]_vars PROVE CountersOK'
      BY DEF BatchTypeOK
    <2>1. CASE Launch \/ Restart
      BY <2>1, LaunchCounts, RestartCounts
    <2>2. CASE StartListener \/ WaitForSeller \/ Disarm \/ Decide \/ Mark
      BY <2>2, CountersStay
      DEF StartListener, WaitForSeller, Disarm, Decide, Mark, poolVars, countersView
    <2>3. ASSUME NEW w \in Worker, Count(w) \/ Leave(w) \/ Score(w) \/ File(w)
          PROVE  CountersOK'
      BY <2>3, CountCounts, LeaveCounts, ScoreCounts, FileCounts
    <2>4. ASSUME NEW w \in Worker,
                 Create(w) \/ Poll(w) \/ Act(w) \/ Expire(w) \/ WorkerFault(w)
          PROVE  CountersOK'
      <3>1. CASE UNCHANGED countersView
        BY <3>1, CountersStay
      <3>2. CASE ~UNCHANGED countersView
        <4>1. /\ UNCHANGED <<next, held, inFlight, tally, filed>>
              /\ \E place \in WorkerAt :
                    /\ pc' = [pc EXCEPT ![w] = place]
                    /\ (pc[w] \in Counted /\ place \in Counted) \/ place = "dead"
          BY <2>4, <3>2
          DEF Create, Poll, Act, Expire, WorkerFault, countersView, WorkerAt, Counted, Driving
        <4> QED BY <4>1, CountersStayWithMove
      <3> QED BY <3>1, <3>2
    <2>5. ASSUME NEW c \in Caller, CallCancel(c) \/ Cancelling(c) PROVE CountersOK'
      BY <2>5, CountersStay
      DEF CallCancel, Cancelling, ReadForCancel, CancelPeer, WriteCancelled, poolVars,
          countersView
    <2>6. ASSUME NEW o \in Order, OnStatus(o) \/ Age(o) \/ Notifying(o) PROVE CountersOK'
      BY <2>6, CountersStay
      DEF OnStatus, Age, Notifying, SettleRead, SettlePost, WatchRead, WatchPost, poolVars,
          countersView
    <2>7. CASE UNCHANGED vars
      BY <2>7, CountersStay DEF vars, poolVars, countersView
    <2> QED BY <2>1, <2>2, <2>3, <2>4, <2>5, <2>6, <2>7 DEF BatchNext, Starting, Working
  <1> QED BY <1>1, <1>2, BatchTypeCorrect, PoolInvariant, PTL DEF BatchSpec

\* What batch_run_status subtracts never goes below zero, and of a completed
\* batch nothing is left in flight, for any number of orders and of workers
\* that died in between.
THEOREM StatusCountersAddUp == BatchSpec => []StatusAddsUp
  <1>1. PoolInv /\ CountersOK => StatusAddsUp
    <2> SUFFICES ASSUME PoolInv, CountersOK PROVE StatusAddsUp
      OBVIOUS
    <2>1. PICK flying \in SUBSET Order, scored \in SUBSET Order : CountersCount(flying, scored)
      BY DEF CountersOK
    <2>2. /\ IsFiniteSet(flying) /\ IsFiniteSet(scored) /\ flying \cap scored = {}
          /\ inFlight = Cardinality(flying) /\ tally = Cardinality(scored)
          /\ inFlight \in Nat /\ tally \in Nat
      BY <2>1, OrdersAreTotal DEF CountersCount
    <2>3. inFlight + tally <= Total
      <3>1. Cardinality(flying \cup scored) = Cardinality(flying) + Cardinality(scored)
        <4>1. Cardinality(flying \cap scored) = 0
          BY <2>2, FS_EmptySet
        <4>2. Cardinality(flying \cup scored)
                = Cardinality(flying) + Cardinality(scored) - Cardinality(flying \cap scored)
          BY <2>2, FS_Union
        <4> QED BY <2>2, <4>1, <4>2
      <3>2. Cardinality(flying \cup scored) <= Total
        <4>1. flying \cup scored \in SUBSET Order
          OBVIOUS
        <4> QED BY <4>1, OrdersAreTotal
      <3> QED BY <2>2, <3>1, <3>2
    <2>4. ASSUME meta = "completed" PROVE inFlight = 0 /\ tally = Total
      <3>1. scored = Order
        BY <2>1, <2>4 DEF PoolInv, CompletedWhenAllFiled, CountersCount
      <3>2. flying = {}
        BY <2>2, <3>1
      <3> QED BY <2>2, <3>1, <3>2, OrdersAreTotal, FS_EmptySet
    <2> QED BY <2>2, <2>3, <2>4 DEF StatusAddsUp
  <1> QED BY <1>1, PoolInvariant, CountersInvariant, PTL
=============================================================================
