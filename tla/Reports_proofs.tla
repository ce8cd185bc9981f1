--------------------------- MODULE Reports_proofs ---------------------------
(***************************************************************************)
(* Proofs about the two ways a report leaves the server: the mirror's sink *)
(* (for any queue limit, any batch size and any number of records, posts   *)
(* and losses) and the incident corpus (for any signatures, promises and   *)
(* failures).                                                              *)
(***************************************************************************)
EXTENDS Mirror, Incidents, FunctionTheorems, FiniteSetTheorems, TLAPS

-----------------------------------------------------------------------------
\* The sink.

\* No post in flight leaves nothing in flight.
IdleHoldsNothing == ~sending => batch = <<>> /\ carried = 0

\* The batch in flight and the queue hold records taken so far ...
HeldWasTaken == Items(batch) \cup Items(queue) \subseteq 1..emitted

\* ... each in order, and the batch ahead of the queue.
InOrder ==
  /\ Increasing(batch)
  /\ Increasing(queue)
  /\ \A i \in DOMAIN batch, j \in DOMAIN queue : batch[i] < queue[j]

SinkInv == MirrorTypeOK /\ QueueIsBounded /\ IdleHoldsNothing /\ HeldWasTaken /\ InOrder

-----------------------------------------------------------------------------
\* What the first n items of a sequence are.
LEMMA FrontOf ==
  ASSUME NEW s \in Seq(Nat), NEW n \in 0..Len(s)
  PROVE  LET t == SubSeq(s, 1, n)
         IN  /\ t \in Seq(Nat) /\ Len(t) = n /\ DOMAIN t = 1..n
             /\ \A i \in 1..n : t[i] = s[i]
OBVIOUS

\* What the items after the n-th are.
LEMMA BackOf ==
  ASSUME NEW s \in Seq(Nat), NEW n \in 0..Len(s)
  PROVE  LET t == SubSeq(s, n + 1, Len(s))
         IN  /\ t \in Seq(Nat) /\ Len(t) = Len(s) - n /\ DOMAIN t = 1..(Len(s) - n)
             /\ \A i \in 1..(Len(s) - n) : t[i] = s[i + n]
OBVIOUS

\* A concatenation of two ordered sequences, the first below the second.
LEMMA OrderedJoin ==
  ASSUME NEW s \in Seq(Nat), NEW t \in Seq(Nat), Increasing(s), Increasing(t),
         \A i \in DOMAIN s, j \in DOMAIN t : s[i] < t[j]
  PROVE  s \o t \in Seq(Nat) /\ Increasing(s \o t) /\ Items(s \o t) = Items(s) \cup Items(t)
<1> DEFINE u == s \o t
<1>1. u \in Seq(Nat) /\ Len(u) = Len(s) + Len(t)
  OBVIOUS
<1>2. /\ \A i \in 1..Len(s) : u[i] = s[i]
      /\ \A i \in 1..Len(t) : u[Len(s) + i] = t[i]
  OBVIOUS
<1>3. /\ \A i \in 1..Len(u) : i > Len(s) => u[i] = t[i - Len(s)] /\ i - Len(s) \in 1..Len(t)
      /\ \A i \in 1..Len(u) : i <= Len(s) => u[i] = s[i] /\ i \in 1..Len(s)
  OBVIOUS
<1>4. DOMAIN s = 1..Len(s) /\ DOMAIN t = 1..Len(t) /\ DOMAIN u = 1..Len(u)
  BY <1>1
<1>5. ASSUME NEW i \in DOMAIN u, NEW j \in DOMAIN u, i < j
      PROVE  u[i] < u[j]
  <2>1. CASE j <= Len(s)
    BY <2>1, <1>3, <1>4, <1>5 DEF Increasing
  <2>2. CASE i > Len(s)
    BY <2>2, <1>1, <1>3, <1>4, <1>5 DEF Increasing
  <2>3. CASE i <= Len(s) /\ j > Len(s)
    BY <2>3, <1>3, <1>4
  <2> QED
    BY <2>1, <2>2, <2>3, <1>1, <1>4
<1>6. Items(u) = Items(s) \cup Items(t)
  <2>1. ASSUME NEW x \in Items(u) PROVE x \in Items(s) \cup Items(t)
    <3>1. PICK i \in DOMAIN u : x = u[i]
      BY DEF Items
    <3> QED
      BY <3>1, <1>3, <1>4, <1>1 DEF Items
  <2>2. ASSUME NEW x \in Items(s) PROVE x \in Items(u)
    <3>1. PICK i \in DOMAIN s : x = s[i]
      BY DEF Items
    <3> QED
      BY <3>1, <1>2, <1>4, <1>1 DEF Items
  <2>3. ASSUME NEW x \in Items(t) PROVE x \in Items(u)
    <3>1. PICK i \in DOMAIN t : x = t[i]
      BY DEF Items
    <3>2. Len(s) + i \in DOMAIN u /\ u[Len(s) + i] = x
      BY <3>1, <1>2, <1>4, <1>1
    <3> QED
      BY <3>2 DEF Items
  <2> QED
    BY <2>1, <2>2, <2>3
<1> QED
  BY <1>1, <1>5, <1>6 DEF Increasing

\* The queue emit pushes on: ordered, no longer than before, and one item shorter
\* when it was at the limit.
LEMMA RoomIsMade ==
  ASSUME queue \in Seq(Nat), Increasing(queue), QueueIsBounded
  PROVE  /\ Room \in Seq(Nat) /\ Increasing(Room) /\ Len(Room) < QueueMax
         /\ Items(Room) \subseteq Items(queue)
         /\ Len(queue) >= QueueMax => /\ Items(queue) \subseteq Items(Room) \cup {queue[1]}
         /\ Len(queue) < QueueMax => Room = queue
<1>1. CASE Len(queue) < QueueMax
  BY <1>1, QueueAssumption DEF Room, Items
<1>2. CASE Len(queue) >= QueueMax
  <2>1. /\ Room = Tail(queue) /\ Len(queue) >= 1 /\ Room \in Seq(Nat)
        /\ Len(Room) = Len(queue) - 1 /\ DOMAIN Room = 1..Len(Room)
        /\ DOMAIN queue = 1..Len(queue)
    BY <1>2, QueueAssumption DEF Room
  <2>2. \A i \in 1..Len(Room) : Room[i] = queue[i + 1]
    BY <2>1
  <2>3. Increasing(Room)
    BY <2>1, <2>2 DEF Increasing
  <2>4. Items(Room) \subseteq Items(queue)
    BY <2>1, <2>2 DEF Items
  <2>5. ASSUME NEW i \in DOMAIN queue, i # 1
        PROVE  i - 1 \in DOMAIN Room /\ Room[i - 1] = queue[i]
    BY <2>1, <2>2, <2>5
  <2>6. Items(queue) \subseteq Items(Room) \cup {queue[1]}
    BY <2>5 DEF Items
  <2>7. Len(Room) < QueueMax /\ ~(Len(queue) < QueueMax)
    BY <1>2, <2>1, QueueAssumption DEF QueueIsBounded
  <2> QED
    BY <2>1, <2>3, <2>4, <2>6, <2>7
<1> QED
  BY <1>1, <1>2, QueueAssumption
-----------------------------------------------------------------------------
\* The part of the invariant about what the sink holds.
Held == /\ queue \in Seq(Nat) /\ batch \in Seq(Nat)
        /\ dropped \in Nat /\ carried \in Nat /\ sending \in BOOLEAN
        /\ QueueIsBounded /\ IdleHoldsNothing /\ HeldWasTaken /\ InOrder

\* emit keeps it.
LEMMA EmitHolds == SinkInv /\ Emit => Held'
<1> SUFFICES ASSUME SinkInv, Emit PROVE Held'
  OBVIOUS
<1> DEFINE e == emitted + 1
<1>1. /\ queue \in Seq(Nat) /\ batch \in Seq(Nat) /\ emitted \in Nat /\ dropped \in Nat
      /\ queue' = Append(Room, e) /\ batch' = batch /\ emitted' = e
      /\ carried' = carried /\ sending' = sending
      /\ dropped' \in Nat
  BY DEF SinkInv, MirrorTypeOK, Emit, Shifted
<1>2. /\ Room \in Seq(Nat) /\ Increasing(Room) /\ Len(Room) < QueueMax
      /\ Items(Room) \subseteq Items(queue)
  BY <1>1, RoomIsMade DEF SinkInv, InOrder
<1>3. /\ queue' \in Seq(Nat) /\ Len(queue') = Len(Room) + 1
      /\ \A i \in 1..Len(Room) : queue'[i] = Room[i]
      /\ queue'[Len(Room) + 1] = e
      /\ DOMAIN Room = 1..Len(Room) /\ DOMAIN queue' = 1..(Len(Room) + 1)
  BY <1>1, <1>2
<1>4. \A i \in DOMAIN queue' :
         (i \in DOMAIN Room /\ queue'[i] = Room[i]) \/ (i = Len(Room) + 1 /\ queue'[i] = e)
  BY <1>2, <1>3
<1>5. Items(Room) \subseteq 1..emitted /\ Items(batch) \subseteq 1..emitted
  BY <1>2 DEF SinkInv, HeldWasTaken
<1>6. /\ \A i \in DOMAIN Room : Room[i] \in Items(Room) /\ Room[i] \in Items(queue)
      /\ \A i \in DOMAIN batch : batch[i] \in Items(batch)
  BY <1>2 DEF Items
<1>7. QueueIsBounded'
  BY <1>2, <1>3, QueueAssumption DEF QueueIsBounded
<1>8. HeldWasTaken'
  <2>1. Items(queue') \subseteq 1..e
    <3> SUFFICES ASSUME NEW i \in DOMAIN queue' PROVE queue'[i] \in 1..e
      BY DEF Items
    <3> QED
      BY <1>4, <1>5, <1>6, <1>1
  <2> QED
    BY <2>1, <1>1, <1>5 DEF HeldWasTaken
<1>9. Increasing(queue')
  <2> SUFFICES ASSUME NEW i \in DOMAIN queue', NEW j \in DOMAIN queue', i < j
              PROVE  queue'[i] < queue'[j]
    BY DEF Increasing
  <2>1. i \in DOMAIN Room /\ queue'[i] = Room[i]
    BY <1>2, <1>3, <1>4
  <2>2. CASE j \in DOMAIN Room /\ queue'[j] = Room[j]
    BY <2>1, <2>2, <1>2 DEF Increasing
  <2>3. CASE queue'[j] = e
    BY <2>1, <2>3, <1>1, <1>5, <1>6
  <2> QED
    BY <2>2, <2>3, <1>4
<1>10. \A i \in DOMAIN batch, j \in DOMAIN queue' : batch[i] < queue'[j]
  <2> SUFFICES ASSUME NEW i \in DOMAIN batch, NEW j \in DOMAIN queue'
              PROVE  batch[i] < queue'[j]
    OBVIOUS
  <2>1. CASE j \in DOMAIN Room /\ queue'[j] = Room[j]
    <3>1. PICK k \in DOMAIN queue : queue[k] = Room[j]
      BY <2>1, <1>2, <1>6 DEF Items
    <3> QED
      BY <2>1, <3>1 DEF SinkInv, InOrder
  <2>2. CASE queue'[j] = e
    BY <2>2, <1>1, <1>5, <1>6
  <2> QED
    BY <2>1, <2>2, <1>4
<1>11. InOrder'
  <2>1. Increasing(batch')
    BY <1>1 DEF SinkInv, InOrder
  <2> QED
    BY <2>1, <1>1, <1>9, <1>10 DEF InOrder
<1>12. IdleHoldsNothing' /\ carried' \in Nat /\ sending' \in BOOLEAN
  BY <1>1 DEF SinkInv, IdleHoldsNothing, MirrorTypeOK
<1> QED
  BY <1>1, <1>3, <1>7, <1>8, <1>11, <1>12 DEF Held

\* flush keeps it.
LEMMA FlushHolds ==
  SinkInv /\ Flush /\ emitted' = emitted => Held' /\ posts' \in Nat
<1> SUFFICES ASSUME SinkInv, Flush, emitted' = emitted PROVE Held' /\ posts' \in Nat
  OBVIOUS
<1>1. CASE sending \/ queue = <<>>
  BY <1>1 DEF Flush, SinkInv, Held, MirrorTypeOK, QueueIsBounded, IdleHoldsNothing,
              HeldWasTaken, InOrder, Increasing, Items
<1>2. CASE ~(sending \/ queue = <<>>)
  <2> DEFINE n == Least(BatchSize, Len(queue))
  <2>1. /\ queue \in Seq(Nat) /\ emitted \in Nat /\ dropped \in Nat
        /\ batch' = SubSeq(queue, 1, n)
        /\ queue' = SubSeq(queue, n + 1, Len(queue))
        /\ carried' = dropped /\ dropped' = 0 /\ sending' = TRUE
        /\ posts' \in Nat
    BY <1>2 DEF Flush, SinkInv, MirrorTypeOK
  <2>2. n \in 0..Len(queue)
    BY <2>1, BatchAssumption DEF Least
  <2> HIDE DEF n
  <2>3. /\ batch' \in Seq(Nat) /\ DOMAIN batch' = 1..n
        /\ \A i \in 1..n : batch'[i] = queue[i]
    BY <2>1, <2>2, FrontOf
  <2>4. /\ queue' \in Seq(Nat) /\ Len(queue') = Len(queue) - n
        /\ DOMAIN queue' = 1..(Len(queue) - n)
        /\ \A i \in 1..(Len(queue) - n) : queue'[i] = queue[i + n]
    BY <2>1, <2>2, BackOf
  <2>5. QueueIsBounded'
    BY <2>1, <2>2, <2>4, QueueAssumption DEF QueueIsBounded, SinkInv
  <2>6. DOMAIN queue = 1..Len(queue) /\ Increasing(queue) /\ Items(queue) \subseteq 1..emitted
    BY <2>1 DEF SinkInv, InOrder, HeldWasTaken
  <2>7. Items(batch') \subseteq Items(queue)
    BY <2>2, <2>3, <2>6 DEF Items
  <2>8. Items(queue') \subseteq Items(queue)
    <3>0. Len(queue) \in Nat /\ n \in Nat /\ n <= Len(queue)
      BY <2>1, <2>2
    <3>1. \A i \in DOMAIN queue' : i + n \in DOMAIN queue /\ queue'[i] = queue[i + n]
      BY <3>0, <2>4, <2>6
    <3> QED
      BY <3>1 DEF Items
  <2>9. HeldWasTaken'
    BY <2>6, <2>7, <2>8 DEF HeldWasTaken
  <2>10. InOrder'
    <3>1. Len(queue) \in Nat /\ n \in Nat /\ n <= Len(queue)
      BY <2>1, <2>2
    <3>2. Increasing(batch')
      BY <3>1, <2>3, <2>6 DEF Increasing
    <3>3. Increasing(queue')
      <4> SUFFICES ASSUME NEW i \in DOMAIN queue', NEW j \in DOMAIN queue', i < j
                  PROVE  queue'[i] < queue'[j]
        BY DEF Increasing
      <4>1. /\ i + n \in DOMAIN queue /\ j + n \in DOMAIN queue /\ i + n < j + n
            /\ queue'[i] = queue[i + n] /\ queue'[j] = queue[j + n]
        BY <3>1, <2>4, <2>6
      <4> QED
        BY <4>1, <2>6 DEF Increasing
    <3>4. ASSUME NEW i \in DOMAIN batch', NEW j \in DOMAIN queue'
          PROVE  batch'[i] < queue'[j]
      <4>0. i \in 1..n /\ j \in 1..(Len(queue) - n)
        BY <2>3, <2>4
      <4>1. i \in DOMAIN queue /\ j + n \in DOMAIN queue /\ i < j + n
        BY <4>0, <3>1, <2>6
      <4>2. batch'[i] = queue[i] /\ queue'[j] = queue[j + n]
        BY <4>0, <2>3, <2>4
      <4> QED
        BY <4>1, <4>2, <2>6 DEF Increasing
    <3> QED
      BY <3>2, <3>3, <3>4 DEF InOrder
  <2> QED
    BY <2>1, <2>3, <2>4, <2>5, <2>9, <2>10 DEF Held, IdleHoldsNothing
<1> QED
  BY <1>1, <1>2

\* The end of a post keeps it, whether the batch is put back or not.
LEMMA PostOverHolds ==
  SinkInv /\ PostOver /\ (Requeue \/ UNCHANGED <<queue, dropped>>) => Held'
<1> SUFFICES ASSUME SinkInv, PostOver, Requeue \/ UNCHANGED <<queue, dropped>> PROVE Held'
  OBVIOUS
<1>1. /\ queue \in Seq(Nat) /\ batch \in Seq(Nat) /\ dropped \in Nat /\ carried \in Nat
      /\ batch' = <<>> /\ carried' = 0 /\ sending' = FALSE /\ emitted' = emitted
      /\ Len(queue) <= QueueMax
  BY DEF SinkInv, MirrorTypeOK, PostOver, QueueIsBounded
<1>2. /\ Increasing(batch) /\ Increasing(queue)
      /\ \A i \in DOMAIN batch, j \in DOMAIN queue : batch[i] < queue[j]
      /\ Items(batch) \cup Items(queue) \subseteq 1..emitted
  BY DEF SinkInv, InOrder, HeldWasTaken
<1>3. /\ dropped' \in Nat
      /\ \/ queue' = queue
         \/ queue' = batch \o queue /\ Len(queue) + Len(batch) <= QueueMax
  BY <1>1 DEF Requeue
<1>4. queue' \in Seq(Nat) /\ Increasing(queue') /\ Items(queue') \subseteq 1..emitted
  BY <1>1, <1>2, <1>3, OrderedJoin
<1>5. Len(queue') <= QueueMax
  <2>1. Len(batch \o queue) = Len(batch) + Len(queue)
    BY <1>1
  <2> QED
    BY <2>1, <1>1, <1>3, QueueAssumption
<1>6. Items(<<>>) = {} /\ Increasing(<<>>) /\ DOMAIN <<>> = {} /\ <<>> \in Seq(Nat)
  BY DEF Items, Increasing
<1>7. InOrder'
  BY <1>1, <1>4, <1>6 DEF InOrder
<1>8. HeldWasTaken'
  BY <1>1, <1>4, <1>6 DEF HeldWasTaken
<1> QED
  BY <1>1, <1>3, <1>4, <1>5, <1>6, <1>7, <1>8 DEF Held, QueueIsBounded, IdleHoldsNothing
-----------------------------------------------------------------------------
\* What does not touch the sink keeps what it holds.
LEMMA SinkHolds == SinkInv /\ UNCHANGED <<emitted, sink>> => Held'
BY DEF SinkInv, Held, sink, MirrorTypeOK, QueueIsBounded, IdleHoldsNothing, HeldWasTaken,
       InOrder, Increasing, Items

\* The initial state.
LEMMA SinkInit == Init => SinkInv
<1> SUFFICES ASSUME Init PROVE SinkInv
  OBVIOUS
<1>1. Items(<<>>) = {} /\ Increasing(<<>>) /\ DOMAIN <<>> = {} /\ <<>> \in Seq(Nat)
  BY DEF Items, Increasing
<1>2. MirrorTypeOK
  BY <1>1 DEF Init, MirrorTypeOK
<1>3. QueueIsBounded
  BY QueueAssumption DEF Init, QueueIsBounded
<1>4. IdleHoldsNothing /\ HeldWasTaken /\ InOrder
  BY <1>1 DEF Init, IdleHoldsNothing, HeldWasTaken, InOrder
<1> QED
  BY <1>2, <1>3, <1>4 DEF SinkInv

\* Every step.
LEMMA SinkNext == SinkInv /\ [Next]_vars => SinkInv'
<1> SUFFICES ASSUME SinkInv, [Next]_vars PROVE SinkInv'
  OBVIOUS
<1> DEFINE Rest == /\ emitted \in Nat /\ scheduled \in BOOLEAN /\ closed \in BOOLEAN
                   /\ stored \subseteq Nat /\ reported \in Nat
                   /\ late \subseteq [items : SUBSET Nat, lost : Nat] /\ posts \in Nat
<1>0. Rest /\ carried \in Nat /\ Items(batch) \subseteq Nat
  BY DEF SinkInv, MirrorTypeOK, HeldWasTaken
<1>1. CASE Emit
  BY <1>0, <1>1, EmitHolds DEF Emit, Held, SinkInv, MirrorTypeOK
<1>2. CASE Tick
  BY <1>0, <1>2, FlushHolds DEF Tick, Held, SinkInv, MirrorTypeOK
<1>3. CASE RunScheduled
  BY <1>0, <1>3, FlushHolds DEF RunScheduled, Held, SinkInv, MirrorTypeOK
<1>4. CASE Close
  BY <1>0, <1>4, FlushHolds DEF Close, Held, SinkInv, MirrorTypeOK
<1>5. CASE Accepted
  <2>1. Held'
    BY <1>5, PostOverHolds DEF Accepted
  <2>2. /\ stored' = stored \cup Items(batch) /\ reported' = reported + carried
        /\ UNCHANGED <<emitted, scheduled, closed, late, posts>>
    BY <1>5 DEF Accepted, PostOver, Store
  <2>3. Rest'
    <3>0. stored' \subseteq Nat
      BY <1>0, <2>2, Zenon
    <3>1. emitted' \in Nat /\ reported' \in Nat /\ posts' \in Nat
      BY <1>0, <2>2
    <3>2. late' \subseteq [items : SUBSET Nat, lost : Nat]
      BY <1>0, <2>2, Zenon
    <3>3. scheduled' \in BOOLEAN /\ closed' \in BOOLEAN
      BY <1>0, <2>2, Zenon
    <3> QED
      BY <3>0, <3>1, <3>2, <3>3
  <2> QED
    BY <2>1, <2>3 DEF Held, SinkInv, MirrorTypeOK
<1>6. CASE Refused
  <2>1. Held'
    BY <1>6, PostOverHolds DEF Refused
  <2>2. Rest'
    BY <1>0, <1>6 DEF Refused, PostOver
  <2> QED
    BY <2>1, <2>2 DEF Held, SinkInv, MirrorTypeOK
<1>7. CASE AnswerLost
  <2>1. Held'
    BY <1>7, PostOverHolds DEF AnswerLost
  <2>2. /\ stored' = stored \cup Items(batch) /\ reported' = reported + carried
        /\ UNCHANGED <<emitted, scheduled, closed, late, posts>>
    BY <1>7 DEF AnswerLost, PostOver, Store
  <2>3. Rest'
    <3>0. stored' \subseteq Nat
      BY <1>0, <2>2, Zenon
    <3>1. emitted' \in Nat /\ reported' \in Nat /\ posts' \in Nat
      BY <1>0, <2>2
    <3>2. late' \subseteq [items : SUBSET Nat, lost : Nat]
      BY <1>0, <2>2, Zenon
    <3>3. scheduled' \in BOOLEAN /\ closed' \in BOOLEAN
      BY <1>0, <2>2, Zenon
    <3> QED
      BY <3>0, <3>1, <3>2, <3>3
  <2> QED
    BY <2>1, <2>3 DEF Held, SinkInv, MirrorTypeOK
<1>8. CASE TimedOut
  <2>1. Held'
    BY <1>8, PostOverHolds DEF TimedOut
  <2>2. [items |-> Items(batch), lost |-> carried] \in [items : SUBSET Nat, lost : Nat]
    BY <1>0
  <2>3. Rest'
    BY <1>0, <1>8, <2>2 DEF TimedOut, PostOver
  <2> QED
    BY <2>1, <2>3 DEF Held, SinkInv, MirrorTypeOK
<1>9. ASSUME NEW p \in late, LateStore(p) PROVE SinkInv'
  <2>1. Held'
    BY <1>9, SinkHolds DEF LateStore
  <2>2. p.items \subseteq Nat /\ p.lost \in Nat
    BY <1>0, <1>9
  <2>3. /\ stored' = stored \cup p.items /\ reported' = reported + p.lost
        /\ late' = late \ {p}
        /\ UNCHANGED <<emitted, scheduled, closed, posts>>
    BY <1>9 DEF LateStore, Store, sink
  <2>4. Rest'
    <3>0. stored' \subseteq Nat
      BY <1>0, <2>2, <2>3, Zenon
    <3>1. emitted' \in Nat /\ reported' \in Nat /\ posts' \in Nat
      BY <1>0, <2>2, <2>3
    <3>2. late' \subseteq [items : SUBSET Nat, lost : Nat]
      BY <1>0, <2>2, <2>3, Zenon
    <3>3. scheduled' \in BOOLEAN /\ closed' \in BOOLEAN
      BY <1>0, <2>2, <2>3, Zenon
    <3> QED
      BY <3>0, <3>1, <3>2, <3>3
  <2> QED
    BY <2>1, <2>4 DEF Held, SinkInv, MirrorTypeOK
<1>10. CASE UNCHANGED vars
  <2>1. Held'
    BY <1>10, SinkHolds DEF vars
  <2>2. Rest'
    BY <1>0, <1>10 DEF vars, sink
  <2> QED
    BY <2>1, <2>2 DEF Held, SinkInv, MirrorTypeOK
<1> QED
  BY <1>1, <1>2, <1>3, <1>4, <1>5, <1>6, <1>7, <1>8, <1>9, <1>10 DEF Next

\* The sink's invariant, and with it the types, the bound and the order.
THEOREM SinkInvariant == Spec => []SinkInv
BY SinkInit, SinkNext, PTL DEF Spec

\* The queue never grows past its limit, however often a batch is refused.
THEOREM QueueKeepsItsLimit == Spec => []QueueIsBounded
<1>1. SinkInv => QueueIsBounded
  BY DEF SinkInv
<1> QED
  BY <1>1, SinkInvariant, PTL

\* What the sink holds stays in the order of the emit calls through every retry.
THEOREM RetriesKeepTheOrder == Spec => []OrderSurvivesARetry
<1>1. SinkInv => OrderSurvivesARetry
  BY OrderedJoin DEF SinkInv, MirrorTypeOK, InOrder, OrderSurvivesARetry
<1> QED
  BY <1>1, SinkInvariant, PTL

-----------------------------------------------------------------------------
\* A set that grew by no more than D has at most as many members more.
LEMMA GrownBy ==
  ASSUME NEW S, NEW T, NEW D, IsFiniteSet(S), IsFiniteSet(D), T \subseteq S \cup D
  PROVE  /\ IsFiniteSet(T)
         /\ Cardinality(T) \in Nat /\ Cardinality(S) \in Nat /\ Cardinality(D) \in Nat
         /\ Cardinality(T) <= Cardinality(S) + Cardinality(D)
<1>1. /\ IsFiniteSet(S \cup D) /\ IsFiniteSet(S \cap D)
      /\ Cardinality(S \cup D) = Cardinality(S) + Cardinality(D) - Cardinality(S \cap D)
  BY FS_Union, FS_Intersection
<1>2. IsFiniteSet(T) /\ Cardinality(T) <= Cardinality(S \cup D)
  BY <1>1, FS_Subset
<1>3. /\ Cardinality(T) \in Nat /\ Cardinality(S) \in Nat /\ Cardinality(D) \in Nat
      /\ Cardinality(S \cap D) \in Nat /\ Cardinality(S \cup D) \in Nat
  BY <1>1, <1>2, FS_CardinalityType
<1> QED
  BY <1>1, <1>2, <1>3

\* A sequence holds at most as many items as it is long.
LEMMA ItemsAreFew ==
  ASSUME NEW s \in Seq(Nat)
  PROVE  /\ IsFiniteSet(Items(s)) /\ Cardinality(Items(s)) \in Nat
         /\ Cardinality(Items(s)) <= Len(s)
<1>1. Len(s) \in Nat /\ DOMAIN s = 1..Len(s) /\ s \in [1..Len(s) -> Items(s)]
  BY DEF Items
<1>2. s \in Surjection(1..Len(s), Items(s))
  BY <1>1 DEF Surjection, Items
<1>3. IsFiniteSet(1..Len(s)) /\ Cardinality(1..Len(s)) = Len(s)
  BY <1>1, FS_Interval
<1>4. IsFiniteSet(Items(s)) /\ Cardinality(Items(s)) <= Cardinality(1..Len(s))
  BY <1>2, <1>3, FS_Surjection
<1> QED
  BY <1>3, <1>4, FS_CardinalityType

\* Lost is finite.
LEMMA LostIsFinite ==
  ASSUME emitted \in Nat
  PROVE  IsFiniteSet(Lost) /\ Cardinality(Lost) \in Nat
<1>1. IsFiniteSet(1..emitted)
  BY FS_Interval
<1>2. Lost \in SUBSET (1..emitted)
  BY DEF Lost
<1> QED
  BY <1>1, <1>2, FS_Subset, FS_CardinalityType

LEMMA SumIsNat ==
  ASSUME NEW a \in Nat, NEW b \in Nat, NEW c \in Nat
  PROVE  a + b + c \in Nat
OBVIOUS

LEMMA MovedSum ==
  ASSUME NEW a \in Nat, NEW b \in Nat, NEW c \in Nat, NEW d \in Nat, d >= a
  PROVE  d + 0 + (c + b) >= a + b + c
OBVIOUS

\* A step that loses no record beyond the n it counts keeps the account.
LEMMA AccountKept ==
  ASSUME SinkInv, GapsAreCounted,
         NEW D, NEW n \in Nat, IsFiniteSet(D), Cardinality(D) <= n,
         Lost' \subseteq Lost \cup D,
         reported' \in Nat, carried' \in Nat, dropped' \in Nat,
         reported' + carried' + dropped' >= reported + carried + dropped + n
  PROVE  GapsAreCounted'
<1>1. /\ emitted \in Nat /\ reported \in Nat /\ carried \in Nat /\ dropped \in Nat
  BY DEF SinkInv, MirrorTypeOK
<1>2. IsFiniteSet(Lost)
  BY <1>1, LostIsFinite
<1>3. /\ Cardinality(Lost') \in Nat /\ Cardinality(Lost) \in Nat /\ Cardinality(D) \in Nat
      /\ Cardinality(Lost') <= Cardinality(Lost) + Cardinality(D)
  BY <1>2, GrownBy
<1>4. Cardinality(Lost) <= reported + carried + dropped
  BY DEF GapsAreCounted
<1> DEFINE before == reported + carried + dropped
           after == reported' + carried' + dropped'
<1>5. before \in Nat /\ after \in Nat /\ after >= before + n
  BY <1>1, SumIsNat
<1>6. Cardinality(Lost) <= before
  BY <1>4
<1> HIDE DEF before, after
<1>7. Cardinality(Lost') <= after
  BY <1>3, <1>5, <1>6
<1> QED
  BY <1>7 DEF GapsAreCounted, after

\* The same for a step that loses none.
LEMMA NoneMoreLost ==
  ASSUME SinkInv, GapsAreCounted, Lost' \subseteq Lost,
         reported' \in Nat, carried' \in Nat, dropped' \in Nat,
         reported' + carried' + dropped' >= reported + carried + dropped
  PROVE  GapsAreCounted'
<1>1. IsFiniteSet({}) /\ Cardinality({}) <= 0
  BY FS_EmptySet
<1>2. reported + carried + dropped \in Nat
  BY DEF SinkInv, MirrorTypeOK
<1>3. reported' + carried' + dropped' >= reported + carried + dropped + 0
  BY <1>2
<1> QED
  BY <1>1, <1>3, AccountKept

\* emit: the record it shifts out is counted.
LEMMA EmitCounts == SinkInv /\ GapsAreCounted /\ Emit => GapsAreCounted'
<1> SUFFICES ASSUME SinkInv, GapsAreCounted, Emit PROVE GapsAreCounted'
  OBVIOUS
<1> DEFINE e == emitted + 1
           D == IF Len(queue) >= QueueMax THEN {queue[1]} ELSE {}
<1>1. /\ queue \in Seq(Nat) /\ emitted \in Nat /\ dropped \in Nat /\ reported \in Nat
      /\ carried \in Nat /\ emitted' = e /\ queue' = Append(Room, e) /\ batch' = batch
      /\ dropped' = dropped + Shifted /\ UNCHANGED <<stored, reported, carried>>
      /\ Shifted \in Nat
  BY DEF SinkInv, MirrorTypeOK, Emit, Shifted
<1>2. /\ Room \in Seq(Nat)
      /\ Len(queue) >= QueueMax => Items(queue) \subseteq Items(Room) \cup {queue[1]}
      /\ Len(queue) < QueueMax => Room = queue
  BY <1>1, RoomIsMade DEF SinkInv, InOrder
<1>3. Items(queue) \subseteq Items(Room) \cup D
  BY <1>1, <1>2, QueueAssumption
<1>4. /\ \A i \in DOMAIN Room : i \in DOMAIN queue' /\ queue'[i] = Room[i]
      /\ Len(Room) + 1 \in DOMAIN queue' /\ queue'[Len(Room) + 1] = e
  BY <1>1, <1>2
<1>5. Items(Room) \cup {e} \subseteq Items(queue')
  BY <1>4 DEF Items
<1>6. Lost' \subseteq Lost \cup D
  <2> SUFFICES ASSUME NEW r \in Lost', r \notin D PROVE r \in Lost
    OBVIOUS
  <2>1. /\ r \in 1..e /\ r \notin stored /\ r \notin Items(queue') /\ r \notin Items(batch)
    BY <1>1 DEF Lost
  <2>2. r # e /\ r \notin Items(queue)
    BY <2>1, <1>3, <1>5
  <2>3. r \in 1..emitted
    BY <2>1, <2>2, <1>1
  <2> QED
    BY <2>1, <2>2, <2>3 DEF Lost
<1>7. IsFiniteSet(D) /\ Cardinality(D) <= Shifted
  <2>1. CASE Len(queue) >= QueueMax
    <3>1. D = {queue[1]} /\ Shifted = 1
      BY <2>1 DEF Shifted
    <3>2. IsFiniteSet(D) /\ Cardinality(D) = 1
      BY <3>1, FS_Singleton, Zenon
    <3> QED
      BY <3>1, <3>2
  <2>2. CASE ~(Len(queue) >= QueueMax)
    <3>1. D = {} /\ Shifted = 0
      BY <2>2 DEF Shifted
    <3>2. IsFiniteSet(D) /\ Cardinality(D) = 0
      BY <3>1, FS_EmptySet, Zenon
    <3> QED
      BY <3>1, <3>2
  <2> QED
    BY <2>1, <2>2
<1>8. /\ reported' \in Nat /\ carried' \in Nat /\ dropped' \in Nat
      /\ reported' + carried' + dropped' >= reported + carried + dropped + Shifted
  BY <1>1
<1> QED
  BY <1>1, <1>6, <1>7, <1>8, AccountKept

\* flush: the count moves from the sink to the post.
LEMMA FlushCounts ==
  SinkInv /\ GapsAreCounted /\ Flush /\ UNCHANGED <<emitted, stored, reported>>
    => GapsAreCounted'
<1> SUFFICES ASSUME SinkInv, GapsAreCounted, Flush, UNCHANGED <<emitted, stored, reported>>
             PROVE  GapsAreCounted'
  OBVIOUS
<1>1. CASE sending \/ queue = <<>>
  BY <1>1 DEF Flush, GapsAreCounted, Lost, Items
<1>2. CASE ~(sending \/ queue = <<>>)
  <2> DEFINE n == Least(BatchSize, Len(queue))
  <2>1. /\ queue \in Seq(Nat) /\ emitted \in Nat /\ dropped \in Nat /\ reported \in Nat
        /\ batch' = SubSeq(queue, 1, n)
        /\ queue' = SubSeq(queue, n + 1, Len(queue))
        /\ carried' = dropped /\ dropped' = 0 /\ carried = 0 /\ batch = <<>>
    BY <1>2 DEF Flush, SinkInv, MirrorTypeOK, IdleHoldsNothing
  <2>2. n \in 0..Len(queue) /\ Len(queue) \in Nat /\ DOMAIN queue = 1..Len(queue)
    BY <2>1, BatchAssumption DEF Least
  <2> HIDE DEF n
  <2>3. DOMAIN batch' = 1..n /\ \A i \in 1..n : batch'[i] = queue[i]
    BY <2>1, <2>2, FrontOf
  <2>4. /\ DOMAIN queue' = 1..(Len(queue) - n)
        /\ \A i \in 1..(Len(queue) - n) : queue'[i] = queue[i + n]
    BY <2>1, <2>2, BackOf
  <2>5. Items(queue) \subseteq Items(batch') \cup Items(queue')
    <3> SUFFICES ASSUME NEW i \in DOMAIN queue
                 PROVE  queue[i] \in Items(batch') \cup Items(queue')
      BY DEF Items
    <3>1. CASE i <= n
      <4>1. i \in DOMAIN batch' /\ batch'[i] = queue[i]
        BY <3>1, <2>2, <2>3
      <4> QED
        BY <4>1 DEF Items
    <3>2. CASE i > n
      <4>1. i - n \in 1..(Len(queue) - n) /\ (i - n) + n = i
        BY <3>2, <2>2
      <4>2. i - n \in DOMAIN queue' /\ queue'[i - n] = queue[i]
        BY <4>1, <2>4
      <4> QED
        BY <4>2 DEF Items
    <3> QED
      BY <3>1, <3>2, <2>2
  <2>6. Items(batch) = {}
    BY <2>1 DEF Items
  <2>7. Lost' \subseteq Lost
    BY <2>5, <2>6 DEF Lost
  <2>8. /\ reported' \in Nat /\ carried' \in Nat /\ dropped' \in Nat
        /\ reported' + carried' + dropped' >= reported + carried + dropped
    BY <2>1
  <2> QED
    BY <2>7, <2>8, NoneMoreLost
<1> QED
  BY <1>1, <1>2

\* The end of a post that is taken for refused: what does not fit is counted.
LEMMA RequeueCounts ==
  ASSUME SinkInv, GapsAreCounted, PostOver, Requeue, stored \subseteq stored',
         reported' \in Nat, reported' >= reported
  PROVE  GapsAreCounted'
<1>1. /\ queue \in Seq(Nat) /\ batch \in Seq(Nat) /\ dropped \in Nat /\ carried \in Nat
      /\ reported \in Nat /\ carried' = 0 /\ emitted' = emitted /\ Len(batch) \in Nat
  BY DEF SinkInv, MirrorTypeOK, PostOver
<1>2. CASE Len(queue) + Len(batch) <= QueueMax
  <2>1. queue' = batch \o queue /\ dropped' = dropped + carried
    BY <1>2 DEF Requeue
  <2>2. Items(queue') = Items(batch) \cup Items(queue)
    BY <1>1, <2>1, OrderedJoin DEF SinkInv, InOrder
  <2>3. Lost' \subseteq Lost
    BY <1>1, <2>2 DEF Lost
  <2>4. dropped' \in Nat /\ carried' \in Nat
    BY <1>1, <2>1
  <2>5. reported' + 0 + (dropped + carried) >= reported + carried + dropped
    BY <1>1, MovedSum
  <2>6. reported' + carried' + dropped' >= reported + carried + dropped
    BY <1>1, <2>1, <2>5
  <2> QED
    BY <2>3, <2>4, <2>6, NoneMoreLost
<1>3. CASE ~(Len(queue) + Len(batch) <= QueueMax)
  <2>1. queue' = queue /\ dropped' = dropped + carried + Len(batch)
    BY <1>3 DEF Requeue
  <2>2. Lost' \subseteq Lost \cup Items(batch)
    BY <1>1, <2>1 DEF Lost
  <2>3. /\ dropped' \in Nat /\ carried' \in Nat
        /\ reported' + carried' + dropped' >= reported + carried + dropped + Len(batch)
    BY <1>1, <2>1
  <2>4. IsFiniteSet(Items(batch)) /\ Cardinality(Items(batch)) <= Len(batch)
    BY <1>1, ItemsAreFew
  <2> QED
    BY <1>1, <2>2, <2>3, <2>4, AccountKept
<1> QED
  BY <1>2, <1>3

\* Every step keeps the account.
LEMMA NextCounts == SinkInv /\ GapsAreCounted /\ [Next]_vars => GapsAreCounted'
<1> SUFFICES ASSUME SinkInv, GapsAreCounted, [Next]_vars PROVE GapsAreCounted'
  OBVIOUS
<1>0. /\ emitted \in Nat /\ reported \in Nat /\ carried \in Nat /\ dropped \in Nat
      /\ late \subseteq [items : SUBSET Nat, lost : Nat]
  BY DEF SinkInv, MirrorTypeOK
<1>1. CASE Emit
  BY <1>1, EmitCounts
<1>2. CASE Tick \/ RunScheduled \/ Close
  BY <1>2, FlushCounts DEF Tick, RunScheduled, Close
<1>3. CASE Accepted
  <2>1. /\ emitted' = emitted /\ queue' = queue /\ dropped' = dropped /\ carried' = 0
        /\ stored' = stored \cup Items(batch) /\ reported' = reported + carried
    BY <1>3 DEF Accepted, PostOver, Store
  <2>2. Lost' \subseteq Lost
    BY <2>1 DEF Lost, Items
  <2>3. /\ reported' \in Nat /\ carried' \in Nat /\ dropped' \in Nat
        /\ reported' + carried' + dropped' >= reported + carried + dropped
    BY <1>0, <2>1
  <2> QED
    BY <2>2, <2>3, NoneMoreLost
<1>4. CASE Refused \/ TimedOut
  <2>1. /\ PostOver /\ Requeue /\ stored' = stored /\ reported' = reported
    BY <1>4 DEF Refused, TimedOut
  <2> QED
    BY <1>0, <2>1, RequeueCounts
<1>5. CASE AnswerLost
  <2>1. /\ PostOver /\ Requeue /\ stored \subseteq stored' /\ reported' = reported + carried
    BY <1>5 DEF AnswerLost, Store
  <2> QED
    BY <1>0, <2>1, RequeueCounts
<1>6. ASSUME NEW p \in late, LateStore(p) PROVE GapsAreCounted'
  <2>1. /\ stored \subseteq stored' /\ reported' = reported + p.lost /\ p.lost \in Nat
        /\ UNCHANGED <<emitted, queue, batch, dropped, carried>>
    BY <1>0, <1>6 DEF LateStore, Store, sink
  <2>2. Lost' \subseteq Lost
    BY <2>1 DEF Lost, Items
  <2>3. /\ reported' \in Nat /\ carried' \in Nat /\ dropped' \in Nat
        /\ reported' + carried' + dropped' >= reported + carried + dropped
    BY <1>0, <2>1
  <2> QED
    BY <2>2, <2>3, NoneMoreLost
<1>7. CASE UNCHANGED vars
  BY <1>7 DEF vars, sink, GapsAreCounted, Lost, Items
<1> QED
  BY <1>1, <1>2, <1>3, <1>4, <1>5, <1>6, <1>7 DEF Next

\* A gap in the server's records is always accounted for.
THEOREM EveryGapIsCounted == Spec => []GapsAreCounted
<1>1. Init => GapsAreCounted
  <2> SUFFICES ASSUME Init PROVE GapsAreCounted
    OBVIOUS
  <2>1. Lost = {}
    BY DEF Init, Lost
  <2> QED
    BY <2>1, FS_EmptySet DEF Init, GapsAreCounted
<1> QED
  BY <1>1, NextCounts, SinkInvariant, PTL DEF Spec


----------------------------------------------------------------------------
(***************************************************************************)
(* Incidents.                                                              *)
(***************************************************************************)
USE DrainerAssumption DEF store

\* Where a promise can be, and the drain.
Capturing == {"counting", "queued", "found", "opened"}
Shipping == {"flushing", "delivered"}
TaskPlace == Capturing \cup Shipping \cup {"idle", "action", "flow", "resolving", "narrating"}
DrainPlace == Shipping \cup {"idle", "settling", "resolving", "drained"}

Listed == [s : Signature, body : Incident]

IncidentsTypeOK ==
  /\ incident \in [Signature -> Incident \cup {NoIncident}]
  /\ nudged \in [Signature -> Nat] /\ reports \in [Signature -> Nat]
  /\ locks \in [Signature -> Seq(Task)]
  /\ pc \in [Worker -> TaskPlace \cup DrainPlace]
  /\ sig \in [Worker -> Signature \cup {NoSignature}]
  /\ base \in [Worker -> Incident \cup {NoIncident}]
  /\ todo \in [Worker -> SUBSET Listed]
  /\ inFlight \subseteq Task /\ awaited \subseteq inFlight
  /\ due \subseteq Signature /\ unlisted \subseteq Signature /\ gaveUp \subseteq Signature

\* What a promise has in hand where it is.
AtHand ==
  /\ pc[Drainer] \in DrainPlace
  /\ \A t \in Task :
       /\ pc[t] \in TaskPlace
       /\ pc[t] \in Capturing => t \in inFlight
  /\ \A w \in Worker :
       /\ pc[w] \in Capturing \cup Shipping \cup {"narrating"} => sig[w] \in Signature
       /\ pc[w] \in Shipping \cup {"narrating"} => base[w] \in Incident

\* The captures in turn for a signature: each once, and only the first of them
\* is past the wait.
InTurn(s) == {t \in Task : pc[t] \in {"queued", "found", "opened"} /\ sig[t] = s}
PastTheWait(s) == {t \in InTurn(s) : pc[t] # "queued"}
Ordered(q, S, past) ==
  /\ \A i \in 1..Len(q) : q[i] \in S
  /\ \A i, j \in 1..Len(q) : q[i] = q[j] => i = j
  /\ \A u \in S : \E i \in 1..Len(q) : q[i] = u
  /\ \A u \in past : u = q[1]
TurnsTaken(s) == Ordered(locks[s], InTurn(s), PastTheWait(s))

TurnsInOrder == \A s \in Signature : TurnsTaken(s)

IncidentsTyped == IncidentsTypeOK /\ AtHand /\ TurnsInOrder

\* What the first of them read of the incident, whether there is one, is so.
ReadIsCurrent ==
  \A t \in Task : pc[t] = "found" => (Stored(sig[t]) <=> base[t] # NoIncident)

OpenedFor(s) == {t \in Task : pc[t] = "opened" /\ sig[t] = s}

\* One opening of an incident there is, and its line is sent or to be sent.
AskedFor(s) ==
  /\ ~Stored(s) => nudged[s] = 0 /\ OpenedFor(s) = {}
  /\ nudged[s] \in {0, 1} /\ (nudged[s] = 1 => OpenedFor(s) = {})

\* Reported already, by the body read and by the sink.
IsFlushed(b) == b.flushed
Reported(s) == reports[s] >= 1

\* What a promise holds, or has still to go through, is stored.
HeldAreStored ==
  \A w \in Worker :
    /\ \A item \in todo[w] : Stored(item.s)
    /\ pc[w] \in Shipping \cup {"narrating"} => Stored(sig[w])

AskInv == (\A s \in Signature : AskedFor(s)) /\ ReadIsCurrent /\ HeldAreStored

\* What reads as flushed, or has been delivered, is reported.
IncidentsReported == \A s \in Signature : IsFlushed(incident[s]) => Reported(s)
ListedReported ==
  \A w \in Worker : \A item \in todo[w] : IsFlushed(item.body) => Reported(item.s)
HeldReported ==
  \A w \in Worker :
    \/ pc[w] = "delivered"
    \/ pc[w] \in {"found", "narrating", "flushing"} /\ IsFlushed(base[w])
    => Reported(sig[w])

\* While the drain waits, what it is due to report is stored or being captured
\* by a promise it waits for.
DueIsComing ==
  pc[Drainer] = "settling" =>
    \A s \in due : Stored(s) \/ \E t \in awaited : pc[t] \in Capturing /\ sig[t] = s

\* From then on it is reported, to be reported, or the flush at hand.
DueIsInHand ==
  /\ pc[Drainer] \notin {"idle", "settling"} /\ ~StateSurvives =>
       \A s \in due \ (gaveUp \cup unlisted) :
         \/ Reported(s)
         \/ \E item \in todo[Drainer] : item.s = s
         \/ pc[Drainer] = "flushing" /\ sig[Drainer] = s
  /\ pc[Drainer] = "drained" => todo[Drainer] = {}

ShipInv == IncidentsReported /\ ListedReported /\ HeldReported /\ DueIsComing /\ DueIsInHand

\* What the calls make of a body is a body.
LEMMA BodyIs ==
    ASSUME NEW b \in Incident
    PROVE  /\ [b EXCEPT !.state = "RECOVERED"] \in Incident
           /\ [b EXCEPT !.narrated = TRUE, !.flushed = FALSE] \in Incident
           /\ [b EXCEPT !.flushed = TRUE] \in Incident
           /\ Reopened(b) \in Incident /\ Verdict(b) \in Incident
    BY DEF Incident, State, Reopened, Verdict

LEMMA NoIncidentIs == NoIncident \notin Incident /\ ~IsFlushed(NoIncident)
    BY DEF NoIncident, Incident, State, IsFlushed

\* What they leave of having been reported.
LEMMA FlushedIs ==
    ASSUME NEW b \in Incident
    PROVE  /\ IsFlushed([b EXCEPT !.state = "RECOVERED"]) <=> IsFlushed(b)
           /\ ~IsFlushed([b EXCEPT !.narrated = TRUE, !.flushed = FALSE])
           /\ IsFlushed(Reopened(b)) <=> IsFlushed(b)
           /\ IsFlushed(Verdict(b)) <=> IsFlushed(b)
    BY DEF Incident, State, Reopened, Verdict, IsFlushed

LEMMA BodiesAre ==
    ASSUME IncidentsTypeOK, NEW S \in SUBSET {s \in Signature : Stored(s)}
    PROVE  /\ Bodies(S) \in SUBSET Listed
           /\ \A item \in Bodies(S) : item.s \in S /\ item.body = incident[item.s]
           /\ \A s \in S \ Dropped : \E item \in Bodies(S) : item.s = s
<1>1. \A s \in S : s \in Signature /\ incident[s] \in Incident
    BY DEF IncidentsTypeOK, Stored
<1>2. \A item \in Bodies(S) : \E s \in S : item = [s |-> s, body |-> incident[s]]
    BY DEF Bodies
<1>3. \A item \in Bodies(S) : item \in Listed /\ item.s \in S /\ item.body = incident[item.s]
    BY <1>1, <1>2 DEF Listed
<1>4. \A s \in S \ Dropped : [s |-> s, body |-> incident[s]] \in Bodies(S)
    BY DEF Bodies, Dropped
<1>5. \A s \in S : [s |-> s, body |-> incident[s]].s = s
    OBVIOUS
<1> QED
    BY <1>3, <1>4, <1>5

\* What is open, or unreported, is stored.
LEMMA ListedAreStored ==
    /\ \A scope : Resolvable(scope) \in SUBSET {s \in Signature : Stored(s)}
    /\ Unreported \in SUBSET {s \in Signature : Stored(s)}
    BY DEF Resolvable, Unreported, Stored, NoIncident

\* A resolution takes up one of the bodies it read.
LEMMA ResolveIs ==
    ASSUME IncidentsTypeOK, NEW t \in Task, Resolve(t)
    PROVE  \E item \in todo[t] : \E b \in Incident :
             /\ item \in Listed /\ (IsFlushed(b) <=> IsFlushed(item.body))
             /\ incident' = [incident EXCEPT ![item.s] = b]
             /\ sig' = [sig EXCEPT ![t] = item.s] /\ base' = [base EXCEPT ![t] = b]
             /\ todo' = [todo EXCEPT ![t] = @ \ {item}]
<1>1. PICK item \in todo[t] :
        LET recovered == [item.body EXCEPT !.state = "RECOVERED"]
        IN  /\ Save(item.s, recovered)
            /\ sig' = [sig EXCEPT ![t] = item.s]
            /\ base' = [base EXCEPT ![t] = recovered]
            /\ todo' = [todo EXCEPT ![t] = @ \ {item}]
    BY DEF Resolve
<1>2. item \in Listed /\ item.body \in Incident
    BY DEF IncidentsTypeOK, Worker, Listed
<1> QED
    BY <1>1, <1>2, BodyIs, FlushedIs DEF Save

\* So does the drain; it saves the body only when it has passed a verdict on it.
LEMMA DrainNextIs ==
    ASSUME IncidentsTypeOK, DrainNext
    PROVE  \E item \in todo[Drainer] : \E b \in Incident :
             /\ item \in Listed /\ (IsFlushed(b) <=> IsFlushed(item.body))
             /\ incident' \in {incident, [incident EXCEPT ![item.s] = b]}
             /\ sig' = [sig EXCEPT ![Drainer] = item.s] /\ base' = [base EXCEPT ![Drainer] = b]
             /\ todo' = [todo EXCEPT ![Drainer] = @ \ {item}]
<1>1. PICK item \in todo[Drainer] :
        LET judged == Verdict(item.body)
        IN  /\ IF judged # item.body THEN Save(item.s, judged) ELSE UNCHANGED store
            /\ sig' = [sig EXCEPT ![Drainer] = item.s]
            /\ base' = [base EXCEPT ![Drainer] = judged]
            /\ todo' = [todo EXCEPT ![Drainer] = @ \ {item}]
    BY DEF DrainNext
<1>2. item \in Listed /\ item.body \in Incident
    BY DEF IncidentsTypeOK, Worker, Listed
<1> QED
    BY <1>1, <1>2, BodyIs, FlushedIs DEF Save

\* An account is saved over the body that was read.
LEMMA AccountIs ==
    ASSUME IncidentsTypeOK, AtHand, NEW t \in Task, Account(t)
    PROVE  \E b \in Incident :
             /\ ~IsFlushed(b)
             /\ incident' = [incident EXCEPT ![sig[t]] = b] /\ base' = [base EXCEPT ![t] = b]
<1>1. base[t] \in Incident
    BY DEF AtHand, Account, Worker, Shipping
<1> QED
    BY <1>1, BodyIs, FlushedIs DEF Account, Save

\* Where a promise goes after a flush, or when it is over.
LEMMA ProceedIs ==
    ASSUME IncidentsTypeOK, NEW w \in Worker, Proceed(w)
    PROVE  /\ \/ pc' = [pc EXCEPT ![w] = "resolving"] /\ (w \in inFlight \/ w = Drainer)
              \/ pc' = [pc EXCEPT ![w] = "idle"] /\ w \in Task
           /\ \A v \in Worker : v # w => sig'[v] = sig[v] /\ base'[v] = base[v]
           /\ sig' \in [Worker -> Signature \cup {NoSignature}]
           /\ base' \in [Worker -> Incident \cup {NoIncident}]
           /\ inFlight' \in {inFlight, inFlight \ {w}} /\ awaited' \in {awaited, awaited \ {w}}
           /\ awaited' \subseteq inFlight'
<1> USE DEF IncidentsTypeOK, Goto, Worker
<1>1. CASE w \in inFlight \cup {Drainer}
    BY <1>1 DEF Proceed
<1>2. CASE w \notin inFlight \cup {Drainer}
    BY <1>2 DEF Proceed, Over
<1> QED
    BY <1>1, <1>2

\* After a flush, reported or not.
AfterFlush(w) ==
  /\ \/ pc' = [pc EXCEPT ![w] = "resolving"] /\ (w \in inFlight \/ w = Drainer)
     \/ pc' = [pc EXCEPT ![w] = "idle"] /\ w \in Task
  /\ \A v \in Worker : v # w => sig'[v] = sig[v] /\ base'[v] = base[v]
  /\ sig' \in [Worker -> Signature \cup {NoSignature}]
  /\ base' \in [Worker -> Incident \cup {NoIncident}]
  /\ inFlight' \in {inFlight, inFlight \ {w}} /\ awaited' \in {awaited, awaited \ {w}}
  /\ awaited' \subseteq inFlight'
  /\ sig[w] \in Signature /\ pc[w] \in Shipping
  /\ UNCHANGED <<nudged, reports, locks, todo, due, unlisted>>
  /\ gaveUp' = gaveUp \/ (FlushFails(w) /\ w = Drainer /\ gaveUp' = gaveUp \cup {sig[w]})
  /\ \/ incident' = incident
     \/ MarkFlushed(w) /\ \E b \in Incident : incident' = [incident EXCEPT ![sig[w]] = b]

LEMMA FlushIs ==
    ASSUME IncidentsTypeOK, AtHand, NEW w \in Worker,
           SkipFlush(w) \/ FlushFails(w) \/ MarkFlushed(w)
    PROVE  AfterFlush(w)
<1> USE DEF AfterFlush
<1>1. Proceed(w) /\ pc[w] \in Shipping
    BY DEF SkipFlush, FlushFails, MarkFlushed, Shipping
<1>2. sig[w] \in Signature /\ base[w] \in Incident
    BY <1>1 DEF AtHand
<1>3. UNCHANGED <<nudged, reports, locks, todo, due, unlisted>>
    BY DEF SkipFlush, FlushFails, MarkFlushed, kept
<1>4. gaveUp' = gaveUp \/ (FlushFails(w) /\ w = Drainer /\ gaveUp' = gaveUp \cup {sig[w]})
    BY DEF SkipFlush, FlushFails, MarkFlushed, kept
<1>5. CASE MarkFlushed(w)
    <2>1. incident' = [incident EXCEPT ![sig[w]] = [base[w] EXCEPT !.flushed = TRUE]]
        BY <1>5 DEF MarkFlushed, Save
    <2>2. PICK b \in Incident : b = [base[w] EXCEPT !.flushed = TRUE]
        BY <1>2, BodyIs
    <2>3. \E n \in Incident : incident' = [incident EXCEPT ![sig[w]] = n]
        BY <2>1, <2>2
    <2> QED
        BY <1>1, <1>2, <1>3, <1>4, <1>5, <2>3, ProceedIs
<1>6. CASE SkipFlush(w) \/ FlushFails(w)
    <2>1. incident' = incident
        BY <1>6 DEF SkipFlush, FlushFails
    <2> QED
        BY <1>1, <1>2, <1>3, <1>4, <2>1, ProceedIs
<1> QED
    BY <1>5, <1>6

LEMMA IncidentsInitTyped == IncidentsInit => IncidentsTyped
<1> SUFFICES ASSUME IncidentsInit PROVE IncidentsTyped
    OBVIOUS
<1>1. IncidentsTypeOK /\ AtHand
    BY DEF IncidentsInit, IncidentsTypeOK, AtHand, TaskPlace, DrainPlace, Capturing,
       Shipping, Worker, Incident, NoIncident
<1>2. TurnsInOrder
    BY DEF IncidentsInit, TurnsInOrder, TurnsTaken, PastTheWait, Ordered, InTurn, Worker
<1> QED
    BY <1>1, <1>2 DEF IncidentsTyped

\* A task past the wait is the first of its turn.
LEMMA AtTheHead ==
    ASSUME IncidentsTypeOK, AtHand, TurnsInOrder, NEW t \in Task, pc[t] \in {"found", "opened"}
    PROVE  /\ sig[t] \in Signature /\ locks[sig[t]] \in Seq(Task)
           /\ locks[sig[t]] # <<>> /\ locks[sig[t]][1] = t
<1>1. sig[t] \in Signature /\ t \in InTurn(sig[t]) /\ t \in PastTheWait(sig[t])
    BY DEF AtHand, Capturing, Worker, InTurn, PastTheWait
<1> QED
    BY <1>1 DEF TurnsInOrder, TurnsTaken, Ordered, IncidentsTypeOK

\* Turns that nobody takes or gives up stay in order.
LEMMA TurnsKept ==
    ASSUME TurnsInOrder, UNCHANGED locks,
           \A t \in Task : pc'[t] \in {"queued", "found", "opened"}
                             <=> pc[t] \in {"queued", "found", "opened"},
           \A t \in Task : pc[t] \in {"queued", "found", "opened"} =>
             sig'[t] = sig[t] /\ (pc[t] # "queued" => pc'[t] # "queued"),
           \A t \in Task : pc[t] = "queued" /\ pc'[t] # "queued" => locks[sig[t]][1] = t
    PROVE  TurnsInOrder'
<1> SUFFICES ASSUME NEW s \in Signature PROVE TurnsTaken(s)'
    BY DEF TurnsInOrder
<1>1. InTurn(s)' = InTurn(s)
    BY DEF InTurn
<1>2. Ordered(locks[s], InTurn(s), PastTheWait(s))
    BY DEF TurnsInOrder, TurnsTaken
<1>3. \A u \in PastTheWait(s)' : u \in PastTheWait(s) \/ u = locks[s][1]
    BY DEF InTurn, PastTheWait
<1>4. Ordered(locks[s], InTurn(s), PastTheWait(s)')
    BY <1>2, <1>3 DEF Ordered
<1> QED
    BY <1>1, <1>4 DEF TurnsTaken

\* The first of a turn gives it up.
LEMMA OrderedTail ==
    ASSUME NEW q \in Seq(Task), NEW S, NEW past, q # <<>>, Ordered(q, S, past)
    PROVE  Tail(q) \in Seq(Task) /\ Ordered(Tail(q), S \ {q[1]}, {})
<1>1. /\ Tail(q) \in Seq(Task) /\ Len(Tail(q)) = Len(q) - 1 /\ Len(q) \in Nat \ {0}
      /\ \A i \in 1..Len(Tail(q)) : i + 1 \in 1..Len(q) /\ Tail(q)[i] = q[i + 1]
      /\ \A i \in 1..Len(q) : i # 1 => i - 1 \in 1..Len(Tail(q)) /\ Tail(q)[i - 1] = q[i]
    OBVIOUS
<1>2. \A i \in 1..Len(Tail(q)) : Tail(q)[i] \in S \ {q[1]}
    BY <1>1 DEF Ordered
<1>3. \A i, j \in 1..Len(Tail(q)) : Tail(q)[i] = Tail(q)[j] => i = j
    BY <1>1 DEF Ordered
<1>4. ASSUME NEW u \in S \ {q[1]} PROVE \E i \in 1..Len(Tail(q)) : Tail(q)[i] = u
    <2>1. PICK i \in 1..Len(q) : q[i] = u
        BY DEF Ordered
    <2>2. i - 1 \in 1..Len(Tail(q)) /\ Tail(q)[i - 1] = u
        BY <1>1, <2>1
    <2> QED
        BY <2>2
<1> QED
    BY <1>1, <1>2, <1>3, <1>4 DEF Ordered

LEMMA TurnGivenUp ==
    ASSUME IncidentsTypeOK, AtHand, TurnsInOrder, NEW t \in Task, pc[t] \in {"found", "opened"},
           locks' = [locks EXCEPT ![sig[t]] = Tail(@)], pc' = [pc EXCEPT ![t] = "idle"],
           \A u \in Task : u # t => sig'[u] = sig[u]
    PROVE  locks' \in [Signature -> Seq(Task)] /\ TurnsInOrder'
<1>1. /\ sig[t] \in Signature /\ locks[sig[t]] \in Seq(Task)
      /\ locks[sig[t]] # <<>> /\ locks[sig[t]][1] = t
    BY AtTheHead
<1>2. Ordered(locks[sig[t]], InTurn(sig[t]), PastTheWait(sig[t]))
    BY <1>1 DEF TurnsInOrder, TurnsTaken
<1>3. /\ Tail(locks[sig[t]]) \in Seq(Task)
      /\ Ordered(Tail(locks[sig[t]]), InTurn(sig[t]) \ {t}, {})
    BY <1>1, <1>2, OrderedTail
<1>4. locks' \in [Signature -> Seq(Task)]
    BY <1>1, <1>3 DEF IncidentsTypeOK
<1>5. ASSUME NEW s \in Signature PROVE TurnsTaken(s)'
    <2>1. Ordered(locks[s], InTurn(s), PastTheWait(s))
        BY DEF TurnsInOrder, TurnsTaken
    <2>2. CASE s # sig[t]
        <3>1. locks'[s] = locks[s]
            BY <1>1, <2>2 DEF IncidentsTypeOK
        <3>2. InTurn(s)' = InTurn(s)
            BY <2>2 DEF InTurn, IncidentsTypeOK, Worker
        <3>3. PastTheWait(s)' = PastTheWait(s)
            BY <2>2 DEF InTurn, PastTheWait, IncidentsTypeOK, Worker
        <3> QED
            BY <2>1, <3>1, <3>2, <3>3 DEF TurnsTaken
    <2>3. CASE s = sig[t]
        <3>1. locks'[s] = Tail(locks[s])
            BY <1>1, <2>3 DEF IncidentsTypeOK
        <3>2. InTurn(s)' = InTurn(s) \ {t}
            BY <2>3 DEF InTurn, IncidentsTypeOK, Worker
        <3>3. \A u \in PastTheWait(s)' : u \in PastTheWait(s) \ {t}
            BY <2>3 DEF InTurn, PastTheWait, IncidentsTypeOK, Worker
        <3>4. PastTheWait(s)' = {}
            BY <1>1, <2>1, <2>3, <3>3 DEF Ordered
        <3> QED
            BY <1>3, <2>3, <3>1, <3>2, <3>4 DEF TurnsTaken
    <2> QED
        BY <2>2, <2>3
<1> QED
    BY <1>4, <1>5 DEF TurnsInOrder

\* A capture joins the turn for its signature.
LEMMA OrderedAppend ==
    ASSUME NEW q \in Seq(Task), NEW S, NEW past \in SUBSET S, NEW t \in Task, t \notin S,
           Ordered(q, S, past)
    PROVE  Append(q, t) \in Seq(Task) /\ Ordered(Append(q, t), S \cup {t}, past)
<1>1. /\ Append(q, t) \in Seq(Task)
      /\ Len(Append(q, t)) = Len(q) + 1 /\ Len(q) \in Nat /\ Append(q, t)[Len(q) + 1] = t
      /\ \A i \in 1..Len(q) : Append(q, t)[i] = q[i]
    OBVIOUS
<1>2. /\ \A i \in 1..Len(q) : q[i] \in S /\ q[i] # t
      /\ \A i, j \in 1..Len(q) : q[i] = q[j] => i = j
      /\ \A u \in S : \E i \in 1..Len(q) : q[i] = u
      /\ \A u \in past : u = q[1] /\ \E i \in 1..Len(q) : q[i] = u
    BY DEF Ordered
<1>3. \A i \in 1..Len(Append(q, t)) : Append(q, t)[i] \in S \cup {t}
    BY <1>1, <1>2
<1>4. \A i, j \in 1..Len(Append(q, t)) : Append(q, t)[i] = Append(q, t)[j] => i = j
    BY <1>1, <1>2
<1>5. \A u \in S \cup {t} : \E i \in 1..Len(Append(q, t)) : Append(q, t)[i] = u
    <2>1. Len(q) + 1 \in 1..Len(Append(q, t)) /\ \A i \in 1..Len(q) : i \in 1..Len(Append(q, t))
        BY <1>1
    <2> QED
        BY <1>1, <1>2, <2>1
<1>6. \A u \in past : u = Append(q, t)[1]
    BY <1>1, <1>2
<1> QED
    BY <1>1, <1>3, <1>4, <1>5, <1>6 DEF Ordered

LEMMA TurnJoined ==
    ASSUME IncidentsTypeOK, AtHand, TurnsInOrder, NEW t \in Task, Count(t)
    PROVE  TurnsInOrder'
<1>1. /\ sig[t] \in Signature /\ pc[t] = "counting"
      /\ pc' = [pc EXCEPT ![t] = "queued"] /\ sig' = sig
    BY DEF Count, AtHand, Capturing, Worker, Goto
<1>2. /\ locks[sig[t]] \in Seq(Task)
      /\ locks' = [locks EXCEPT ![sig[t]] = Append(locks[sig[t]], t)]
    BY <1>1 DEF Count, IncidentsTypeOK
<1> SUFFICES ASSUME NEW s \in Signature PROVE TurnsTaken(s)'
    BY DEF TurnsInOrder
<1>3. Ordered(locks[s], InTurn(s), PastTheWait(s)) /\ PastTheWait(s) \subseteq InTurn(s)
    BY DEF TurnsInOrder, TurnsTaken, PastTheWait
<1>4. PastTheWait(s)' = PastTheWait(s)
    BY <1>1 DEF PastTheWait, InTurn, IncidentsTypeOK, Worker
<1>5. CASE s # sig[t]
    <2>1. locks'[s] = locks[s]
        BY <1>2, <1>5 DEF IncidentsTypeOK
    <2>2. InTurn(s)' = InTurn(s)
        BY <1>1, <1>5 DEF InTurn, IncidentsTypeOK, Worker
    <2> QED
        BY <1>3, <1>4, <2>1, <2>2 DEF TurnsTaken
<1>6. CASE s = sig[t]
    <2>1. locks'[s] = Append(locks[s], t) /\ locks[s] \in Seq(Task)
        BY <1>1, <1>2, <1>6 DEF IncidentsTypeOK
    <2>2. InTurn(s)' = InTurn(s) \cup {t} /\ t \notin InTurn(s)
        BY <1>1, <1>6 DEF InTurn, IncidentsTypeOK, Worker
    <2>3. Ordered(Append(locks[s], t), InTurn(s) \cup {t}, PastTheWait(s))
        BY <1>3, <2>1, <2>2, OrderedAppend
    <2> QED
        BY <1>4, <2>1, <2>2, <2>3 DEF TurnsTaken
<1> QED
    BY <1>5, <1>6

\* Every step keeps the types ...
LEMMA TypeOKStep ==
    ASSUME IncidentsTypeOK, AtHand, TurnsInOrder,
           [IncidentsNext]_incidentVars
    PROVE  IncidentsTypeOK'
<1> USE DEF IncidentsTypeOK, Goto, Worker, TaskPlace, DrainPlace, Capturing,
        Shipping, work, drain, kept, counters
<1>1. ASSUME NEW t \in Task, NEW s \in Signature, Fail(t, s) PROVE IncidentsTypeOK'
    BY <1>1 DEF Fail
<1>2. ASSUME NEW t \in Task, NEW s \in Signature, Narrate(t, s) PROVE IncidentsTypeOK'
    BY <1>2 DEF Narrate
<1>3. ASSUME NEW t \in Task, NEW scope \in {"action", "flow"}, Succeed(t, scope)
      PROVE IncidentsTypeOK'
    BY <1>3 DEF Succeed
<1>4. ASSUME NEW t \in Task, Count(t) PROVE IncidentsTypeOK'
    <2>1. sig[t] \in Signature
        BY <1>4 DEF Count, AtHand
    <2> QED
        BY <1>4, <2>1 DEF Count
<1>5. ASSUME NEW t \in Task, Find(t) PROVE IncidentsTypeOK'
    <2>1. sig[t] \in Signature
        BY <1>5 DEF Find, AtHand
    <2> QED
        BY <1>5, <2>1 DEF Find
<1>6. ASSUME NEW t \in Task, Merge(t) PROVE IncidentsTypeOK'
    <2>1. sig[t] \in Signature /\ base[t] \in Incident
        BY <1>6 DEF Merge, AtHand
    <2>2. PICK b \in Incident : incident' = [incident EXCEPT ![sig[t]] = b]
        BY <1>6, <2>1, BodyIs DEF Merge, Save
    <2>3. locks' \in [Signature -> Seq(Task)]
        BY <1>6, TurnGivenUp DEF Merge, Release, Over
    <2>4. incident' \in [Signature -> Incident \cup {NoIncident}]
        BY <2>1, <2>2
    <2> QED
        BY <1>6, <2>3, <2>4 DEF Merge, Over
<1>7. ASSUME NEW t \in Task, Open(t) PROVE IncidentsTypeOK'
    <2>1. PICK b \in Incident : incident' = [incident EXCEPT ![sig[t]] = b]
        BY <1>7 DEF Open, Save, Incident, State
    <2>2. sig[t] \in Signature
        BY <1>7 DEF Open, AtHand
    <2> QED
        BY <1>7, <2>1, <2>2 DEF Open
<1>8. ASSUME NEW t \in Task, Nudge(t) PROVE IncidentsTypeOK'
    <2>1. sig[t] \in Signature
        BY <1>8 DEF Nudge, AtHand
    <2>2. locks' \in [Signature -> Seq(Task)]
        BY <1>8, TurnGivenUp DEF Nudge, Release, Over
    <2>3. nudged' \in [Signature -> Nat]
        BY <1>8, <2>1 DEF Nudge
    <2> QED
        BY <1>8, <2>2, <2>3 DEF Nudge, Over
<1>9. ASSUME NEW t \in Task, ListOpen(t) PROVE IncidentsTypeOK'
    <2>1. Bodies(Resolvable(pc[t])) \in SUBSET Listed
        BY BodiesAre, ListedAreStored
    <2> QED
        BY <1>9, <2>1 DEF ListOpen
<1>10. ASSUME NEW t \in Task, Resolve(t) PROVE IncidentsTypeOK'
    <2>1. PICK item \in todo[t], b \in Incident :
             /\ item \in Listed
             /\ incident' = [incident EXCEPT ![item.s] = b]
             /\ sig' = [sig EXCEPT ![t] = item.s] /\ base' = [base EXCEPT ![t] = b]
             /\ todo' = [todo EXCEPT ![t] = @ \ {item}]
        BY <1>10, ResolveIs
    <2>2. item.s \in Signature
        BY <2>1 DEF Listed
    <2> QED
        BY <1>10, <2>1, <2>2 DEF Resolve
<1>11. ASSUME NEW t \in Task, Resolved(t) PROVE IncidentsTypeOK'
    BY <1>11 DEF Resolved, Over
<1>12. ASSUME NEW t \in Task, Account(t) PROVE IncidentsTypeOK'
    <2>1. PICK b \in Incident :
             incident' = [incident EXCEPT ![sig[t]] = b] /\ base' = [base EXCEPT ![t] = b]
        BY <1>12, AccountIs
    <2>2. sig[t] \in Signature
        BY <1>12 DEF Account, AtHand
    <2> QED
        BY <1>12, <2>1, <2>2 DEF Account
<1>13. ASSUME NEW w \in Worker, SkipFlush(w) PROVE IncidentsTypeOK'
    <2> HIDE DEF IncidentsTypeOK, AtHand
    <2>1. AfterFlush(w)
        BY <1>13, FlushIs
    <2>2. UNCHANGED <<nudged, reports, locks, todo, due, unlisted>> /\ gaveUp' \subseteq Signature
        BY <2>1 DEF AfterFlush, IncidentsTypeOK
    <2>3. pc' \in [Worker -> TaskPlace \cup DrainPlace]
        BY <2>1 DEF AfterFlush, IncidentsTypeOK
    <2>4. incident' \in [Signature -> Incident \cup {NoIncident}]
        <3> HIDE DEF Worker
        <3> QED
            BY <2>1 DEF AfterFlush, IncidentsTypeOK
    <2>5. /\ inFlight' \subseteq Task /\ awaited' \subseteq inFlight'
          /\ sig' \in [Worker -> Signature \cup {NoSignature}]
          /\ base' \in [Worker -> Incident \cup {NoIncident}]
        BY <2>1 DEF AfterFlush, IncidentsTypeOK
    <2> QED
        BY <2>2, <2>3, <2>4, <2>5 DEF IncidentsTypeOK
<1>14. ASSUME NEW w \in Worker, FlushFails(w) PROVE IncidentsTypeOK'
    <2> HIDE DEF IncidentsTypeOK, AtHand
    <2>1. AfterFlush(w)
        BY <1>14, FlushIs
    <2>2. UNCHANGED <<nudged, reports, locks, todo, due, unlisted>> /\ gaveUp' \subseteq Signature
        BY <2>1 DEF AfterFlush, IncidentsTypeOK
    <2>3. pc' \in [Worker -> TaskPlace \cup DrainPlace]
        BY <2>1 DEF AfterFlush, IncidentsTypeOK
    <2>4. incident' \in [Signature -> Incident \cup {NoIncident}]
        <3> HIDE DEF Worker
        <3> QED
            BY <2>1 DEF AfterFlush, IncidentsTypeOK
    <2>5. /\ inFlight' \subseteq Task /\ awaited' \subseteq inFlight'
          /\ sig' \in [Worker -> Signature \cup {NoSignature}]
          /\ base' \in [Worker -> Incident \cup {NoIncident}]
        BY <2>1 DEF AfterFlush, IncidentsTypeOK
    <2> QED
        BY <2>2, <2>3, <2>4, <2>5 DEF IncidentsTypeOK
<1>15. ASSUME NEW w \in Worker, Deliver(w) PROVE IncidentsTypeOK'
    <2>1. sig[w] \in Signature
        BY <1>15 DEF Deliver, AtHand
    <2> QED
        BY <1>15, <2>1 DEF Deliver
<1>16. ASSUME NEW w \in Worker, MarkFlushed(w) PROVE IncidentsTypeOK'
    <2> HIDE DEF IncidentsTypeOK, AtHand
    <2>1. AfterFlush(w)
        BY <1>16, FlushIs
    <2>2. UNCHANGED <<nudged, reports, locks, todo, due, unlisted>> /\ gaveUp' \subseteq Signature
        BY <2>1 DEF AfterFlush, IncidentsTypeOK
    <2>3. pc' \in [Worker -> TaskPlace \cup DrainPlace]
        BY <2>1 DEF AfterFlush, IncidentsTypeOK
    <2>4. incident' \in [Signature -> Incident \cup {NoIncident}]
        <3> HIDE DEF Worker
        <3> QED
            BY <2>1 DEF AfterFlush, IncidentsTypeOK
    <2>5. /\ inFlight' \subseteq Task /\ awaited' \subseteq inFlight'
          /\ sig' \in [Worker -> Signature \cup {NoSignature}]
          /\ base' \in [Worker -> Incident \cup {NoIncident}]
        BY <2>1 DEF AfterFlush, IncidentsTypeOK
    <2> QED
        BY <2>2, <2>3, <2>4, <2>5 DEF IncidentsTypeOK
<1>17. CASE StartDrain
    <2>1. \A u \in inFlight :
             pc[u] \in {"counting", "queued", "found", "opened"} => sig[u] \in Signature
        BY DEF AtHand
    <2>2. {s \in Signature : Stored(s)} \cup {sig[t] : t \in {u \in inFlight :
                pc[u] \in {"counting", "queued", "found", "opened"}}} \subseteq Signature
        BY <2>1
    <2> QED
        BY <1>17, <2>2 DEF StartDrain
<1>18. CASE DrainLists
    <2>1. Bodies(Unreported) \in SUBSET Listed
        BY BodiesAre, ListedAreStored
    <2> QED
        BY <1>18, <2>1 DEF DrainLists
<1>19. CASE DrainNext
    <2>1. PICK item \in todo[Drainer], b \in Incident :
             /\ item \in Listed
             /\ incident' \in {incident, [incident EXCEPT ![item.s] = b]}
             /\ sig' = [sig EXCEPT ![Drainer] = item.s] /\ base' = [base EXCEPT ![Drainer] = b]
             /\ todo' = [todo EXCEPT ![Drainer] = @ \ {item}]
        BY <1>19, DrainNextIs
    <2>2. item.s \in Signature
        BY <2>1 DEF Listed
    <2>3. incident' \in [Signature -> Incident \cup {NoIncident}]
        BY <2>1, <2>2
    <2>4. /\ sig' \in [Worker -> Signature \cup {NoSignature}]
          /\ base' \in [Worker -> Incident \cup {NoIncident}]
          /\ todo' \in [Worker -> SUBSET Listed]
        BY <2>1, <2>2
    <2>5. /\ pc' \in [Worker -> TaskPlace \cup DrainPlace]
          /\ UNCHANGED <<nudged, reports, locks, inFlight, drain>>
        BY <1>19 DEF DrainNext
    <2> QED
        BY <2>3, <2>4, <2>5
<1>20. CASE Drained
    BY <1>20 DEF Drained
<1>21. CASE UNCHANGED incidentVars
    BY <1>21 DEF incidentVars
<1> QED
    BY <1>1, <1>2, <1>3, <1>4, <1>5, <1>6, <1>7, <1>8, <1>9, <1>10, <1>11, <1>12,
        <1>13, <1>14, <1>15, <1>16, <1>17, <1>18, <1>19, <1>20, <1>21 DEF IncidentsNext

\* A promise that has flushed has nothing more in hand.
LEMMA AfterFlushAtHand ==
    ASSUME IncidentsTypeOK, AtHand, NEW w \in Worker, AfterFlush(w)
    PROVE  AtHand'
<1>1. /\ \/ pc' = [pc EXCEPT ![w] = "resolving"] /\ (w \in inFlight \/ w = Drainer)
         \/ pc' = [pc EXCEPT ![w] = "idle"] /\ w \in Task
      /\ \A v \in Worker : v # w => sig'[v] = sig[v] /\ base'[v] = base[v]
      /\ inFlight' \in {inFlight, inFlight \ {w}} /\ pc[w] \in Shipping
    BY DEF AfterFlush
<1>2. pc'[w] \in {"resolving", "idle"} /\ \A v \in Worker : v # w => pc'[v] = pc[v]
    BY <1>1 DEF IncidentsTypeOK
<1>3. pc'[Drainer] \in DrainPlace
    BY <1>1, <1>2 DEF AtHand, Worker, DrainPlace, IncidentsTypeOK
<1>4. ASSUME NEW t \in Task
      PROVE  pc'[t] \in TaskPlace /\ (pc'[t] \in Capturing => t \in inFlight')
    BY <1>1, <1>2 DEF AtHand, Worker, TaskPlace, Capturing
<1>5. ASSUME NEW v \in Worker
      PROVE  /\ pc'[v] \in Capturing \cup Shipping \cup {"narrating"} => sig'[v] \in Signature
             /\ pc'[v] \in Shipping \cup {"narrating"} => base'[v] \in Incident
    BY <1>1, <1>2 DEF AtHand, Capturing, Shipping
<1> QED
    BY <1>3, <1>4, <1>5 DEF AtHand

\* ... leaves each promise with what it needs ...
LEMMA AtHandStep ==
    ASSUME IncidentsTypeOK, AtHand, TurnsInOrder,
           [IncidentsNext]_incidentVars
    PROVE  AtHand'
<1> USE DEF IncidentsTypeOK, Goto, Worker, TaskPlace, DrainPlace, Capturing,
        Shipping, work, drain, kept, counters, AtHand
<1>1. ASSUME NEW t \in Task, NEW s \in Signature, Fail(t, s) PROVE AtHand'
    BY <1>1 DEF Fail
<1>2. ASSUME NEW t \in Task, NEW s \in Signature, Narrate(t, s) PROVE AtHand'
    <2>1. incident[s] \in Incident
        BY <1>2 DEF Narrate, Stored
    <2> QED
        BY <1>2, <2>1 DEF Narrate, AtHand
<1>3. ASSUME NEW t \in Task, NEW scope \in {"action", "flow"}, Succeed(t, scope)
      PROVE AtHand'
    BY <1>3 DEF Succeed
<1>4. ASSUME NEW t \in Task, Count(t) PROVE AtHand'
    BY <1>4 DEF Count
<1>5. ASSUME NEW t \in Task, Find(t) PROVE AtHand'
    BY <1>5 DEF Find
<1>6. ASSUME NEW t \in Task, Merge(t) PROVE AtHand'
    BY <1>6 DEF Merge, Save, Release, Over
<1>7. ASSUME NEW t \in Task, Open(t) PROVE AtHand'
    BY <1>7 DEF Open, Save
<1>8. ASSUME NEW t \in Task, Nudge(t) PROVE AtHand'
    BY <1>8 DEF Nudge, Release, Over
<1>9. ASSUME NEW t \in Task, ListOpen(t) PROVE AtHand'
    BY <1>9 DEF ListOpen, Bodies, Resolvable
<1>10. ASSUME NEW t \in Task, Resolve(t) PROVE AtHand'
    <2>1. PICK item \in todo[t], b \in Incident :
             /\ item \in Listed
             /\ incident' = [incident EXCEPT ![item.s] = b]
             /\ sig' = [sig EXCEPT ![t] = item.s] /\ base' = [base EXCEPT ![t] = b]
             /\ todo' = [todo EXCEPT ![t] = @ \ {item}]
        BY <1>10, ResolveIs
    <2>2. item.s \in Signature
        BY <2>1 DEF Listed
    <2> QED
        BY <1>10, <2>1, <2>2 DEF Resolve, AtHand
<1>11. ASSUME NEW t \in Task, Resolved(t) PROVE AtHand'
    BY <1>11 DEF Resolved, Over
<1>12. ASSUME NEW t \in Task, Account(t) PROVE AtHand'
    <2>1. PICK b \in Incident : base' = [base EXCEPT ![t] = b]
        BY <1>12, AccountIs
    <2> QED
        BY <1>12, <2>1 DEF Account, AtHand
<1>13. ASSUME NEW w \in Worker, SkipFlush(w) PROVE AtHand'
    <2> HIDE DEF IncidentsTypeOK, AtHand
    <2> QED
        BY <1>13, FlushIs, AfterFlushAtHand
<1>14. ASSUME NEW w \in Worker, FlushFails(w) PROVE AtHand'
    <2> HIDE DEF IncidentsTypeOK, AtHand
    <2> QED
        BY <1>14, FlushIs, AfterFlushAtHand
<1>15. ASSUME NEW w \in Worker, Deliver(w) PROVE AtHand'
    BY <1>15 DEF Deliver
<1>16. ASSUME NEW w \in Worker, MarkFlushed(w) PROVE AtHand'
    <2> HIDE DEF IncidentsTypeOK, AtHand
    <2> QED
        BY <1>16, FlushIs, AfterFlushAtHand
<1>17. CASE StartDrain
    BY <1>17 DEF StartDrain
<1>18. CASE DrainLists
    BY <1>18 DEF DrainLists, Bodies, Unreported
<1>19. CASE DrainNext
    <2>1. PICK item \in todo[Drainer], b \in Incident :
             /\ item \in Listed
             /\ sig' = [sig EXCEPT ![Drainer] = item.s] /\ base' = [base EXCEPT ![Drainer] = b]
        BY <1>19, DrainNextIs
    <2>2. item.s \in Signature
        BY <2>1 DEF Listed
    <2> QED
        BY <1>19, <2>1, <2>2 DEF DrainNext, AtHand
<1>20. CASE Drained
    BY <1>20 DEF Drained
<1>21. CASE UNCHANGED incidentVars
    BY <1>21 DEF incidentVars
<1> QED
    BY <1>1, <1>2, <1>3, <1>4, <1>5, <1>6, <1>7, <1>8, <1>9, <1>10, <1>11, <1>12,
        <1>13, <1>14, <1>15, <1>16, <1>17, <1>18, <1>19, <1>20, <1>21 DEF IncidentsNext

\* ... and the turns in order.
LEMMA TurnsStep ==
    ASSUME IncidentsTypeOK, AtHand, TurnsInOrder,
           [IncidentsNext]_incidentVars
    PROVE  TurnsInOrder'
<1> USE DEF Goto, Worker, work, IncidentsTypeOK
<1>1. ASSUME NEW t \in Task, NEW s \in Signature, Fail(t, s) PROVE TurnsInOrder'
    BY <1>1, TurnsKept DEF Fail
<1>2. ASSUME NEW t \in Task, NEW s \in Signature, Narrate(t, s) PROVE TurnsInOrder'
    BY <1>2, TurnsKept DEF Narrate
<1>3. ASSUME NEW t \in Task, NEW scope \in {"action", "flow"}, Succeed(t, scope)
      PROVE TurnsInOrder'
    BY <1>3, TurnsKept DEF Succeed
<1>4. ASSUME NEW t \in Task, Count(t) PROVE TurnsInOrder'
    BY <1>4, TurnJoined
<1>5. ASSUME NEW t \in Task, Find(t) PROVE TurnsInOrder'
    <2>1. locks[sig[t]] # <<>> /\ Head(locks[sig[t]]) = locks[sig[t]][1]
        BY <1>5 DEF Find, AtHand, TurnsInOrder, TurnsTaken, Ordered, InTurn, Capturing
    <2> QED
        BY <1>5, <2>1, TurnsKept DEF Find, HasTurn
<1>6. ASSUME NEW t \in Task, Merge(t) PROVE TurnsInOrder'
    BY <1>6, TurnGivenUp DEF Merge, Release, Over
<1>7. ASSUME NEW t \in Task, Open(t) PROVE TurnsInOrder'
    BY <1>7, TurnsKept DEF Open
<1>8. ASSUME NEW t \in Task, Nudge(t) PROVE TurnsInOrder'
    BY <1>8, TurnGivenUp DEF Nudge, Release, Over
<1>9. ASSUME NEW t \in Task, ListOpen(t) PROVE TurnsInOrder'
    BY <1>9, TurnsKept DEF ListOpen
<1>10. ASSUME NEW t \in Task, Resolve(t) PROVE TurnsInOrder'
    BY <1>10, TurnsKept DEF Resolve
<1>11. ASSUME NEW t \in Task, Resolved(t) PROVE TurnsInOrder'
    BY <1>11, TurnsKept DEF Resolved, Over
<1>12. ASSUME NEW t \in Task, Account(t) PROVE TurnsInOrder'
    BY <1>12, TurnsKept DEF Account
<1>13. ASSUME NEW w \in Worker, SkipFlush(w) PROVE TurnsInOrder'
    <2>1. AfterFlush(w)
        <3> HIDE DEF IncidentsTypeOK
        <3> QED
            BY <1>13, FlushIs
    <2> QED
        BY <2>1, TurnsKept DEF AfterFlush, Shipping
<1>14. ASSUME NEW w \in Worker, FlushFails(w) PROVE TurnsInOrder'
    <2>1. AfterFlush(w)
        <3> HIDE DEF IncidentsTypeOK
        <3> QED
            BY <1>14, FlushIs
    <2> QED
        BY <2>1, TurnsKept DEF AfterFlush, Shipping
<1>15. ASSUME NEW w \in Worker, Deliver(w) PROVE TurnsInOrder'
    BY <1>15, TurnsKept DEF Deliver
<1>16. ASSUME NEW w \in Worker, MarkFlushed(w) PROVE TurnsInOrder'
    <2>1. AfterFlush(w)
        <3> HIDE DEF IncidentsTypeOK
        <3> QED
            BY <1>16, FlushIs
    <2> QED
        BY <2>1, TurnsKept DEF AfterFlush, Shipping
<1>17. CASE StartDrain
    BY <1>17, TurnsKept DEF StartDrain
<1>18. CASE DrainLists
    BY <1>18, TurnsKept DEF DrainLists
<1>19. CASE DrainNext
    BY <1>19, TurnsKept DEF DrainNext
<1>20. CASE Drained
    BY <1>20, TurnsKept DEF Drained
<1>21. CASE UNCHANGED incidentVars
    BY <1>21 DEF incidentVars, TurnsInOrder, TurnsTaken, PastTheWait, InTurn
<1> QED
    BY <1>1, <1>2, <1>3, <1>4, <1>5, <1>6, <1>7, <1>8, <1>9, <1>10, <1>11, <1>12,
        <1>13, <1>14, <1>15, <1>16, <1>17, <1>18, <1>19, <1>20, <1>21 DEF IncidentsNext

\* An incident stays stored, and only the opening of it makes it one.
StoredMoves ==
  \A s \in Signature :
    /\ Stored(s) => Stored(s)'
    /\ Stored(s)' => Stored(s) \/ \E t \in Task : Open(t) /\ sig[t] = s

LEMMA SavedStays ==
    ASSUME IncidentsTypeOK, NEW s \in Signature, NEW b \in Incident, Stored(s),
           incident' = [incident EXCEPT ![s] = b]
    PROVE  StoredMoves
    BY NoIncidentIs DEF IncidentsTypeOK, StoredMoves, Stored

LEMMA NothingStored == UNCHANGED incident => StoredMoves
    BY DEF StoredMoves, Stored

LEMMA FlushStores ==
    ASSUME IncidentsTypeOK, AtHand, HeldAreStored, NEW w \in Worker, AfterFlush(w)
    PROVE  StoredMoves
<1>1. sig[w] \in Signature /\ Stored(sig[w])
    BY DEF HeldAreStored, AfterFlush
<1>2. CASE incident' = incident
    BY <1>2, NothingStored
<1>3. CASE \E b \in Incident : incident' = [incident EXCEPT ![sig[w]] = b]
    BY <1>1, <1>3, SavedStays
<1> QED
    BY <1>2, <1>3 DEF AfterFlush

\* Of the captures of a signature, one at most is past the wait.
LEMMA OnePastTheWait ==
    ASSUME IncidentsTypeOK, AtHand, TurnsInOrder,
           NEW t \in Task, NEW u \in Task, sig[t] = sig[u],
           pc[t] \in {"found", "opened"}, pc[u] \in {"found", "opened"}
    PROVE  t = u
    BY AtTheHead

\* Where nothing is opened or journaled nothing is asked.
LEMMA NothingAsked ==
    ASSUME AskInv, StoredMoves, UNCHANGED nudged,
           \A t \in Task : pc'[t] = "opened" => pc[t] = "opened" /\ sig'[t] = sig[t]
    PROVE  \A s \in Signature : AskedFor(s)'
<1> SUFFICES ASSUME NEW s \in Signature PROVE AskedFor(s)'
    OBVIOUS
<1>1. AskedFor(s) /\ (Stored(s) => Stored(s)')
    BY DEF AskInv, StoredMoves
<1>2. OpenedFor(s) = {} => OpenedFor(s)' = {}
    BY DEF OpenedFor
<1> QED
    BY <1>1, <1>2 DEF AskedFor

LEMMA OpenAsks ==
    ASSUME IncidentsTypeOK, AtHand, TurnsInOrder, AskInv, NEW t \in Task, Open(t), StoredMoves
    PROVE  \A s \in Signature : AskedFor(s)'
<1> SUFFICES ASSUME NEW s \in Signature PROVE AskedFor(s)'
    OBVIOUS
<1>1. /\ pc[t] = "found" /\ base[t] = NoIncident /\ pc' = [pc EXCEPT ![t] = "opened"]
      /\ sig' = sig /\ nudged' = nudged
    BY DEF Open, Goto
<1>2. ~Stored(sig[t]) /\ sig[t] \in Signature
    BY <1>1, AtTheHead DEF AskInv, ReadIsCurrent
<1>3. AskedFor(s) /\ (Stored(s) => Stored(s)')
    BY DEF AskInv, StoredMoves
<1>4. CASE s = sig[t]
    <2>1. nudged[s] = 0
        BY <1>2, <1>3, <1>4 DEF AskedFor
    <2>2. Stored(s)'
        BY <1>2, <1>4 DEF Open, Save, Stored, IncidentsTypeOK, NoIncident
    <2> QED
        BY <1>1, <2>1, <2>2 DEF AskedFor
<1>5. CASE s # sig[t]
    <2>1. OpenedFor(s)' = OpenedFor(s)
        BY <1>1, <1>5 DEF OpenedFor, IncidentsTypeOK, Worker
    <2> QED
        BY <1>1, <1>3, <2>1 DEF AskedFor
<1> QED
    BY <1>4, <1>5

LEMMA NudgeAsks ==
    ASSUME IncidentsTypeOK, AtHand, TurnsInOrder, AskInv, NEW t \in Task, Nudge(t)
    PROVE  \A s \in Signature : AskedFor(s)'
<1> SUFFICES ASSUME NEW s \in Signature PROVE AskedFor(s)'
    OBVIOUS
<1>1. /\ pc[t] = "opened" /\ pc' = [pc EXCEPT ![t] = "idle"] /\ incident' = incident
      /\ sig' = [sig EXCEPT ![t] = NoSignature] /\ nudged' = [nudged EXCEPT ![sig[t]] = @ + 1]
    BY DEF Nudge, Over, Goto
<1>2. sig[t] \in Signature
    BY <1>1, AtTheHead
<1>3. AskedFor(s)
    BY DEF AskInv
<1>4. OpenedFor(s)' = OpenedFor(s) \ {t} /\ (Stored(s)' <=> Stored(s))
    BY <1>1 DEF OpenedFor, IncidentsTypeOK, Worker, Stored
<1>5. CASE s = sig[t]
    <2>1. t \in OpenedFor(s)
        BY <1>1, <1>5 DEF OpenedFor
    <2>2. Stored(s) /\ nudged[s] = 0
        BY <1>3, <2>1 DEF AskedFor
    <2>3. nudged'[s] = 1
        BY <1>1, <1>2, <1>5, <2>2 DEF IncidentsTypeOK
    <2>4. \A u \in OpenedFor(s) : u = t
        BY <1>1, <1>5, OnePastTheWait DEF OpenedFor
    <2> QED
        BY <1>4, <2>2, <2>3, <2>4 DEF AskedFor
<1>6. CASE s # sig[t]
    <2>1. OpenedFor(s)' = OpenedFor(s) /\ nudged'[s] = nudged[s]
        BY <1>1, <1>2, <1>4, <1>6 DEF OpenedFor, IncidentsTypeOK
    <2> QED
        BY <1>3, <1>4, <2>1 DEF AskedFor
<1> QED
    BY <1>5, <1>6

\* What was read in turn stays so until the turn is given up.
LEMMA ReadStaysCurrent ==
    ASSUME IncidentsTypeOK, AtHand, TurnsInOrder, AskInv, StoredMoves,
           \A t \in Task : pc'[t] = "found" =>
             pc[t] = "found" /\ sig'[t] = sig[t] /\ base'[t] = base[t]
    PROVE  ReadIsCurrent'
<1> SUFFICES ASSUME NEW t \in Task, pc'[t] = "found"
             PROVE  Stored(sig[t])' <=> base'[t] # NoIncident
    BY DEF ReadIsCurrent
<1>1. pc[t] = "found" /\ sig'[t] = sig[t] /\ base'[t] = base[t] /\ sig[t] \in Signature
    BY AtTheHead
<1>2. Stored(sig[t]) <=> base[t] # NoIncident
    BY <1>1 DEF AskInv, ReadIsCurrent
<1>3. \A u \in Task : ~(Open(u) /\ sig[u] = sig[t])
    <2> SUFFICES ASSUME NEW u \in Task, Open(u), sig[u] = sig[t] PROVE FALSE
        OBVIOUS
    <2>1. u = t
        BY <1>1, OnePastTheWait DEF Open
    <2> QED
        BY <2>1 DEF Open, Goto, IncidentsTypeOK, Worker
<1>4. Stored(sig[t]) <=> incident'[sig[t]] # NoIncident
    BY <1>1, <1>3 DEF StoredMoves, Stored
<1> QED
    BY <1>1, <1>2, <1>4 DEF Stored

\* Every step keeps what is stored ...
LEMMA StoredStep ==
    ASSUME IncidentsTypeOK, AtHand, TurnsInOrder, AskInv,
           [IncidentsNext]_incidentVars
    PROVE  StoredMoves
<1> USE DEF work, Goto
<1>1. ASSUME NEW t \in Task, NEW s \in Signature, Fail(t, s) PROVE StoredMoves
    BY <1>1, NothingStored DEF Fail
<1>2. ASSUME NEW t \in Task, NEW s \in Signature, Narrate(t, s) PROVE StoredMoves
    BY <1>2, NothingStored DEF Narrate
<1>3. ASSUME NEW t \in Task, NEW scope \in {"action", "flow"}, Succeed(t, scope)
      PROVE StoredMoves
    BY <1>3, NothingStored DEF Succeed
<1>4. ASSUME NEW t \in Task, Count(t) PROVE StoredMoves
    BY <1>4, NothingStored DEF Count
<1>5. ASSUME NEW t \in Task, Find(t) PROVE StoredMoves
    BY <1>5, NothingStored DEF Find
<1>6. ASSUME NEW t \in Task, Merge(t) PROVE StoredMoves
    <2>1. sig[t] \in Signature /\ base[t] \in Incident
        BY <1>6, AtTheHead DEF Merge, IncidentsTypeOK, Worker
    <2>2. Stored(sig[t])
        BY <1>6, <2>1 DEF Merge, AskInv, ReadIsCurrent
    <2>3. PICK b \in Incident : b = Reopened(base[t])
        BY <2>1, BodyIs
    <2>4. incident' = [incident EXCEPT ![sig[t]] = b]
        BY <1>6, <2>3 DEF Merge, Save
    <2> QED
        BY <2>1, <2>2, <2>4, SavedStays
<1>7. ASSUME NEW t \in Task, Open(t) PROVE StoredMoves
    <2>1. sig[t] \in Signature
        BY <1>7, AtTheHead DEF Open
    <2> QED
        BY <1>7, <2>1 DEF Open, Save, StoredMoves, Stored, IncidentsTypeOK, NoIncident
<1>8. ASSUME NEW t \in Task, Nudge(t) PROVE StoredMoves
    BY <1>8, NothingStored DEF Nudge, Release, Over
<1>9. ASSUME NEW t \in Task, ListOpen(t) PROVE StoredMoves
    BY <1>9, NothingStored DEF ListOpen, Bodies, Resolvable
<1>10. ASSUME NEW t \in Task, Resolve(t) PROVE StoredMoves
    <2>1. PICK item \in todo[t], b \in Incident :
             /\ item \in Listed /\ (IsFlushed(b) <=> IsFlushed(item.body))
             /\ incident' = [incident EXCEPT ![item.s] = b]
             /\ sig' = [sig EXCEPT ![t] = item.s] /\ base' = [base EXCEPT ![t] = b]
             /\ todo' = [todo EXCEPT ![t] = @ \ {item}]
        BY <1>10, ResolveIs
    <2>2. item.s \in Signature /\ Stored(item.s)
        BY <2>1 DEF Listed, AskInv, HeldAreStored, Worker
    <2> QED
        BY <2>1, <2>2, SavedStays
<1>11. ASSUME NEW t \in Task, Resolved(t) PROVE StoredMoves
    BY <1>11, NothingStored DEF Resolved, Over
<1>12. ASSUME NEW t \in Task, Account(t) PROVE StoredMoves
    <2>1. PICK b \in Incident :
             incident' = [incident EXCEPT ![sig[t]] = b] /\ base' = [base EXCEPT ![t] = b]
        BY <1>12, AccountIs
    <2>2. sig[t] \in Signature /\ Stored(sig[t])
        BY <1>12 DEF Account, AtHand, AskInv, HeldAreStored, Worker
    <2> QED
        BY <2>1, <2>2, SavedStays
<1>13. ASSUME NEW w \in Worker, SkipFlush(w) PROVE StoredMoves
    <2>1. AfterFlush(w)
        BY <1>13, FlushIs
    <2> QED
        BY <2>1, FlushStores DEF AskInv
<1>14. ASSUME NEW w \in Worker, FlushFails(w) PROVE StoredMoves
    <2>1. AfterFlush(w)
        BY <1>14, FlushIs
    <2> QED
        BY <2>1, FlushStores DEF AskInv
<1>15. ASSUME NEW w \in Worker, Deliver(w) PROVE StoredMoves
    BY <1>15, NothingStored DEF Deliver
<1>16. ASSUME NEW w \in Worker, MarkFlushed(w) PROVE StoredMoves
    <2>1. AfterFlush(w)
        BY <1>16, FlushIs
    <2> QED
        BY <2>1, FlushStores DEF AskInv
<1>17. CASE StartDrain
    BY <1>17, NothingStored DEF StartDrain
<1>18. CASE DrainLists
    BY <1>18, NothingStored DEF DrainLists, Bodies, Unreported
<1>19. CASE DrainNext
    <2>1. PICK item \in todo[Drainer], b \in Incident :
             /\ item \in Listed
             /\ incident' \in {incident, [incident EXCEPT ![item.s] = b]}
             /\ sig' = [sig EXCEPT ![Drainer] = item.s] /\ base' = [base EXCEPT ![Drainer] = b]
             /\ todo' = [todo EXCEPT ![Drainer] = @ \ {item}]
        BY <1>19, DrainNextIs
    <2>2. item.s \in Signature /\ Stored(item.s)
        BY <2>1 DEF Listed, AskInv, HeldAreStored, Worker
    <2> QED
        BY <2>1, <2>2, SavedStays, NothingStored
<1>20. CASE Drained
    BY <1>20, NothingStored DEF Drained
<1>21. CASE UNCHANGED incidentVars
    BY <1>21, NothingStored DEF incidentVars
<1> QED
    BY <1>1, <1>2, <1>3, <1>4, <1>5, <1>6, <1>7, <1>8, <1>9, <1>10, <1>11, <1>12,
        <1>13, <1>14, <1>15, <1>16, <1>17, <1>18, <1>19, <1>20, <1>21 DEF IncidentsNext

\* What was held stays stored.
LEMMA HeldStays ==
    ASSUME IncidentsTypeOK, AtHand, HeldAreStored, StoredMoves,
           \A w \in Worker : \A item \in todo'[w] :
             item \in todo[w] \/ (item \in Listed /\ Stored(item.s)),
           \A w \in Worker : pc'[w] \in Shipping \cup {"narrating"} =>
             \/ pc[w] \in Shipping \cup {"narrating"} /\ sig'[w] = sig[w]
             \/ sig'[w] \in Signature /\ Stored(sig'[w])
    PROVE  HeldAreStored'
<1>1. \A s \in Signature : Stored(s) => Stored(s)'
    BY DEF StoredMoves
<1>2. ASSUME NEW w \in Worker, NEW item \in todo'[w] PROVE Stored(item.s)'
    <2>1. item \in Listed /\ Stored(item.s)
        BY DEF HeldAreStored, IncidentsTypeOK
    <2>2. item.s \in Signature
        BY <2>1 DEF Listed
    <2> QED
        BY <1>1, <2>1, <2>2
<1>3. ASSUME NEW w \in Worker, pc'[w] \in Shipping \cup {"narrating"} PROVE Stored(sig[w])'
    <2>1. PICK s \in Signature : s = sig'[w] /\ Stored(s)
        BY <1>3 DEF HeldAreStored, AtHand
    <2>2. Stored(s)'
        BY <1>1, <2>1
    <2> QED
        BY <2>1, <2>2 DEF Stored
<1> QED
    BY <1>2, <1>3 DEF HeldAreStored

\* ... and what is held ...
LEMMA HeldStep ==
    ASSUME IncidentsTypeOK, AtHand, TurnsInOrder, HeldAreStored, StoredMoves,
           [IncidentsNext]_incidentVars
    PROVE  HeldAreStored'
<1> USE DEF Goto, Worker, work, Shipping, IncidentsTypeOK
<1>1. ASSUME NEW t \in Task, NEW s \in Signature, Fail(t, s) PROVE HeldAreStored'
    BY <1>1, HeldStays DEF Fail
<1>2. ASSUME NEW t \in Task, NEW s \in Signature, Narrate(t, s) PROVE HeldAreStored'
    BY <1>2, HeldStays DEF Narrate
<1>3. ASSUME NEW t \in Task, NEW scope \in {"action", "flow"}, Succeed(t, scope)
      PROVE HeldAreStored'
    BY <1>3, HeldStays DEF Succeed
<1>4. ASSUME NEW t \in Task, Count(t) PROVE HeldAreStored'
    BY <1>4, HeldStays DEF Count
<1>5. ASSUME NEW t \in Task, Find(t) PROVE HeldAreStored'
    BY <1>5, HeldStays DEF Find
<1>6. ASSUME NEW t \in Task, Merge(t) PROVE HeldAreStored'
    BY <1>6, HeldStays DEF Merge, Save, Release, Over
<1>7. ASSUME NEW t \in Task, Open(t) PROVE HeldAreStored'
    BY <1>7, HeldStays DEF Open, Save
<1>8. ASSUME NEW t \in Task, Nudge(t) PROVE HeldAreStored'
    BY <1>8, HeldStays DEF Nudge, Release, Over
<1>9. ASSUME NEW t \in Task, ListOpen(t) PROVE HeldAreStored'
    <2>1. \A item \in Bodies(Resolvable(pc[t])) : item \in Listed /\ Stored(item.s)
        BY BodiesAre, ListedAreStored
    <2> QED
        BY <1>9, <2>1, HeldStays DEF ListOpen
<1>10. ASSUME NEW t \in Task, Resolve(t) PROVE HeldAreStored'
    <2>1. PICK item \in todo[t], b \in Incident :
             /\ item \in Listed /\ (IsFlushed(b) <=> IsFlushed(item.body))
             /\ incident' = [incident EXCEPT ![item.s] = b]
             /\ sig' = [sig EXCEPT ![t] = item.s] /\ base' = [base EXCEPT ![t] = b]
             /\ todo' = [todo EXCEPT ![t] = @ \ {item}]
        BY <1>10, ResolveIs
    <2>2. item.s \in Signature /\ Stored(item.s)
        BY <2>1 DEF Listed, HeldAreStored
    <2> QED
        BY <1>10, <2>1, <2>2, HeldStays DEF Resolve
<1>11. ASSUME NEW t \in Task, Resolved(t) PROVE HeldAreStored'
    BY <1>11, HeldStays DEF Resolved, Over
<1>12. ASSUME NEW t \in Task, Account(t) PROVE HeldAreStored'
    BY <1>12, HeldStays DEF Account, Save
<1>13. ASSUME NEW w \in Worker, SkipFlush(w) PROVE HeldAreStored'
    <2>1. AfterFlush(w)
        BY <1>13, FlushIs DEF AskInv
    <2> QED
        BY <2>1, HeldStays DEF AfterFlush
<1>14. ASSUME NEW w \in Worker, FlushFails(w) PROVE HeldAreStored'
    <2>1. AfterFlush(w)
        BY <1>14, FlushIs DEF AskInv
    <2> QED
        BY <2>1, HeldStays DEF AfterFlush
<1>15. ASSUME NEW w \in Worker, Deliver(w) PROVE HeldAreStored'
    BY <1>15, HeldStays DEF Deliver
<1>16. ASSUME NEW w \in Worker, MarkFlushed(w) PROVE HeldAreStored'
    <2>1. AfterFlush(w)
        BY <1>16, FlushIs DEF AskInv
    <2> QED
        BY <2>1, HeldStays DEF AfterFlush
<1>17. CASE StartDrain
    BY <1>17, HeldStays DEF StartDrain
<1>18. CASE DrainLists
    <2>1. \A item \in Bodies(Unreported) : item \in Listed /\ Stored(item.s)
        BY BodiesAre, ListedAreStored
    <2> QED
        BY <1>18, <2>1, HeldStays DEF DrainLists
<1>19. CASE DrainNext
    <2>1. PICK item \in todo[Drainer], b \in Incident :
             /\ item \in Listed
             /\ incident' \in {incident, [incident EXCEPT ![item.s] = b]}
             /\ sig' = [sig EXCEPT ![Drainer] = item.s] /\ base' = [base EXCEPT ![Drainer] = b]
             /\ todo' = [todo EXCEPT ![Drainer] = @ \ {item}]
        BY <1>19, DrainNextIs
    <2>2. item.s \in Signature /\ Stored(item.s)
        BY <2>1 DEF Listed, HeldAreStored
    <2> QED
        BY <1>19, <2>1, <2>2, HeldStays DEF DrainNext
<1>20. CASE Drained
    BY <1>20, HeldStays DEF Drained
<1>21. CASE UNCHANGED incidentVars
    BY <1>21, HeldStays DEF incidentVars
<1> QED
    BY <1>1, <1>2, <1>3, <1>4, <1>5, <1>6, <1>7, <1>8, <1>9, <1>10, <1>11, <1>12,
        <1>13, <1>14, <1>15, <1>16, <1>17, <1>18, <1>19, <1>20, <1>21 DEF IncidentsNext

\* ... asks for a report once ...
LEMMA AskedStep ==
    ASSUME IncidentsTypeOK, AtHand, TurnsInOrder, AskInv, StoredMoves,
           [IncidentsNext]_incidentVars
    PROVE  \A r \in Signature : AskedFor(r)'
<1> USE DEF Goto, Worker, work, IncidentsTypeOK
<1>1. ASSUME NEW t \in Task, NEW s \in Signature, Fail(t, s)
      PROVE \A r \in Signature : AskedFor(r)'
    BY <1>1, NothingAsked DEF Fail
<1>2. ASSUME NEW t \in Task, NEW s \in Signature, Narrate(t, s)
      PROVE \A r \in Signature : AskedFor(r)'
    BY <1>2, NothingAsked DEF Narrate
<1>3. ASSUME NEW t \in Task, NEW scope \in {"action", "flow"}, Succeed(t, scope)
      PROVE \A r \in Signature : AskedFor(r)'
    BY <1>3, NothingAsked DEF Succeed
<1>4. ASSUME NEW t \in Task, Count(t) PROVE \A r \in Signature : AskedFor(r)'
    BY <1>4, NothingAsked DEF Count
<1>5. ASSUME NEW t \in Task, Find(t) PROVE \A r \in Signature : AskedFor(r)'
    BY <1>5, NothingAsked DEF Find
<1>6. ASSUME NEW t \in Task, Merge(t) PROVE \A r \in Signature : AskedFor(r)'
    BY <1>6, NothingAsked DEF Merge, Save, Release, Over
<1>7. ASSUME NEW t \in Task, Open(t) PROVE \A r \in Signature : AskedFor(r)'
    BY <1>7, OpenAsks
<1>8. ASSUME NEW t \in Task, Nudge(t) PROVE \A r \in Signature : AskedFor(r)'
    BY <1>8, NudgeAsks
<1>9. ASSUME NEW t \in Task, ListOpen(t) PROVE \A r \in Signature : AskedFor(r)'
    BY <1>9, NothingAsked DEF ListOpen, Bodies, Resolvable
<1>10. ASSUME NEW t \in Task, Resolve(t) PROVE \A r \in Signature : AskedFor(r)'
    BY <1>10, NothingAsked DEF Resolve, Save
<1>11. ASSUME NEW t \in Task, Resolved(t) PROVE \A r \in Signature : AskedFor(r)'
    BY <1>11, NothingAsked DEF Resolved, Over
<1>12. ASSUME NEW t \in Task, Account(t) PROVE \A r \in Signature : AskedFor(r)'
    BY <1>12, NothingAsked DEF Account, Save
<1>13. ASSUME NEW w \in Worker, SkipFlush(w) PROVE \A r \in Signature : AskedFor(r)'
    <2>1. AfterFlush(w)
        BY <1>13, FlushIs
    <2> QED
        BY <2>1, NothingAsked DEF AfterFlush
<1>14. ASSUME NEW w \in Worker, FlushFails(w) PROVE \A r \in Signature : AskedFor(r)'
    <2>1. AfterFlush(w)
        BY <1>14, FlushIs
    <2> QED
        BY <2>1, NothingAsked DEF AfterFlush
<1>15. ASSUME NEW w \in Worker, Deliver(w) PROVE \A r \in Signature : AskedFor(r)'
    BY <1>15, NothingAsked DEF Deliver
<1>16. ASSUME NEW w \in Worker, MarkFlushed(w) PROVE \A r \in Signature : AskedFor(r)'
    <2>1. AfterFlush(w)
        BY <1>16, FlushIs
    <2> QED
        BY <2>1, NothingAsked DEF AfterFlush
<1>17. CASE StartDrain
    BY <1>17, NothingAsked DEF StartDrain
<1>18. CASE DrainLists
    BY <1>18, NothingAsked DEF DrainLists, Bodies, Unreported
<1>19. CASE DrainNext
    BY <1>19, NothingAsked DEF DrainNext, Save, Verdict
<1>20. CASE Drained
    BY <1>20, NothingAsked DEF Drained
<1>21. CASE UNCHANGED incidentVars
    BY <1>21, NothingAsked DEF incidentVars
<1> QED
    BY <1>1, <1>2, <1>3, <1>4, <1>5, <1>6, <1>7, <1>8, <1>9, <1>10, <1>11, <1>12,
        <1>13, <1>14, <1>15, <1>16, <1>17, <1>18, <1>19, <1>20, <1>21 DEF IncidentsNext

\* ... and leaves what was read in turn as it is.
LEMMA ReadStep ==
    ASSUME IncidentsTypeOK, AtHand, TurnsInOrder, AskInv, StoredMoves,
           [IncidentsNext]_incidentVars
    PROVE  ReadIsCurrent'
<1> USE DEF Goto, Worker, work, IncidentsTypeOK
<1>1. ASSUME NEW t \in Task, NEW s \in Signature, Fail(t, s) PROVE ReadIsCurrent'
    BY <1>1, ReadStaysCurrent DEF Fail
<1>2. ASSUME NEW t \in Task, NEW s \in Signature, Narrate(t, s) PROVE ReadIsCurrent'
    BY <1>2, ReadStaysCurrent DEF Narrate
<1>3. ASSUME NEW t \in Task, NEW scope \in {"action", "flow"}, Succeed(t, scope)
      PROVE ReadIsCurrent'
    BY <1>3, ReadStaysCurrent DEF Succeed
<1>4. ASSUME NEW t \in Task, Count(t) PROVE ReadIsCurrent'
    BY <1>4, ReadStaysCurrent DEF Count
<1>5. ASSUME NEW t \in Task, Find(t) PROVE ReadIsCurrent'
    <2>1. sig[t] \in Signature
        BY <1>5 DEF Find, AtHand, Capturing
    <2> QED
        BY <1>5, <2>1 DEF Find, ReadIsCurrent, AskInv, IncidentsTypeOK, Stored
<1>6. ASSUME NEW t \in Task, Merge(t) PROVE ReadIsCurrent'
    BY <1>6, ReadStaysCurrent DEF Merge, Save, Release, Over
<1>7. ASSUME NEW t \in Task, Open(t) PROVE ReadIsCurrent'
    BY <1>7, ReadStaysCurrent DEF Open, Save
<1>8. ASSUME NEW t \in Task, Nudge(t) PROVE ReadIsCurrent'
    BY <1>8, ReadStaysCurrent DEF Nudge, Release, Over
<1>9. ASSUME NEW t \in Task, ListOpen(t) PROVE ReadIsCurrent'
    BY <1>9, ReadStaysCurrent DEF ListOpen, Bodies, Resolvable
<1>10. ASSUME NEW t \in Task, Resolve(t) PROVE ReadIsCurrent'
    BY <1>10, ReadStaysCurrent DEF Resolve, Save
<1>11. ASSUME NEW t \in Task, Resolved(t) PROVE ReadIsCurrent'
    BY <1>11, ReadStaysCurrent DEF Resolved, Over
<1>12. ASSUME NEW t \in Task, Account(t) PROVE ReadIsCurrent'
    BY <1>12, ReadStaysCurrent DEF Account, Save
<1>13. ASSUME NEW w \in Worker, SkipFlush(w) PROVE ReadIsCurrent'
    <2>1. AfterFlush(w)
        BY <1>13, FlushIs
    <2> QED
        BY <2>1, ReadStaysCurrent DEF AfterFlush
<1>14. ASSUME NEW w \in Worker, FlushFails(w) PROVE ReadIsCurrent'
    <2>1. AfterFlush(w)
        BY <1>14, FlushIs
    <2> QED
        BY <2>1, ReadStaysCurrent DEF AfterFlush
<1>15. ASSUME NEW w \in Worker, Deliver(w) PROVE ReadIsCurrent'
    BY <1>15, ReadStaysCurrent DEF Deliver
<1>16. ASSUME NEW w \in Worker, MarkFlushed(w) PROVE ReadIsCurrent'
    <2>1. AfterFlush(w)
        BY <1>16, FlushIs
    <2> QED
        BY <2>1, ReadStaysCurrent DEF AfterFlush
<1>17. CASE StartDrain
    BY <1>17, ReadStaysCurrent DEF StartDrain
<1>18. CASE DrainLists
    BY <1>18, ReadStaysCurrent DEF DrainLists, Bodies, Unreported
<1>19. CASE DrainNext
    BY <1>19, ReadStaysCurrent DEF DrainNext, Save, Verdict
<1>20. CASE Drained
    BY <1>20, ReadStaysCurrent DEF Drained
<1>21. CASE UNCHANGED incidentVars
    BY <1>21, ReadStaysCurrent DEF incidentVars
<1> QED
    BY <1>1, <1>2, <1>3, <1>4, <1>5, <1>6, <1>7, <1>8, <1>9, <1>10, <1>11, <1>12,
        <1>13, <1>14, <1>15, <1>16, <1>17, <1>18, <1>19, <1>20, <1>21 DEF IncidentsNext

LEMMA AskInit == IncidentsInit => AskInv
<1> SUFFICES ASSUME IncidentsInit PROVE AskInv
    OBVIOUS
<1>1. \A s \in Signature : AskedFor(s)
    BY DEF IncidentsInit, AskedFor, OpenedFor, Stored, Worker
<1>2. ReadIsCurrent /\ HeldAreStored
    BY DEF IncidentsInit, ReadIsCurrent, HeldAreStored, Shipping, Worker
<1> QED
    BY <1>1, <1>2 DEF AskInv

\* Types, turns and openings hold together in every state.
IncidentsInv == IncidentsTyped /\ AskInv

LEMMA IncidentsInductive ==
    /\ IncidentsInit => IncidentsInv
    /\ IncidentsInv /\ [IncidentsNext]_incidentVars => IncidentsInv'
<1>1. IncidentsInit => IncidentsInv
    BY IncidentsInitTyped, AskInit DEF IncidentsInv
<1>2. ASSUME IncidentsInv, [IncidentsNext]_incidentVars PROVE IncidentsInv'
    <2>1. IncidentsTypeOK /\ AtHand /\ TurnsInOrder /\ AskInv /\ HeldAreStored
        BY <1>2 DEF IncidentsInv, IncidentsTyped, AskInv
    <2>2. IncidentsTypeOK' /\ AtHand' /\ TurnsInOrder'
        BY <1>2, <2>1, TypeOKStep, AtHandStep, TurnsStep
    <2>3. StoredMoves
        BY <1>2, <2>1, StoredStep
    <2>4. HeldAreStored' /\ (\A s \in Signature : AskedFor(s)') /\ ReadIsCurrent'
        BY <1>2, <2>1, <2>3, HeldStep, AskedStep, ReadStep
    <2> QED
        BY <2>2, <2>4 DEF IncidentsInv, IncidentsTyped, AskInv
<1> QED
    BY <1>1, <1>2

\* The inductive invariant of the incident corpus, its types included: captures
\* of a signature take turns, what one reads in its turn stays so, and an
\* incident is opened once (feedback.service.ts, #withLock and #note).
THEOREM IncidentsInvariant == IncidentsSpec => []IncidentsInv
<1>1. IncidentsInit => IncidentsInv
    BY IncidentsInductive
<1>2. IncidentsInv /\ [IncidentsNext]_incidentVars => IncidentsInv'
    BY IncidentsInductive
<1> QED
    BY <1>1, <1>2, PTL DEF IncidentsSpec

\* A failure the model retries is asked about once: one ISSUE_OPEN for a
\* signature at most, however many of its captures run side by side, for any
\* signatures, promises and number of failures.
THEOREM EveryFailureIsAskedAboutOnce == IncidentsSpec => []AskedOnce
<1>1. IncidentsInv => AskedOnce
    <2> SUFFICES ASSUME IncidentsInv, NEW s \in Signature
                 PROVE  nudged[s] + Cardinality(OpenedFor(s)) <= 1
        BY DEF AskedOnce, OpenedFor
    <2>1. IncidentsTypeOK /\ AtHand /\ TurnsInOrder /\ AskedFor(s)
        BY DEF IncidentsInv, IncidentsTyped, AskInv
    <2>2. CASE OpenedFor(s) = {}
        BY <2>1, <2>2, FS_EmptySet DEF AskedFor
    <2>3. CASE OpenedFor(s) # {}
        <3>1. PICK t \in OpenedFor(s) : TRUE
            BY <2>3
        <3>2. \A u \in OpenedFor(s) : u = t
            BY <2>1, OnePastTheWait DEF OpenedFor
        <3>3. OpenedFor(s) = {t} /\ Cardinality({t}) = 1
            BY <3>2, FS_Singleton
        <3>4. nudged[s] = 0
            BY <2>1, <2>3 DEF AskedFor
        <3> QED
            BY <3>3, <3>4
    <2> QED
        BY <2>2, <2>3
<1> QED
    BY <1>1, IncidentsInvariant, PTL

\* A report is never taken back.
ReportsStay == \A s \in Signature : Reported(s) => Reported(s)'

LEMMA NothingReported == UNCHANGED reports => ReportsStay
    BY DEF ReportsStay, Reported

LEMMA DeliverReports ==
    ASSUME IncidentsTypeOK, AtHand, NEW w \in Worker, Deliver(w)
    PROVE  /\ sig[w] \in Signature /\ reports'[sig[w]] >= 1 /\ ReportsStay
           /\ pc' = [pc EXCEPT ![w] = "delivered"]
           /\ UNCHANGED <<incident, sig, base, todo, drain>>
<1>1. sig[w] \in Signature
    BY DEF Deliver, AtHand, Shipping
<1>2. reports' = [reports EXCEPT ![sig[w]] = @ + 1]
    BY DEF Deliver
<1>3. \A s \in Signature : reports[s] \in Nat
    BY DEF IncidentsTypeOK
<1>4. reports'[sig[w]] >= 1 /\ ReportsStay
    BY <1>1, <1>2, <1>3 DEF IncidentsTypeOK, ReportsStay, Reported
<1> QED
    BY <1>1, <1>4 DEF Deliver, Goto

\* Where nothing is saved, or what is saved reads as flushed only when reported.
LEMMA NothingSaved ==
    ASSUME IncidentsReported, ReportsStay, UNCHANGED incident
    PROVE  IncidentsReported'
    BY DEF IncidentsReported, ReportsStay

LEMMA SavedReported ==
    ASSUME IncidentsTypeOK, IncidentsReported, ReportsStay,
           NEW s \in Signature, NEW b \in Incident,
           incident' = [incident EXCEPT ![s] = b], IsFlushed(b) => Reported(s)
    PROVE  IncidentsReported'
<1> SUFFICES ASSUME NEW r \in Signature, IsFlushed(incident'[r]) PROVE Reported(r)'
    BY DEF IncidentsReported
<1>1. CASE r = s
    BY <1>1 DEF IncidentsTypeOK, ReportsStay
<1>2. CASE r # s
    BY <1>2 DEF IncidentsTypeOK, ReportsStay, IncidentsReported
<1> QED
    BY <1>1, <1>2

\* What is on a list stays as it was read.
LEMMA ListedStays ==
    ASSUME IncidentsTypeOK, ListedReported, ReportsStay,
           \A w \in Worker : \A item \in todo'[w] :
             item \in todo[w] \/ (item \in Listed /\ (IsFlushed(item.body) => Reported(item.s)))
    PROVE  ListedReported'
<1> SUFFICES ASSUME NEW w \in Worker, NEW item \in todo'[w], IsFlushed(item.body)
             PROVE  Reported(item.s)'
    BY DEF ListedReported
<1>1. item \in Listed /\ Reported(item.s)
    BY DEF ListedReported, IncidentsTypeOK
<1>2. item.s \in Signature
    BY <1>1 DEF Listed
<1> QED
    BY <1>1, <1>2 DEF ReportsStay

\* So does what a promise holds.
LEMMA HeldStaysReported ==
    ASSUME IncidentsTypeOK, AtHand, HeldReported, ReportsStay,
           \A w \in Worker : pc'[w] \in {"found", "narrating", "flushing", "delivered"} =>
             \/ pc'[w] = pc[w] /\ sig'[w] = sig[w] /\ base'[w] = base[w]
             \/ /\ sig'[w] \in Signature /\ pc'[w] # "delivered"
                /\ IsFlushed(base'[w]) => Reported(sig'[w])
    PROVE  HeldReported'
<1> SUFFICES ASSUME NEW w \in Worker,
                    pc'[w] = "delivered"
                      \/ (pc'[w] \in {"found", "narrating", "flushing"} /\ IsFlushed(base'[w]))
             PROVE  Reported(sig[w])'
    BY DEF HeldReported
<1>1. sig'[w] \in Signature
    BY DEF AtHand, Capturing, Shipping
<1>2. Reported(sig'[w])
    BY DEF HeldReported
<1>3. PICK s \in Signature : s = sig'[w] /\ Reported(s)
    BY <1>1, <1>2
<1>4. Reported(s)'
    BY <1>3 DEF ReportsStay
<1> QED
    BY <1>3, <1>4 DEF Reported

\* What is listed of the incidents reads as they do.
LEMMA BodiesReported ==
    ASSUME IncidentsTypeOK, IncidentsReported, NEW S \in SUBSET {s \in Signature : Stored(s)}
    PROVE  \A item \in Bodies(S) :
             item \in Listed /\ (IsFlushed(item.body) => Reported(item.s))
    BY BodiesAre DEF IncidentsReported

\* Every step keeps what is reported ...
LEMMA ReportsStayStep ==
    ASSUME IncidentsTypeOK, AtHand, TurnsInOrder,
           [IncidentsNext]_incidentVars
    PROVE  ReportsStay
<1> USE DEF work
<1>1. ASSUME NEW t \in Task, NEW s \in Signature, Fail(t, s) PROVE ReportsStay
    BY <1>1, NothingReported DEF Fail
<1>2. ASSUME NEW t \in Task, NEW s \in Signature, Narrate(t, s) PROVE ReportsStay
    BY <1>2, NothingReported DEF Narrate
<1>3. ASSUME NEW t \in Task, NEW scope \in {"action", "flow"}, Succeed(t, scope)
      PROVE ReportsStay
    BY <1>3, NothingReported DEF Succeed
<1>4. ASSUME NEW t \in Task, Count(t) PROVE ReportsStay
    BY <1>4, NothingReported DEF Count
<1>5. ASSUME NEW t \in Task, Find(t) PROVE ReportsStay
    BY <1>5, NothingReported DEF Find
<1>6. ASSUME NEW t \in Task, Merge(t) PROVE ReportsStay
    BY <1>6, NothingReported DEF Merge, Save, Release, Over
<1>7. ASSUME NEW t \in Task, Open(t) PROVE ReportsStay
    BY <1>7, NothingReported DEF Open, Save
<1>8. ASSUME NEW t \in Task, Nudge(t) PROVE ReportsStay
    BY <1>8, NothingReported DEF Nudge, Release, Over
<1>9. ASSUME NEW t \in Task, ListOpen(t) PROVE ReportsStay
    BY <1>9, NothingReported DEF ListOpen, Bodies, Resolvable
<1>10. ASSUME NEW t \in Task, Resolve(t) PROVE ReportsStay
    BY <1>10, NothingReported DEF Resolve, Save
<1>11. ASSUME NEW t \in Task, Resolved(t) PROVE ReportsStay
    BY <1>11, NothingReported DEF Resolved, Over
<1>12. ASSUME NEW t \in Task, Account(t) PROVE ReportsStay
    BY <1>12, NothingReported DEF Account, Save
<1>13. ASSUME NEW w \in Worker, SkipFlush(w) PROVE ReportsStay
    <2>1. AfterFlush(w)
        BY <1>13, FlushIs
    <2> QED
        BY <2>1, NothingReported DEF AfterFlush
<1>14. ASSUME NEW w \in Worker, FlushFails(w) PROVE ReportsStay
    <2>1. AfterFlush(w)
        BY <1>14, FlushIs
    <2> QED
        BY <2>1, NothingReported DEF AfterFlush
<1>15. ASSUME NEW w \in Worker, Deliver(w) PROVE ReportsStay
    BY <1>15, DeliverReports
<1>16. ASSUME NEW w \in Worker, MarkFlushed(w) PROVE ReportsStay
    <2>1. AfterFlush(w)
        BY <1>16, FlushIs
    <2> QED
        BY <2>1, NothingReported DEF AfterFlush
<1>17. CASE StartDrain
    BY <1>17, NothingReported DEF StartDrain
<1>18. CASE DrainLists
    BY <1>18, NothingReported DEF DrainLists, Bodies, Unreported
<1>19. CASE DrainNext
    BY <1>19, NothingReported DEF DrainNext, Save, Verdict
<1>20. CASE Drained
    BY <1>20, NothingReported DEF Drained
<1>21. CASE UNCHANGED incidentVars
    BY <1>21, NothingReported DEF incidentVars
<1> QED
    BY <1>1, <1>2, <1>3, <1>4, <1>5, <1>6, <1>7, <1>8, <1>9, <1>10, <1>11, <1>12,
        <1>13, <1>14, <1>15, <1>16, <1>17, <1>18, <1>19, <1>20, <1>21 DEF IncidentsNext

\* ... what reads as flushed in the store ...
LEMMA IncidentsReportedStep ==
    ASSUME IncidentsTypeOK, AtHand, TurnsInOrder, IncidentsReported, ListedReported,
           HeldReported, ReportsStay,
           [IncidentsNext]_incidentVars
    PROVE  IncidentsReported'
<1> USE DEF work
<1>1. ASSUME NEW t \in Task, NEW s \in Signature, Fail(t, s) PROVE IncidentsReported'
    BY <1>1, NothingSaved DEF Fail
<1>2. ASSUME NEW t \in Task, NEW s \in Signature, Narrate(t, s) PROVE IncidentsReported'
    BY <1>2, NothingSaved DEF Narrate
<1>3. ASSUME NEW t \in Task, NEW scope \in {"action", "flow"}, Succeed(t, scope)
      PROVE IncidentsReported'
    BY <1>3, NothingSaved DEF Succeed
<1>4. ASSUME NEW t \in Task, Count(t) PROVE IncidentsReported'
    BY <1>4, NothingSaved DEF Count
<1>5. ASSUME NEW t \in Task, Find(t) PROVE IncidentsReported'
    BY <1>5, NothingSaved DEF Find
<1>6. ASSUME NEW t \in Task, Merge(t) PROVE IncidentsReported'
    <2>1. sig[t] \in Signature /\ base[t] \in Incident /\ pc[t] = "found"
        BY <1>6, AtTheHead DEF Merge, IncidentsTypeOK, Worker
    <2>2. PICK b \in Incident : b = Reopened(base[t]) /\ (IsFlushed(b) <=> IsFlushed(base[t]))
        BY <2>1, BodyIs, FlushedIs
    <2>3. incident' = [incident EXCEPT ![sig[t]] = b]
        BY <1>6, <2>2 DEF Merge, Save
    <2> QED
        BY <2>1, <2>2, <2>3, SavedReported DEF HeldReported, Worker
<1>7. ASSUME NEW t \in Task, Open(t) PROVE IncidentsReported'
    <2>1. sig[t] \in Signature
        BY <1>7, AtTheHead DEF Open
    <2>2. PICK b \in Incident : b = [state |-> "OPEN", flushed |-> FALSE, narrated |-> FALSE]
        BY DEF Incident, State
    <2>3. incident' = [incident EXCEPT ![sig[t]] = b] /\ ~IsFlushed(b)
        BY <1>7, <2>2 DEF Open, Save, IsFlushed
    <2> QED
        BY <2>1, <2>3, SavedReported
<1>8. ASSUME NEW t \in Task, Nudge(t) PROVE IncidentsReported'
    BY <1>8, NothingSaved DEF Nudge, Release, Over
<1>9. ASSUME NEW t \in Task, ListOpen(t) PROVE IncidentsReported'
    BY <1>9, NothingSaved DEF ListOpen, Bodies, Resolvable
<1>10. ASSUME NEW t \in Task, Resolve(t) PROVE IncidentsReported'
    <2>1. PICK item \in todo[t], b \in Incident :
             /\ item \in Listed /\ (IsFlushed(b) <=> IsFlushed(item.body))
             /\ incident' = [incident EXCEPT ![item.s] = b]
             /\ sig' = [sig EXCEPT ![t] = item.s] /\ base' = [base EXCEPT ![t] = b]
             /\ todo' = [todo EXCEPT ![t] = @ \ {item}]
        BY <1>10, ResolveIs
    <2>2. item.s \in Signature /\ (IsFlushed(b) => Reported(item.s))
        BY <2>1 DEF Listed, ListedReported, Worker
    <2> QED
        BY <2>1, <2>2, SavedReported
<1>11. ASSUME NEW t \in Task, Resolved(t) PROVE IncidentsReported'
    BY <1>11, NothingSaved DEF Resolved, Over
<1>12. ASSUME NEW t \in Task, Account(t) PROVE IncidentsReported'
    <2>1. PICK b \in Incident :
             /\ ~IsFlushed(b)
             /\ incident' = [incident EXCEPT ![sig[t]] = b] /\ base' = [base EXCEPT ![t] = b]
        BY <1>12, AccountIs
    <2>2. sig[t] \in Signature
        BY <1>12 DEF Account, AtHand, Worker
    <2> QED
        BY <2>1, <2>2, SavedReported
<1>13. ASSUME NEW w \in Worker, SkipFlush(w) PROVE IncidentsReported'
    BY <1>13, NothingSaved DEF SkipFlush
<1>14. ASSUME NEW w \in Worker, FlushFails(w) PROVE IncidentsReported'
    BY <1>14, NothingSaved DEF FlushFails
<1>15. ASSUME NEW w \in Worker, Deliver(w) PROVE IncidentsReported'
    BY <1>15, DeliverReports, NothingSaved
<1>16. ASSUME NEW w \in Worker, MarkFlushed(w) PROVE IncidentsReported'
    <2>1. AfterFlush(w) /\ Reported(sig[w]) /\ sig[w] \in Signature
        BY <1>16, FlushIs DEF MarkFlushed, HeldReported, AtHand, Shipping
    <2>2. \/ incident' = incident
          \/ \E b \in Incident : incident' = [incident EXCEPT ![sig[w]] = b]
        BY <2>1 DEF AfterFlush
    <2> QED
        BY <2>1, <2>2, SavedReported, NothingSaved
<1>17. CASE StartDrain
    BY <1>17, NothingSaved DEF StartDrain
<1>18. CASE DrainLists
    BY <1>18, NothingSaved DEF DrainLists, Bodies, Unreported
<1>19. CASE DrainNext
    <2>1. PICK item \in todo[Drainer], b \in Incident :
             /\ item \in Listed /\ (IsFlushed(b) <=> IsFlushed(item.body))
             /\ incident' \in {incident, [incident EXCEPT ![item.s] = b]}
             /\ sig' = [sig EXCEPT ![Drainer] = item.s] /\ base' = [base EXCEPT ![Drainer] = b]
             /\ todo' = [todo EXCEPT ![Drainer] = @ \ {item}]
        BY <1>19, DrainNextIs
    <2>2. item.s \in Signature /\ (IsFlushed(b) => Reported(item.s))
        BY <2>1 DEF Listed, ListedReported, Worker
    <2> QED
        BY <2>1, <2>2, SavedReported, NothingSaved
<1>20. CASE Drained
    BY <1>20, NothingSaved DEF Drained
<1>21. CASE UNCHANGED incidentVars
    BY <1>21, NothingSaved DEF incidentVars
<1> QED
    BY <1>1, <1>2, <1>3, <1>4, <1>5, <1>6, <1>7, <1>8, <1>9, <1>10, <1>11, <1>12,
        <1>13, <1>14, <1>15, <1>16, <1>17, <1>18, <1>19, <1>20, <1>21 DEF IncidentsNext

\* ... on a list ...
LEMMA ListedReportedStep ==
    ASSUME IncidentsTypeOK, AtHand, TurnsInOrder, IncidentsReported, ListedReported, ReportsStay,
           [IncidentsNext]_incidentVars
    PROVE  ListedReported'
<1> USE DEF work
<1>1. ASSUME NEW t \in Task, NEW s \in Signature, Fail(t, s) PROVE ListedReported'
    BY <1>1, ListedStays DEF Fail
<1>2. ASSUME NEW t \in Task, NEW s \in Signature, Narrate(t, s) PROVE ListedReported'
    BY <1>2, ListedStays DEF Narrate
<1>3. ASSUME NEW t \in Task, NEW scope \in {"action", "flow"}, Succeed(t, scope)
      PROVE ListedReported'
    BY <1>3, ListedStays DEF Succeed
<1>4. ASSUME NEW t \in Task, Count(t) PROVE ListedReported'
    BY <1>4, ListedStays DEF Count
<1>5. ASSUME NEW t \in Task, Find(t) PROVE ListedReported'
    BY <1>5, ListedStays DEF Find
<1>6. ASSUME NEW t \in Task, Merge(t) PROVE ListedReported'
    BY <1>6, ListedStays DEF Merge, Save, Release, Over
<1>7. ASSUME NEW t \in Task, Open(t) PROVE ListedReported'
    BY <1>7, ListedStays DEF Open, Save
<1>8. ASSUME NEW t \in Task, Nudge(t) PROVE ListedReported'
    BY <1>8, ListedStays DEF Nudge, Release, Over
<1>9. ASSUME NEW t \in Task, ListOpen(t) PROVE ListedReported'
    <2>1. \A item \in Bodies(Resolvable(pc[t])) :
             item \in Listed /\ (IsFlushed(item.body) => Reported(item.s))
        BY BodiesReported, ListedAreStored
    <2> QED
        BY <1>9, <2>1, ListedStays DEF ListOpen
<1>10. ASSUME NEW t \in Task, Resolve(t) PROVE ListedReported'
    <2>1. PICK item \in todo[t] : todo' = [todo EXCEPT ![t] = @ \ {item}]
        BY <1>10 DEF Resolve
    <2> QED
        BY <2>1, ListedStays
<1>11. ASSUME NEW t \in Task, Resolved(t) PROVE ListedReported'
    BY <1>11, ListedStays DEF Resolved, Over
<1>12. ASSUME NEW t \in Task, Account(t) PROVE ListedReported'
    BY <1>12, ListedStays DEF Account, Save
<1>13. ASSUME NEW w \in Worker, SkipFlush(w) PROVE ListedReported'
    <2>1. AfterFlush(w)
        BY <1>13, FlushIs
    <2> QED
        BY <2>1, ListedStays DEF AfterFlush
<1>14. ASSUME NEW w \in Worker, FlushFails(w) PROVE ListedReported'
    <2>1. AfterFlush(w)
        BY <1>14, FlushIs
    <2> QED
        BY <2>1, ListedStays DEF AfterFlush
<1>15. ASSUME NEW w \in Worker, Deliver(w) PROVE ListedReported'
    BY <1>15, DeliverReports, ListedStays
<1>16. ASSUME NEW w \in Worker, MarkFlushed(w) PROVE ListedReported'
    <2>1. AfterFlush(w)
        BY <1>16, FlushIs
    <2> QED
        BY <2>1, ListedStays DEF AfterFlush
<1>17. CASE StartDrain
    BY <1>17, ListedStays DEF StartDrain
<1>18. CASE DrainLists
    <2>1. \A item \in Bodies(Unreported) :
             item \in Listed /\ (IsFlushed(item.body) => Reported(item.s))
        BY BodiesReported, ListedAreStored
    <2> QED
        BY <1>18, <2>1, ListedStays DEF DrainLists
<1>19. CASE DrainNext
    <2>1. PICK item \in todo[Drainer] : todo' = [todo EXCEPT ![Drainer] = @ \ {item}]
        BY <1>19 DEF DrainNext
    <2> QED
        BY <2>1, ListedStays
<1>20. CASE Drained
    BY <1>20, ListedStays DEF Drained
<1>21. CASE UNCHANGED incidentVars
    BY <1>21, ListedStays DEF incidentVars
<1> QED
    BY <1>1, <1>2, <1>3, <1>4, <1>5, <1>6, <1>7, <1>8, <1>9, <1>10, <1>11, <1>12,
        <1>13, <1>14, <1>15, <1>16, <1>17, <1>18, <1>19, <1>20, <1>21 DEF IncidentsNext

\* ... and in hand.
LEMMA HeldReportedStep ==
    ASSUME IncidentsTypeOK, AtHand, TurnsInOrder, IncidentsReported, ListedReported,
           HeldReported, ReportsStay,
           [IncidentsNext]_incidentVars
    PROVE  HeldReported'
<1> USE DEF work, Goto, IncidentsTypeOK, Worker
<1>1. ASSUME NEW t \in Task, NEW s \in Signature, Fail(t, s) PROVE HeldReported'
    BY <1>1, HeldStaysReported DEF Fail
<1>2. ASSUME NEW t \in Task, NEW s \in Signature, Narrate(t, s) PROVE HeldReported'
    <2>1. pc' = [pc EXCEPT ![t] = "narrating"] /\ sig' = [sig EXCEPT ![t] = s]
          /\ base' = [base EXCEPT ![t] = incident[s]]
        BY <1>2 DEF Narrate, Goto
    <2>2. IsFlushed(incident[s]) => Reported(s)
        BY DEF IncidentsReported
    <2> QED
        BY <2>1, <2>2, HeldStaysReported DEF IncidentsTypeOK
<1>3. ASSUME NEW t \in Task, NEW scope \in {"action", "flow"}, Succeed(t, scope)
      PROVE HeldReported'
    BY <1>3, HeldStaysReported DEF Succeed
<1>4. ASSUME NEW t \in Task, Count(t) PROVE HeldReported'
    BY <1>4, HeldStaysReported DEF Count
<1>5. ASSUME NEW t \in Task, Find(t) PROVE HeldReported'
    <2>1. pc' = [pc EXCEPT ![t] = "found"] /\ sig' = sig /\ sig[t] \in Signature
          /\ base' = [base EXCEPT ![t] = incident[sig[t]]]
        BY <1>5 DEF Find, Goto, AtHand, Capturing, Worker
    <2>2. IsFlushed(incident[sig[t]]) => Reported(sig[t])
        BY <2>1 DEF IncidentsReported
    <2> QED
        BY <2>1, <2>2, HeldStaysReported DEF IncidentsTypeOK
<1>6. ASSUME NEW t \in Task, Merge(t) PROVE HeldReported'
    BY <1>6, HeldStaysReported DEF Merge, Save, Release, Over
<1>7. ASSUME NEW t \in Task, Open(t) PROVE HeldReported'
    BY <1>7, HeldStaysReported DEF Open, Save
<1>8. ASSUME NEW t \in Task, Nudge(t) PROVE HeldReported'
    BY <1>8, HeldStaysReported DEF Nudge, Release, Over
<1>9. ASSUME NEW t \in Task, ListOpen(t) PROVE HeldReported'
    BY <1>9, HeldStaysReported DEF ListOpen, Bodies, Resolvable
<1>10. ASSUME NEW t \in Task, Resolve(t) PROVE HeldReported'
    <2>1. PICK item \in todo[t], b \in Incident :
             /\ item \in Listed /\ (IsFlushed(b) <=> IsFlushed(item.body))
             /\ incident' = [incident EXCEPT ![item.s] = b]
             /\ sig' = [sig EXCEPT ![t] = item.s] /\ base' = [base EXCEPT ![t] = b]
             /\ todo' = [todo EXCEPT ![t] = @ \ {item}]
        BY <1>10, ResolveIs
    <2>2. item.s \in Signature /\ (IsFlushed(b) => Reported(item.s))
        BY <2>1 DEF Listed, ListedReported, Worker
    <2>3. pc' = [pc EXCEPT ![t] = "flushing"]
        BY <1>10 DEF Resolve, Goto
    <2> QED
        BY <2>1, <2>2, <2>3, HeldStaysReported DEF IncidentsTypeOK
<1>11. ASSUME NEW t \in Task, Resolved(t) PROVE HeldReported'
    BY <1>11, HeldStaysReported DEF Resolved, Over
<1>12. ASSUME NEW t \in Task, Account(t) PROVE HeldReported'
    <2>1. PICK b \in Incident :
             /\ ~IsFlushed(b)
             /\ incident' = [incident EXCEPT ![sig[t]] = b] /\ base' = [base EXCEPT ![t] = b]
        BY <1>12, AccountIs
    <2>2. pc' = [pc EXCEPT ![t] = "flushing"] /\ sig' = sig /\ sig[t] \in Signature
        BY <1>12 DEF Account, AtHand, Worker, Goto
    <2> QED
        BY <2>1, <2>2, HeldStaysReported DEF IncidentsTypeOK
<1>13. ASSUME NEW w \in Worker, SkipFlush(w) PROVE HeldReported'
    <2>1. AfterFlush(w)
        BY <1>13, FlushIs
    <2> QED
        BY <2>1, HeldStaysReported DEF AfterFlush, IncidentsTypeOK
<1>14. ASSUME NEW w \in Worker, FlushFails(w) PROVE HeldReported'
    <2>1. AfterFlush(w)
        BY <1>14, FlushIs
    <2> QED
        BY <2>1, HeldStaysReported DEF AfterFlush, IncidentsTypeOK
<1>15. ASSUME NEW w \in Worker, Deliver(w) PROVE HeldReported'
    <2>1. /\ sig[w] \in Signature /\ reports'[sig[w]] >= 1
          /\ pc' = [pc EXCEPT ![w] = "delivered"] /\ UNCHANGED <<sig, base>>
        BY <1>15, DeliverReports
    <2>2. ASSUME NEW v \in Worker, v # w,
                 pc'[v] = "delivered"
                   \/ (pc'[v] \in {"found", "narrating", "flushing"} /\ IsFlushed(base'[v]))
          PROVE  Reported(sig[v])'
        <3>1. pc'[v] = pc[v] /\ base'[v] = base[v] /\ sig'[v] = sig[v]
            BY <2>1, <2>2 DEF IncidentsTypeOK
        <3>2. sig[v] \in Signature
            BY <2>2, <3>1 DEF AtHand, Capturing, Shipping
        <3>3. Reported(sig[v])
            BY <2>2, <3>1 DEF HeldReported
        <3> QED
            BY <3>1, <3>2, <3>3 DEF ReportsStay, Reported
    <2>3. Reported(sig[w])'
        BY <2>1 DEF Reported
    <2> QED
        BY <2>2, <2>3 DEF HeldReported
<1>16. ASSUME NEW w \in Worker, MarkFlushed(w) PROVE HeldReported'
    <2>1. AfterFlush(w)
        BY <1>16, FlushIs
    <2> QED
        BY <2>1, HeldStaysReported DEF AfterFlush, IncidentsTypeOK
<1>17. CASE StartDrain
    BY <1>17, HeldStaysReported DEF StartDrain
<1>18. CASE DrainLists
    BY <1>18, HeldStaysReported DEF DrainLists, Bodies, Unreported
<1>19. CASE DrainNext
    <2>1. PICK item \in todo[Drainer], b \in Incident :
             /\ item \in Listed /\ (IsFlushed(b) <=> IsFlushed(item.body))
             /\ incident' \in {incident, [incident EXCEPT ![item.s] = b]}
             /\ sig' = [sig EXCEPT ![Drainer] = item.s] /\ base' = [base EXCEPT ![Drainer] = b]
             /\ todo' = [todo EXCEPT ![Drainer] = @ \ {item}]
        BY <1>19, DrainNextIs
    <2>2. item.s \in Signature /\ (IsFlushed(b) => Reported(item.s))
        BY <2>1 DEF Listed, ListedReported, Worker
    <2>3. pc' = [pc EXCEPT ![Drainer] = "flushing"]
        BY <1>19 DEF DrainNext, Goto
    <2> QED
        BY <2>1, <2>2, <2>3, HeldStaysReported DEF IncidentsTypeOK
<1>20. CASE Drained
    BY <1>20, HeldStaysReported DEF Drained
<1>21. CASE UNCHANGED incidentVars
    BY <1>21, HeldStaysReported DEF incidentVars
<1> QED
    BY <1>1, <1>2, <1>3, <1>4, <1>5, <1>6, <1>7, <1>8, <1>9, <1>10, <1>11, <1>12,
        <1>13, <1>14, <1>15, <1>16, <1>17, <1>18, <1>19, <1>20, <1>21 DEF IncidentsNext

\* While the drain waits: a capture it waits for goes on, or has stored its incident.
LEMMA ComingStays ==
    ASSUME IncidentsTypeOK, AtHand, DueIsComing, StoredMoves, UNCHANGED due,
           pc'[Drainer] = "settling" => pc[Drainer] = "settling",
           \A t \in awaited : pc[t] \in Capturing =>
             \/ t \in awaited' /\ pc'[t] \in Capturing /\ sig'[t] = sig[t]
             \/ Stored(sig[t])
    PROVE  DueIsComing'
<1> SUFFICES ASSUME pc'[Drainer] = "settling", NEW s \in due
             PROVE  Stored(s)' \/ \E t \in awaited' : pc'[t] \in Capturing /\ sig'[t] = s
    BY DEF DueIsComing
<1>1. Stored(s) \/ \E t \in awaited : pc[t] \in Capturing /\ sig[t] = s
    BY DEF DueIsComing
<1>2. Stored(s) => Stored(s)'
    BY DEF StoredMoves, IncidentsTypeOK
<1> QED
    BY <1>1, <1>2

LEMMA StartIsComing ==
    ASSUME IncidentsTypeOK, AtHand, StartDrain
    PROVE  DueIsComing'
<1> SUFFICES ASSUME NEW s \in due'
             PROVE  Stored(s)' \/ \E t \in awaited' : pc'[t] \in Capturing /\ sig'[t] = s
    BY DEF DueIsComing
<1>1. /\ awaited' = inFlight /\ incident' = incident /\ sig' = sig
      /\ due' = {r \in Signature : Stored(r)} \cup {sig[t] : t \in {u \in inFlight :
                pc[u] \in {"counting", "queued", "found", "opened"}}}
    BY DEF StartDrain
<1>2. \A u \in Task : pc'[u] = pc[u]
    BY DrainerAssumption DEF StartDrain, Goto, IncidentsTypeOK, Worker
<1>3. CASE Stored(s)
    BY <1>1, <1>3 DEF Stored
<1>4. CASE \E u \in inFlight : pc[u] \in {"counting", "queued", "found", "opened"} /\ s = sig[u]
    BY <1>1, <1>2, <1>4 DEF IncidentsTypeOK, Capturing
<1> QED
    BY <1>1, <1>3, <1>4

\* What the others do leaves the drain where it was.
DrainIsLeft ==
  /\ pc'[Drainer] = pc[Drainer] /\ sig'[Drainer] = sig[Drainer]
  /\ todo'[Drainer] = todo[Drainer]
  /\ due' = due /\ unlisted' = unlisted /\ gaveUp' = gaveUp

LEMMA InHandStays ==
    ASSUME IncidentsTypeOK, DueIsInHand, ReportsStay, DrainIsLeft
    PROVE  DueIsInHand'
<1>1. \A s \in due : Reported(s) => Reported(s)'
    BY DEF ReportsStay, IncidentsTypeOK
<1>2. ASSUME pc'[Drainer] \notin {"idle", "settling"} /\ ~StateSurvives,
             NEW s \in due' \ (gaveUp' \cup unlisted')
      PROVE  \/ Reported(s)'
             \/ \E item \in todo'[Drainer] : item.s = s
             \/ pc'[Drainer] = "flushing" /\ sig'[Drainer] = s
    BY <1>1, <1>2 DEF DueIsInHand, DrainIsLeft
<1>3. pc'[Drainer] = "drained" => todo'[Drainer] = {}
    BY DEF DueIsInHand, DrainIsLeft
<1> QED
    BY <1>2, <1>3 DEF DueIsInHand

\* The drain lists what is due, once it is all stored.
LEMMA ListedInHand ==
    ASSUME IncidentsTypeOK, AtHand, DueIsComing, IncidentsReported, DrainLists
    PROVE  DueIsInHand'
<1>1. /\ pc[Drainer] = "settling" /\ awaited = {} /\ UNCHANGED <<reports, due>>
      /\ unlisted' = due \cap Dropped
      /\ pc' = [pc EXCEPT ![Drainer] = "resolving"]
      /\ todo' = [todo EXCEPT ![Drainer] = Bodies(Unreported)]
    BY DEF DrainLists, SettledAll, drain, kept, Goto
<1>2. pc'[Drainer] = "resolving" /\ todo'[Drainer] = Bodies(Unreported)
    BY <1>1 DEF IncidentsTypeOK, Worker
<1>3. ASSUME ~StateSurvives, NEW s \in due \ unlisted'
      PROVE  Reported(s) \/ \E item \in Bodies(Unreported) : item.s = s
    <2>1. s \in Signature /\ Stored(s)
        BY <1>1 DEF DueIsComing, IncidentsTypeOK
    <2>2. CASE IsFlushed(incident[s])
        BY <2>1, <2>2 DEF IncidentsReported
    <2>3. CASE ~IsFlushed(incident[s])
        <3>1. s \in Unreported \ Dropped
            BY <1>1, <1>3, <2>1, <2>3 DEF Unreported, IsFlushed
        <3> QED
            BY <3>1, BodiesAre, ListedAreStored
    <2> QED
        BY <2>2, <2>3
<1> QED
    BY <1>1, <1>2, <1>3 DEF DueIsInHand, Reported

\* The next on its list is the flush at hand.
LEMMA NextInHand ==
    ASSUME IncidentsTypeOK, AtHand, DueIsInHand, DrainNext
    PROVE  DueIsInHand'
<1>1. PICK item \in todo[Drainer], b \in Incident :
             /\ item \in Listed
             /\ incident' \in {incident, [incident EXCEPT ![item.s] = b]}
             /\ sig' = [sig EXCEPT ![Drainer] = item.s] /\ base' = [base EXCEPT ![Drainer] = b]
             /\ todo' = [todo EXCEPT ![Drainer] = @ \ {item}]
    BY DrainNextIs
<1>2. /\ pc[Drainer] = "resolving" /\ pc'[Drainer] = "flushing"
      /\ UNCHANGED <<reports, due, unlisted, gaveUp>>
      /\ sig'[Drainer] = item.s /\ todo'[Drainer] = todo[Drainer] \ {item}
    BY <1>1 DEF DrainNext, drain, kept, Goto, IncidentsTypeOK, Worker
<1>3. ASSUME ~StateSurvives, NEW s \in due \ (gaveUp \cup unlisted)
      PROVE  Reported(s) \/ (\E other \in todo[Drainer] \ {item} : other.s = s) \/ item.s = s
    BY <1>2, <1>3 DEF DueIsInHand
<1> QED
    BY <1>2, <1>3 DEF DueIsInHand, Reported

\* A flush of its own ends with the report, or is given up.
LEMMA FlushInHand ==
    ASSUME IncidentsTypeOK, AtHand, HeldReported, DueIsInHand,
           SkipFlush(Drainer) \/ FlushFails(Drainer) \/ MarkFlushed(Drainer)
    PROVE  DueIsInHand'
<1>1. Drainer \in Worker /\ AfterFlush(Drainer)
    BY FlushIs DEF Worker
<1>2. /\ pc'[Drainer] = "resolving" /\ pc[Drainer] \in Shipping /\ sig[Drainer] \in Signature
      /\ UNCHANGED <<reports, due, unlisted>> /\ todo'[Drainer] = todo[Drainer]
      /\ gaveUp \subseteq gaveUp'
    BY <1>1, DrainerAssumption DEF AfterFlush, IncidentsTypeOK
<1>3. Reported(sig[Drainer]) \/ sig[Drainer] \in gaveUp'
    <2>1. CASE SkipFlush(Drainer)
        BY <1>1, <2>1 DEF SkipFlush, HeldReported, IsFlushed
    <2>2. CASE FlushFails(Drainer)
        BY <2>2 DEF FlushFails
    <2>3. CASE MarkFlushed(Drainer)
        BY <1>1, <2>3 DEF MarkFlushed, HeldReported
    <2> QED
        BY <2>1, <2>2, <2>3
<1>4. ASSUME ~StateSurvives, NEW s \in due \ (gaveUp' \cup unlisted)
      PROVE  Reported(s) \/ \E item \in todo[Drainer] : item.s = s
    BY <1>2, <1>3, <1>4 DEF DueIsInHand, Shipping
<1> QED
    BY <1>2, <1>4 DEF DueIsInHand, Reported

LEMMA DeliverInHand ==
    ASSUME IncidentsTypeOK, AtHand, DueIsInHand, ReportsStay, Deliver(Drainer)
    PROVE  DueIsInHand'
<1>1. /\ sig[Drainer] \in Signature /\ reports'[sig[Drainer]] >= 1
      /\ pc' = [pc EXCEPT ![Drainer] = "delivered"] /\ UNCHANGED <<sig, todo, drain>>
    BY DeliverReports DEF Worker
<1>2. pc'[Drainer] = "delivered" /\ pc[Drainer] = "flushing" /\ Reported(sig[Drainer])'
    BY <1>1 DEF Deliver, IncidentsTypeOK, Worker, Reported
<1>3. ASSUME ~StateSurvives, NEW s \in due \ (gaveUp \cup unlisted)
      PROVE  Reported(s)' \/ \E item \in todo[Drainer] : item.s = s
    <2>1. Reported(s) => Reported(s)'
        BY DEF ReportsStay, IncidentsTypeOK
    <2>2. sig[Drainer] = s => Reported(s)'
        BY <1>1, <1>2 DEF Reported
    <2> QED
        BY <1>2, <1>3, <2>1, <2>2 DEF DueIsInHand
<1> QED
    BY <1>1, <1>2, <1>3 DEF DueIsInHand, drain, kept

\* Every step keeps what is due on its way to the list ...
LEMMA DueIsComingStep ==
    ASSUME IncidentsTypeOK, AtHand, TurnsInOrder, AskInv, DueIsComing, StoredMoves,
           [IncidentsNext]_incidentVars
    PROVE  DueIsComing'
<1> USE DEF work, drain, kept, Goto, IncidentsTypeOK, Worker, Capturing
<1>1. ASSUME NEW t \in Task, NEW s \in Signature, Fail(t, s) PROVE DueIsComing'
    BY <1>1, ComingStays DEF Fail
<1>2. ASSUME NEW t \in Task, NEW s \in Signature, Narrate(t, s) PROVE DueIsComing'
    BY <1>2, ComingStays DEF Narrate
<1>3. ASSUME NEW t \in Task, NEW scope \in {"action", "flow"}, Succeed(t, scope)
      PROVE DueIsComing'
    BY <1>3, ComingStays DEF Succeed
<1>4. ASSUME NEW t \in Task, Count(t) PROVE DueIsComing'
    BY <1>4, ComingStays DEF Count
<1>5. ASSUME NEW t \in Task, Find(t) PROVE DueIsComing'
    BY <1>5, ComingStays DEF Find
<1>6. ASSUME NEW t \in Task, Merge(t) PROVE DueIsComing'
    <2>1. Stored(sig[t])
        BY <1>6 DEF Merge, AskInv, ReadIsCurrent
    <2> QED
        BY <1>6, <2>1, ComingStays DEF Merge, Over
<1>7. ASSUME NEW t \in Task, Open(t) PROVE DueIsComing'
    BY <1>7, ComingStays DEF Open
<1>8. ASSUME NEW t \in Task, Nudge(t) PROVE DueIsComing'
    <2>1. sig[t] \in Signature /\ t \in OpenedFor(sig[t])
        BY <1>8, AtTheHead DEF Nudge, OpenedFor
    <2>2. Stored(sig[t])
        BY <2>1 DEF AskInv, AskedFor
    <2> QED
        BY <1>8, <2>2, ComingStays DEF Nudge, Over
<1>9. ASSUME NEW t \in Task, ListOpen(t) PROVE DueIsComing'
    BY <1>9, ComingStays DEF ListOpen, Bodies, Resolvable
<1>10. ASSUME NEW t \in Task, Resolve(t) PROVE DueIsComing'
    BY <1>10, ComingStays DEF Resolve, Save
<1>11. ASSUME NEW t \in Task, Resolved(t) PROVE DueIsComing'
    BY <1>11, ComingStays DEF Resolved, Over
<1>12. ASSUME NEW t \in Task, Account(t) PROVE DueIsComing'
    BY <1>12, ComingStays DEF Account, Save
<1>13. ASSUME NEW w \in Worker, SkipFlush(w) PROVE DueIsComing'
    <2>1. AfterFlush(w)
        BY <1>13, FlushIs
    <2> QED
        BY <2>1, ComingStays DEF AfterFlush, Shipping
<1>14. ASSUME NEW w \in Worker, FlushFails(w) PROVE DueIsComing'
    <2>1. AfterFlush(w)
        BY <1>14, FlushIs
    <2> QED
        BY <2>1, ComingStays DEF AfterFlush, Shipping
<1>15. ASSUME NEW w \in Worker, Deliver(w) PROVE DueIsComing'
    BY <1>15, ComingStays DEF Deliver
<1>16. ASSUME NEW w \in Worker, MarkFlushed(w) PROVE DueIsComing'
    <2>1. AfterFlush(w)
        BY <1>16, FlushIs
    <2> QED
        BY <2>1, ComingStays DEF AfterFlush, Shipping
<1>17. CASE StartDrain
    BY <1>17, StartIsComing
<1>18. CASE DrainLists
    BY <1>18, ComingStays DEF DrainLists, Bodies, Unreported
<1>19. CASE DrainNext
    BY <1>19, ComingStays DEF DrainNext, Save, Verdict
<1>20. CASE Drained
    BY <1>20, ComingStays DEF Drained
<1>21. CASE UNCHANGED incidentVars
    BY <1>21, ComingStays DEF incidentVars
<1> QED
    BY <1>1, <1>2, <1>3, <1>4, <1>5, <1>6, <1>7, <1>8, <1>9, <1>10, <1>11, <1>12,
        <1>13, <1>14, <1>15, <1>16, <1>17, <1>18, <1>19, <1>20, <1>21 DEF IncidentsNext

\* ... and from it to its report.
LEMMA DueIsInHandStep ==
    ASSUME IncidentsTypeOK, AtHand, TurnsInOrder, IncidentsReported, HeldReported, DueIsComing,
           DueIsInHand, ReportsStay,
           [IncidentsNext]_incidentVars
    PROVE  DueIsInHand'
<1> USE DEF work, drain, kept, Goto, DrainIsLeft, Worker
<1>1. ASSUME NEW t \in Task, NEW s \in Signature, Fail(t, s) PROVE DueIsInHand'
    BY <1>1, InHandStays DEF Fail
<1>2. ASSUME NEW t \in Task, NEW s \in Signature, Narrate(t, s) PROVE DueIsInHand'
    BY <1>2, InHandStays DEF Narrate
<1>3. ASSUME NEW t \in Task, NEW scope \in {"action", "flow"}, Succeed(t, scope)
      PROVE DueIsInHand'
    BY <1>3, InHandStays DEF Succeed
<1>4. ASSUME NEW t \in Task, Count(t) PROVE DueIsInHand'
    BY <1>4, InHandStays DEF Count
<1>5. ASSUME NEW t \in Task, Find(t) PROVE DueIsInHand'
    BY <1>5, InHandStays DEF Find
<1>6. ASSUME NEW t \in Task, Merge(t) PROVE DueIsInHand'
    BY <1>6, InHandStays DEF Merge, Save, Release, Over
<1>7. ASSUME NEW t \in Task, Open(t) PROVE DueIsInHand'
    BY <1>7, InHandStays DEF Open, Save
<1>8. ASSUME NEW t \in Task, Nudge(t) PROVE DueIsInHand'
    BY <1>8, InHandStays DEF Nudge, Release, Over
<1>9. ASSUME NEW t \in Task, ListOpen(t) PROVE DueIsInHand'
    BY <1>9, InHandStays DEF ListOpen, Bodies, Resolvable
<1>10. ASSUME NEW t \in Task, Resolve(t) PROVE DueIsInHand'
    <2>1. PICK item \in todo[t] :
             sig' = [sig EXCEPT ![t] = item.s] /\ todo' = [todo EXCEPT ![t] = @ \ {item}]
        BY <1>10 DEF Resolve
    <2> QED
        BY <1>10, <2>1, InHandStays DEF Resolve, IncidentsTypeOK
<1>11. ASSUME NEW t \in Task, Resolved(t) PROVE DueIsInHand'
    BY <1>11, InHandStays DEF Resolved, Over
<1>12. ASSUME NEW t \in Task, Account(t) PROVE DueIsInHand'
    BY <1>12, InHandStays DEF Account, Save
<1>13. ASSUME NEW w \in Worker, SkipFlush(w) PROVE DueIsInHand'
    <2>1. CASE w = Drainer
        BY <1>13, <2>1, FlushInHand
    <2>2. CASE w # Drainer
        <3>1. AfterFlush(w)
            BY <1>13, FlushIs
        <3>2. DrainIsLeft
            BY <2>2, <3>1 DEF AfterFlush, IncidentsTypeOK
        <3> QED
            BY <3>2, InHandStays
    <2> QED
        BY <2>1, <2>2
<1>14. ASSUME NEW w \in Worker, FlushFails(w) PROVE DueIsInHand'
    <2>1. CASE w = Drainer
        BY <1>14, <2>1, FlushInHand
    <2>2. CASE w # Drainer
        <3>1. AfterFlush(w)
            BY <1>14, FlushIs
        <3>2. DrainIsLeft
            BY <2>2, <3>1 DEF AfterFlush, IncidentsTypeOK
        <3> QED
            BY <3>2, InHandStays
    <2> QED
        BY <2>1, <2>2
<1>15. ASSUME NEW w \in Worker, Deliver(w) PROVE DueIsInHand'
    <2>1. CASE w = Drainer
        BY <1>15, <2>1, DeliverInHand
    <2>2. CASE w # Drainer
        BY <1>15, <2>2, InHandStays DEF Deliver, IncidentsTypeOK
    <2> QED
        BY <2>1, <2>2
<1>16. ASSUME NEW w \in Worker, MarkFlushed(w) PROVE DueIsInHand'
    <2>1. CASE w = Drainer
        BY <1>16, <2>1, FlushInHand
    <2>2. CASE w # Drainer
        <3>1. AfterFlush(w)
            BY <1>16, FlushIs
        <3>2. DrainIsLeft
            BY <2>2, <3>1 DEF AfterFlush, IncidentsTypeOK
        <3> QED
            BY <3>2, InHandStays
    <2> QED
        BY <2>1, <2>2
<1>17. CASE StartDrain
    BY <1>17 DEF StartDrain, DueIsInHand, IncidentsTypeOK
<1>18. CASE DrainLists
    BY <1>18, ListedInHand
<1>19. CASE DrainNext
    BY <1>19, NextInHand
<1>20. CASE Drained
    BY <1>20 DEF Drained, DueIsInHand, Reported, IncidentsTypeOK
<1>21. CASE UNCHANGED incidentVars
    BY <1>21, InHandStays DEF incidentVars
<1> QED
    BY <1>1, <1>2, <1>3, <1>4, <1>5, <1>6, <1>7, <1>8, <1>9, <1>10, <1>11, <1>12,
        <1>13, <1>14, <1>15, <1>16, <1>17, <1>18, <1>19, <1>20, <1>21 DEF IncidentsNext

LEMMA ShipInit == IncidentsInit => ShipInv
<1> SUFFICES ASSUME IncidentsInit PROVE ShipInv
    OBVIOUS
<1>1. IncidentsReported /\ ListedReported /\ HeldReported
    BY NoIncidentIs DEF IncidentsInit, IncidentsReported, ListedReported, HeldReported, Worker
<1>2. DueIsComing /\ DueIsInHand
    BY DEF IncidentsInit, DueIsComing, DueIsInHand, Worker
<1> QED
    BY <1>1, <1>2 DEF ShipInv

LEMMA ShipStep ==
    ASSUME IncidentsInv, ShipInv, [IncidentsNext]_incidentVars
    PROVE  ShipInv'
<1>1. IncidentsTypeOK /\ AtHand /\ TurnsInOrder /\ AskInv
    BY DEF IncidentsInv, IncidentsTyped
<1>2. IncidentsReported /\ ListedReported /\ HeldReported /\ DueIsComing /\ DueIsInHand
    BY DEF ShipInv
<1>3. StoredMoves /\ ReportsStay
    BY <1>1, StoredStep, ReportsStayStep
<1>4. AtHand'
    BY <1>1, AtHandStep
<1>5. IncidentsReported' /\ ListedReported' /\ HeldReported'
    BY <1>1, <1>2, <1>3, IncidentsReportedStep, ListedReportedStep, HeldReportedStep
<1>6. DueIsComing' /\ DueIsInHand'
    BY <1>1, <1>2, <1>3, DueIsComingStep, DueIsInHandStep
<1> QED
    BY <1>5, <1>6 DEF ShipInv

\* Once the drain is over every incident captured, or being captured, when it
\* began has been reported, if the store ends with the process and unless the
\* drain's own flush of it failed or the index had dropped it when the drain listed:
\* settled() waits for the captures, the list takes what the index holds and does
\* not read as flushed, and what reads as flushed was delivered.
THEOREM EveryIncidentIsShipped == IncidentsSpec => []EveryIncidentShips
<1>1. IncidentsInit => IncidentsInv /\ ShipInv
    BY IncidentsInductive, ShipInit
<1>2. IncidentsInv /\ ShipInv /\ [IncidentsNext]_incidentVars => IncidentsInv' /\ ShipInv'
    BY IncidentsInductive, ShipStep
<1>3. IncidentsInv /\ ShipInv => EveryIncidentShips
    <2> SUFFICES ASSUME ShipInv, pc[Drainer] = "drained", ~StateSurvives, NEW s \in due \ (gaveUp \cup unlisted)
                 PROVE  reports[s] >= 1
        BY DEF EveryIncidentShips
    <2> QED
        BY DEF ShipInv, DueIsInHand, Reported
<1> QED
    BY <1>1, <1>2, <1>3, PTL DEF IncidentsSpec

\* Every save of the corpus is one of an incident's body.
LEMMA StoreStep ==
    ASSUME IncidentsTypeOK, AtHand, [IncidentsNext]_incidentVars
    PROVE  UNCHANGED store \/ \E s \in Signature : \E b \in Incident : Save(s, b)
<1>1. ASSUME NEW t \in Task, Merge(t) PROVE \E s \in Signature : \E b \in Incident : Save(s, b)
    BY <1>1, BodyIs DEF Merge, AtHand, Worker, Capturing, IncidentsTypeOK
<1>2. ASSUME NEW t \in Task, Open(t) PROVE \E s \in Signature : \E b \in Incident : Save(s, b)
    <2>1. [state |-> "OPEN", flushed |-> FALSE, narrated |-> FALSE] \in Incident
        BY DEF Incident, State
    <2> QED
        BY <1>2, <2>1 DEF Open, AtHand, Worker, Capturing
<1>3. ASSUME NEW t \in Task, Resolve(t)
      PROVE  \E s \in Signature : \E b \in Incident : Save(s, b)
    <2>1. PICK item \in todo[t] : Save(item.s, [item.body EXCEPT !.state = "RECOVERED"])
        BY <1>3 DEF Resolve
    <2>2. item.s \in Signature /\ item.body \in Incident
        BY DEF IncidentsTypeOK, Worker, Listed
    <2> QED
        BY <2>1, <2>2, BodyIs
<1>4. ASSUME NEW t \in Task, Account(t)
      PROVE  \E s \in Signature : \E b \in Incident : Save(s, b)
    BY <1>4, BodyIs DEF Account, AtHand, Worker
<1>5. ASSUME NEW w \in Worker, MarkFlushed(w)
      PROVE  \E s \in Signature : \E b \in Incident : Save(s, b)
    BY <1>5, BodyIs DEF MarkFlushed, AtHand, Shipping
<1>6. ASSUME DrainNext
      PROVE  UNCHANGED store \/ \E s \in Signature : \E b \in Incident : Save(s, b)
    <2>1. PICK item \in todo[Drainer] :
             IF Verdict(item.body) # item.body
             THEN Save(item.s, Verdict(item.body)) ELSE UNCHANGED store
        BY <1>6 DEF DrainNext
    <2>2. item.s \in Signature /\ item.body \in Incident
        BY DEF IncidentsTypeOK, Worker, Listed
    <2> QED
        BY <2>1, <2>2, BodyIs
<1>7. CASE UNCHANGED store
    BY <1>7
<1>8. CASE IncidentsNext
    BY <1>1, <1>2, <1>3, <1>4, <1>5, <1>6, <1>8
        DEF IncidentsNext, Fail, Narrate, Succeed, Count, Find, Nudge, ListOpen, Resolved,
            SkipFlush, FlushFails, Deliver, StartDrain, DrainLists, Drained
<1> QED
    BY <1>7, <1>8 DEF incidentVars

\* The index below its limit: each signature there is an incident for, once.
IndexFull ==
  /\ index \in Seq(Signature)
  /\ \A s \in Signature : Stored(s) <=> InIndex(s)
  /\ \A i, j \in 1..Len(index) : index[i] = index[j] => i = j
NothingDropped == IndexFull /\ unlisted = {}

\* An index of distinct signatures with one still to come is short of the limit.
LEMMA IndexIsShort ==
    ASSUME IsFiniteSet(Signature), Cardinality(Signature) <= IndexLimit, IndexFull,
           NEW s \in Signature, ~InIndex(s)
    PROVE  Len(index) + 1 <= IndexLimit
<1> DEFINE Others == Signature \ {s}
<1>1. index \in Injection(1..Len(index), Others)
    <2>1. index \in [1..Len(index) -> Others]
        BY DEF IndexFull, InIndex
    <2> QED
        BY <2>1 DEF IndexFull, Injection, IsInjective
<1>2. IsFiniteSet(Others) /\ Cardinality(Others) = Cardinality(Signature) - 1
    BY FS_RemoveElement
<1>3. Cardinality(1..Len(index)) <= Cardinality(Others)
    <2> HIDE DEF Others
    <2> QED
        BY <1>1, <1>2, FS_Injection
<1>4. Len(index) \in Nat
    BY DEF IndexFull
<1>5. Cardinality(1..Len(index)) = Len(index)
    BY <1>4, FS_Interval
<1>6. Cardinality(Signature) \in Nat /\ IndexLimit \in Nat
    BY FS_CardinalityType, IndexLimitAssumption
<1> QED
    BY <1>2, <1>3, <1>4, <1>5, <1>6

LEMMA IndexStaysFull ==
    ASSUME IsFiniteSet(Signature), Cardinality(Signature) <= IndexLimit,
           IncidentsTypeOK, AtHand, IndexFull, [IncidentsNext]_incidentVars
    PROVE  IndexFull'
<1>1. CASE UNCHANGED store
    BY <1>1 DEF IndexFull, Stored, InIndex
<1>2. ASSUME NEW s \in Signature, NEW b \in Incident, Save(s, b) PROVE IndexFull'
    <2>1. incident' = [incident EXCEPT ![s] = b] /\ b # NoIncident
        BY <1>2, NoIncidentIs DEF Save
    <2>2. \A r \in Signature : Stored(r)' <=> Stored(r) \/ r = s
        BY <2>1 DEF Stored, IncidentsTypeOK
    <2>3. CASE Stored(s)
        <3>1. index' = index
            BY <1>2, <2>3 DEF Save
        <3> QED
            BY <2>2, <2>3, <3>1 DEF IndexFull, InIndex
    <2>4. CASE ~Stored(s)
        <3>1. ~InIndex(s) /\ Len(index) + 1 <= IndexLimit
            BY <2>4, IndexIsShort DEF IndexFull
        <3>2. /\ index \in Seq(Signature) /\ Append(index, s) \in Seq(Signature)
              /\ Len(Append(index, s)) = Len(index) + 1 /\ Len(index) \in Nat
              /\ Append(index, s)[Len(index) + 1] = s
              /\ \A i \in 1..Len(index) : Append(index, s)[i] = index[i] /\ index[i] # s
            BY <3>1 DEF IndexFull, InIndex
        <3>3. index' = Append(index, s)
            BY <1>2, <2>4, <3>1, <3>2, IndexLimitAssumption DEF Save, Capped
        <3>4. \A r \in Signature : InIndex(r)' <=> InIndex(r) \/ r = s
            <4>1. DOMAIN index = 1..Len(index) /\ DOMAIN index' = 1..(Len(index) + 1)
                BY <3>2, <3>3
            <4> QED
                BY <3>2, <3>3, <4>1 DEF InIndex
        <3>5. \A i, j \in 1..Len(index') : index'[i] = index'[j] => i = j
            BY <3>2, <3>3 DEF IndexFull
        <3> QED
            BY <2>2, <3>2, <3>3, <3>4, <3>5 DEF IndexFull
    <2> QED
        BY <2>3, <2>4
<1> QED
    BY <1>1, <1>2, StoreStep

\* What the drain finds unlisted was dropped.
LEMMA NothingIsUnlisted ==
    ASSUME IndexFull, unlisted = {}, [IncidentsNext]_incidentVars
    PROVE  unlisted' = {}
<1>1. Dropped = {}
    BY DEF IndexFull, Dropped
<1>2. unlisted' = unlisted \/ unlisted' = due \cap Dropped
    BY DEF IncidentsNext, incidentVars, drain, kept, Fail, Narrate, Succeed, Count, Find, Merge,
        Open, Nudge, ListOpen, Resolve, Resolved, Account, SkipFlush, FlushFails, Deliver,
        MarkFlushed, StartDrain, DrainLists, DrainNext, Drained
<1> QED
    BY <1>1, <1>2

\* A session of no more failures than its index holds keeps the promise as it is
\* written: nothing is dropped, so every incident due is reported.
THEOREM FewEnoughIncidentsAllShip ==
    ASSUME IsFiniteSet(Signature), Cardinality(Signature) <= IndexLimit
    PROVE  IncidentsSpec => []NoIncidentIsDropped
<1>1. IncidentsInit => IncidentsInv /\ NothingDropped
    <2>1. IncidentsInit => NothingDropped
        BY DEF IncidentsInit, NothingDropped, IndexFull, Stored, InIndex
    <2> QED
        BY <2>1, IncidentsInductive
<1>2. IncidentsInv /\ NothingDropped /\ [IncidentsNext]_incidentVars
        => IncidentsInv' /\ NothingDropped'
    <2> SUFFICES ASSUME IncidentsInv, NothingDropped, [IncidentsNext]_incidentVars
                 PROVE  IncidentsInv' /\ NothingDropped'
        OBVIOUS
    <2>1. IncidentsInv'
        BY IncidentsInductive
    <2>2. IncidentsTypeOK /\ AtHand /\ IndexFull /\ unlisted = {}
        BY DEF IncidentsInv, IncidentsTyped, NothingDropped
    <2>3. IndexFull' /\ unlisted' = {}
        BY <2>2, IndexStaysFull, NothingIsUnlisted
    <2> QED
        BY <2>1, <2>3 DEF NothingDropped
<1>3. NothingDropped /\ EveryIncidentShips => NoIncidentIsDropped
    BY DEF NothingDropped, EveryIncidentShips, NoIncidentIsDropped
<1> QED
    BY <1>1, <1>2, <1>3, EveryIncidentIsShipped, PTL DEF IncidentsSpec
=============================================================================
