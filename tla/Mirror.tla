------------------------------- MODULE Mirror -------------------------------
(***************************************************************************)
(* The buffered sink of the live mirror (src/modules/mirror/mirror.sink.ts,*)
(* BufferedHttpMirrorSink): a bounded queue of records, one POST in flight *)
(* at a time, a timer and a size trigger that flush, a refused batch put   *)
(* back at the head when it fits, and the count of records lost, which     *)
(* rides the next batch.  MirrorService (mirror.service.ts) hands it one   *)
(* record per journal line, session and run; a record is its number, in    *)
(* the order of the emit calls.                                            *)
(*                                                                         *)
(* The server that ingests the batches is external.  A post the sink takes *)
(* for refused may have been stored all the same (the answer was lost), or *)
(* be stored later (the sink's timeout fired first).                       *)
(***************************************************************************)
EXTENDS Integers, Sequences, FiniteSets

CONSTANTS
  QueueMax,    \* options.queueMax
  BatchSize,   \* options.batchSize
  MaxRecords,  \* bound: records emitted in a behaviour
  MaxPosts     \* bound: posts in a behaviour

ASSUME QueueAssumption == QueueMax \in Nat \ {0}
ASSUME BatchAssumption == BatchSize \in Nat \ {0}
ASSUME BoundAssumption == MaxRecords \in Nat /\ MaxPosts \in Nat

VARIABLES
  emitted,    \* records the sink has taken: 1 .. emitted
  queue,      \* #queue
  dropped,    \* #dropped: records lost and not yet handed to a post
  sending,    \* #sending
  batch,      \* the batch of the post in flight
  carried,    \* its dropped_since_last_batch
  scheduled,  \* #scheduled: a setImmediate flush is pending
  closed,     \* #closed
  stored,     \* the server's records
  reported,   \* the losses the server was told of
  late,       \* posts given up on that the server has yet to process
  posts       \* posts so far, for the bound

sink == <<queue, dropped, sending, batch, carried, scheduled, closed>>
vars == <<emitted, sink, stored, reported, late, posts>>

Init ==
  /\ emitted = 0
  /\ queue = <<>> /\ batch = <<>>
  /\ dropped = 0 /\ carried = 0
  /\ sending = FALSE /\ scheduled = FALSE /\ closed = FALSE
  /\ stored = {} /\ reported = 0 /\ late = {} /\ posts = 0

Items(s) == {s[i] : i \in DOMAIN s}

Least(m, n) == IF m < n THEN m ELSE n

-----------------------------------------------------------------------------
\* Mutant: the limit is compared with > instead of >=.
RoomOneOver == IF Len(queue) > QueueMax THEN Tail(queue) ELSE queue

\* The queue the record is pushed on: at the limit the oldest goes first.
Room == IF Len(queue) >= QueueMax THEN Tail(queue) ELSE queue

\* What the shift adds to #dropped.
Shifted == IF Len(queue) >= QueueMax THEN 1 ELSE 0

\* emit: called inside the journal tap, so it only queues; a flush it calls for
\* is left to setImmediate.
Emit ==
  /\ ~closed /\ emitted < MaxRecords
  /\ emitted' = emitted + 1
  /\ queue' = Append(Room, emitted + 1)
  /\ dropped' = dropped + Shifted
  /\ scheduled' = (scheduled \/ Len(queue') >= BatchSize)
  /\ UNCHANGED <<sending, batch, carried, closed, stored, reported, late, posts>>

\* flush, up to the await on the post: it gives way to a post in flight and to an
\* empty queue.
Flush ==
  IF sending \/ queue = <<>>
  THEN UNCHANGED <<queue, dropped, sending, batch, carried, posts>>
  ELSE LET n == Least(BatchSize, Len(queue))
       IN  /\ posts < MaxPosts
           /\ posts' = posts + 1
           /\ sending' = TRUE
           /\ batch' = SubSeq(queue, 1, n)
           /\ queue' = SubSeq(queue, n + 1, Len(queue))
           /\ carried' = dropped
           /\ dropped' = 0

\* The interval fires.
Tick ==
  /\ ~closed
  /\ Flush
  /\ UNCHANGED <<emitted, scheduled, closed, stored, reported, late>>

\* The setImmediate callback runs; close does not cancel it.
RunScheduled ==
  /\ scheduled
  /\ scheduled' = FALSE
  /\ Flush
  /\ UNCHANGED <<emitted, closed, stored, reported, late>>

\* close: the timer stops and one flush runs, which does nothing while a post is
\* in flight.
Close ==
  /\ ~closed
  /\ closed' = TRUE
  /\ Flush
  /\ UNCHANGED <<emitted, scheduled, stored, reported, late>>

-----------------------------------------------------------------------------
\* Mutant: a refused batch returns behind what came in meanwhile.
RequeueAtTheTail ==
  IF Len(queue) + Len(batch) <= QueueMax
  THEN /\ queue' = queue \o batch
       /\ dropped' = dropped + carried
  ELSE /\ queue' = queue
       /\ dropped' = dropped + carried + Len(batch)

\* Mutant: the losses the refused post carried are forgotten with it.
RequeueForgetsCarried ==
  IF Len(queue) + Len(batch) <= QueueMax
  THEN /\ queue' = batch \o queue
       /\ dropped' = dropped
  ELSE /\ queue' = queue
       /\ dropped' = dropped + Len(batch)

\* A batch that did not go returns to the head if it fits; its records are counted
\* as lost if it does not.  The count it carried is taken back either way.
Requeue ==
  IF Len(queue) + Len(batch) <= QueueMax
  THEN /\ queue' = batch \o queue
       /\ dropped' = dropped + carried
  ELSE /\ queue' = queue
       /\ dropped' = dropped + carried + Len(batch)

\* The end of flush: the post is over.
PostOver ==
  /\ sending
  /\ sending' = FALSE
  /\ batch' = <<>> /\ carried' = 0
  /\ UNCHANGED <<emitted, scheduled, closed, posts>>

\* The server stores what a post holds.
Store(items, lost) ==
  /\ stored' = stored \cup items
  /\ reported' = reported + lost

\* A 2xx answer.
Accepted ==
  /\ PostOver
  /\ Store(Items(batch), carried)
  /\ UNCHANGED <<queue, dropped, late>>

\* Any other status, or no connection: the server has nothing of it.
Refused ==
  /\ PostOver
  /\ Requeue
  /\ UNCHANGED <<stored, reported, late>>

\* The server stored the batch and its answer was lost.
AnswerLost ==
  /\ PostOver
  /\ Requeue
  /\ Store(Items(batch), carried)
  /\ UNCHANGED late

\* AbortSignal.timeout fires while the request is still on its way.
TimedOut ==
  /\ PostOver
  /\ Requeue
  /\ late' = late \cup {[items |-> Items(batch), lost |-> carried]}
  /\ UNCHANGED <<stored, reported>>

\* The server gets to a post the sink gave up on.
LateStore(p) ==
  /\ late' = late \ {p}
  /\ Store(p.items, p.lost)
  /\ UNCHANGED <<emitted, sink, posts>>

Next ==
  \/ Emit \/ Tick \/ RunScheduled \/ Close
  \/ Accepted \/ Refused \/ AnswerLost \/ TimedOut
  \/ \E p \in late : LateStore(p)

Spec == Init /\ [][Next]_vars

-----------------------------------------------------------------------------
\* Records the sink took that the server does not have and the sink no longer holds.
Lost == {r \in 1..emitted : r \notin stored \cup Items(queue) \cup Items(batch)}

Increasing(s) == \A i, j \in DOMAIN s : i < j => s[i] < s[j]

\* Type correctness.
MirrorTypeOK ==
  /\ emitted \in Nat
  /\ queue \in Seq(Nat) /\ batch \in Seq(Nat)
  /\ dropped \in Nat /\ carried \in Nat
  /\ sending \in BOOLEAN /\ scheduled \in BOOLEAN /\ closed \in BOOLEAN
  /\ stored \subseteq Nat /\ reported \in Nat
  /\ late \subseteq [items : SUBSET Nat, lost : Nat]
  /\ posts \in Nat

\* A refused endpoint does not grow the queue: however often a batch is put back
\* while more records come in, the queue keeps its limit (property 5 of the sink's
\* comment, mirror.sink.ts:95-99).
QueueIsBounded == Len(queue) <= QueueMax

\* "Head, so ordering survives a retry" (mirror.sink.ts:190): the batch in flight
\* and the queue behind it are in the order of the emit calls, each record once.
OrderSurvivesARetry == Increasing(batch \o queue)

\* "A gap in the corpus says so rather than looking like a step that never happened"
\* (mirror.sink.ts:81-83): the records lost are never more than the losses the
\* server was told of, those the post in flight tells it of and those the next
\* one will, whatever was refused, put back, or stored behind the sink's back.
GapsAreCounted == Cardinality(Lost) <= reported + carried + dropped
=============================================================================
