------------------------------- MODULE Batch -------------------------------
(***************************************************************************)
(* BatchService: one batch run, from batch_run_start to its final state.   *)
(*                                                                         *)
(* A pool of workers drives Total orders, each worker taking the next      *)
(* index when the order it held is filed.  What the run has reached is in  *)
(* the store (meta, the progress counters, the result list); what drives   *)
(* it - the pool, the cancelled set, the two collections of the completion *)
(* notice - is in the process and dies with it.                            *)
(*                                                                         *)
(* An order is driven by runOneTransaction, which polls the flow and acts  *)
(* on it until the flow is over, its deadline passes or the batch is       *)
(* cancelled.  The flow itself is module FlowRun's; here it only says yes  *)
(* or no.  The seller is another instance; peer is what it was told.       *)
(***************************************************************************)
EXTENDS Integers, FiniteSets

CONSTANTS
    Total,          \* input.transaction_count
    Concurrency,    \* input.concurrency
    Caller,         \* the calls of batch_run_cancel
    HasPeer,        \* a "both" run, whose seller is the configured peer
    Watched,        \* bound: the orders whose completion notice is followed
    MaxStatus,      \* bound: MaxStatus[o], on_status calls for order o
    MaxMishaps      \* bound: store calls that reject and restarts, together

ASSUME SizeAssumption ==
    /\ Total \in Nat \ {0}
    /\ Concurrency \in Nat \ {0}
    /\ Watched \subseteq 1..Total

Order == 1..Total
NoOrder == 0
Worker == 1..(IF Concurrency < Total THEN Concurrency ELSE Total)

VARIABLES
    drive,      \* startRun and #driveAll: how far they have come
    meta,       \* stored: BatchMeta.state, "none" before it is saved
    mark,       \* the state #driveAll is about to write
    next,       \* #driveAll's nextIndex, counted from 1
    pc,         \* pc[w]: where worker w is
    held,       \* held[w]: the order w holds
    late,       \* late[w]: the deadline of that order has passed
    verdict,    \* verdict[w]: what runOneTransaction made of it
    inFlight,   \* stored: the in_flight counter
    tally,      \* stored: the sum of the counters of settled statuses
    filed,      \* stored: filed[o], the results appended for order o
    traded,     \* traded[o]: order o has a transaction id
    asked,      \* asked[c]: how far cancel call c has come
    seen,       \* seen[c]: the state c read
    cancelled,  \* the batch is in #cancelled
    peer,       \* the seller: what it was last told, and whether we heard it

    done,       \* done[o]: the record shows o COMPLETED, with its on_confirm
    heard,      \* heard[o]: on_status calls received for o
    awaiting,   \* #awaitingCompletion
    aged,       \* the orders last put there longer than resultTtlMs ago
    notified,   \* #sentCompletion
    settling,   \* settling[o]: #settleCompletion's check of o
    watching,   \* watching[o]: onSellerStatus checks of o, by where they are
    posts,      \* posts[o]: on_confirms delivered to the notice URL for o

    faults, restarts

poolVars == <<next, pc, held, late, verdict, inFlight, tally, filed, traded>>
cancelVars == <<asked, seen, cancelled>>
noticeVars == <<done, heard, awaiting, aged, notified, settling, watching, posts>>
vars == <<drive, meta, mark, poolVars, cancelVars, peer, noticeVars, faults,
          restarts>>

\* Where a worker is between two awaits of its loop.
Driving == {"creating", "polling", "acting"}
Counted == Driving \cup {"leaving"}
WorkerAt == Counted \cup {"off", "counting", "scoring", "filing", "gone", "dead"}

BatchInit ==
    /\ drive = "idle" /\ meta = "none" /\ mark = "none" /\ next = 1
    /\ pc = [w \in Worker |-> "off"]
    /\ held = [w \in Worker |-> NoOrder]
    /\ late = [w \in Worker |-> FALSE]
    /\ verdict = [w \in Worker |-> "none"]
    /\ inFlight = 0 /\ tally = 0
    /\ filed = [o \in Order |-> 0]
    /\ traded = [o \in Order |-> FALSE]
    /\ asked = [c \in Caller |-> "idle"]
    /\ seen = [c \in Caller |-> "none"]
    /\ cancelled = FALSE /\ peer = "none"
    /\ done = [o \in Order |-> FALSE]
    /\ heard = [o \in Order |-> 0]
    /\ awaiting = {} /\ aged = {} /\ notified = {}
    /\ settling = [o \in Order |-> "none"]
    /\ watching = [o \in Order |-> [reading |-> 0, posting |-> 0]]
    /\ posts = [o \in Order |-> 0]
    /\ faults = 0 /\ restarts = 0

\* A store call rejects.
Fault == faults + restarts < MaxMishaps /\ faults' = faults + 1

----------------------------------------------------------------------------
(***************************************************************************)
(* startRun.                                                               *)
(***************************************************************************)

\* The seller is started first.  A call of it that throws ends ours: the seller
\* was not reached or refused, or it is armed and its answer, with the batch id
\* that would disarm it, timed out or could not be read ("unheard").
StartListener ==
    /\ drive = "idle"
    /\ IF HasPeer
       THEN \/ drive' = "arming" /\ peer' = "armed"
            \/ drive' = "refused" /\ peer' \in {"none", "unheard"}
       ELSE drive' = "saving" /\ UNCHANGED peer
    /\ UNCHANGED <<meta, mark, poolVars, cancelVars, noticeVars, faults, restarts>>

\* #waitForSeller polls the seller's progress for ten seconds at most, then
\* goes on whatever it showed; a poll that fails ends the call.
WaitForSeller ==
    /\ drive = "arming"
    /\ drive' \in {"saving", "disarming"}
    /\ UNCHANGED <<meta, mark, poolVars, cancelVars, peer, noticeVars, faults, restarts>>

\* Mutant: only a poll that fails disarms the seller, a save that fails does
\* not.
LaunchWithoutDisarm ==
    /\ drive = "saving"
    /\ \/ /\ drive' = "pool" /\ meta' = "running"
          /\ next' = Cardinality(Worker) + 1
          /\ pc' = [w \in Worker |-> "counting"]
          /\ held' = [w \in Worker |-> w]
          /\ UNCHANGED faults
       \/ Fault /\ drive' = "refused" /\ UNCHANGED <<meta, next, pc, held>>
    /\ UNCHANGED <<mark, late, verdict, inFlight, tally, filed, traded, cancelVars,
                   peer, noticeVars, restarts>>

\* saveMeta, and with no await in between the start of the pool: each worker
\* takes its first index and asks for its first count.
Launch ==
    /\ drive = "saving"
    /\ \/ /\ drive' = "pool" /\ meta' = "running"
          /\ next' = Cardinality(Worker) + 1
          /\ pc' = [w \in Worker |-> "counting"]
          /\ held' = [w \in Worker |-> w]
          /\ UNCHANGED faults
       \/ /\ Fault
          /\ drive' = IF peer = "armed" THEN "disarming" ELSE "refused"
          /\ UNCHANGED <<meta, next, pc, held>>
    /\ UNCHANGED <<mark, late, verdict, inFlight, tally, filed, traded, cancelVars,
                   peer, noticeVars, restarts>>

\* The catch of startRun, for a seller whose batch id is known.  The cancel's
\* own failure is swallowed: "told" is called, whether or not it answered.
Disarm ==
    /\ drive = "disarming"
    /\ drive' = "refused"
    /\ peer' = "told"
    /\ UNCHANGED <<meta, mark, poolVars, cancelVars, noticeVars, faults, restarts>>

----------------------------------------------------------------------------
(***************************************************************************)
(* A worker of #driveAll, and runOneTransaction under it.                  *)
(***************************************************************************)

\* A store call of the worker rejects: the worker's promise does, and with it
\* the Promise.all of the drive.  Nobody writes the batch's final state.
WorkerFault(w) ==
    /\ pc[w] \in {"counting", "leaving", "scoring", "filing"}
    /\ Fault
    /\ pc' = [pc EXCEPT ![w] = "dead"]
    /\ drive' = IF drive = "pool" THEN "crashed" ELSE drive
    /\ UNCHANGED <<meta, mark, next, held, late, verdict, inFlight, tally, filed, traded,
                   cancelVars, peer, noticeVars, restarts>>

\* bumpProgress in_flight; then the session is created.
Count(w) ==
    /\ pc[w] = "counting"
    /\ inFlight' = inFlight + 1
    /\ pc' = [pc EXCEPT ![w] = "creating"]
    /\ UNCHANGED <<drive, meta, mark, next, held, late, verdict, tally, filed, traded, cancelVars, peer,
                   noticeVars, faults, restarts>>

\* createSession and flow.start.  Either can throw: the order is errored.
Create(w) ==
    /\ pc[w] = "creating"
    /\ \/ pc' = [pc EXCEPT ![w] = "polling"] /\ UNCHANGED verdict
       \/ /\ pc' = [pc EXCEPT ![w] = "leaving"]
          /\ verdict' = [verdict EXCEPT ![w] = "ended"]
    /\ UNCHANGED <<drive, meta, mark, next, held, late, inFlight, tally, filed, traded,
                   cancelVars, peer, noticeVars, faults, restarts>>

\* per_transaction_timeout_ms is over.
Expire(w) ==
    /\ pc[w] \in Driving
    /\ ~late[w]
    /\ late' = [late EXCEPT ![w] = TRUE]
    /\ UNCHANGED <<drive, meta, mark, next, pc, held, verdict, inFlight, tally, filed,
                   traded, cancelVars, peer, noticeVars, faults, restarts>>

\* Mutant: the deadline is not looked at between two waits.
PollForGood(w) ==
    /\ pc[w] = "polling"
    /\ \/ /\ cancelled
          /\ verdict' = [verdict EXCEPT ![w] = "cancelled"]
          /\ pc' = [pc EXCEPT ![w] = "leaving"]
       \/ /\ ~cancelled
          /\ \/ /\ pc' = [pc EXCEPT ![w] = "acting"] /\ UNCHANGED verdict
             \/ UNCHANGED <<pc, verdict>>
             \/ /\ verdict' = [verdict EXCEPT ![w] = "ended"]
                /\ pc' = [pc EXCEPT ![w] = "leaving"]
    /\ UNCHANGED <<drive, meta, mark, next, held, late, inFlight, tally, filed, traded,
                   cancelVars, peer, noticeVars, faults, restarts>>

\* One round of waitFor: the batch cancelled, then the deadline, then what
\* the flow says: a step to act on, nothing yet (a park, then another round),
\* or the end of the order (COMPLETE, BLOCKED, no input to give, an error).
Poll(w) ==
    /\ pc[w] = "polling"
    /\ \/ /\ cancelled
          /\ verdict' = [verdict EXCEPT ![w] = "cancelled"]
          /\ pc' = [pc EXCEPT ![w] = "leaving"]
       \/ /\ ~cancelled /\ late[w]
          /\ verdict' = [verdict EXCEPT ![w] = "timed_out"]
          /\ pc' = [pc EXCEPT ![w] = "leaving"]
       \/ /\ ~cancelled /\ ~late[w]
          /\ \/ /\ pc' = [pc EXCEPT ![w] = "acting"] /\ UNCHANGED verdict
             \/ UNCHANGED <<pc, verdict>>
             \/ /\ verdict' = [verdict EXCEPT ![w] = "ended"]
                /\ pc' = [pc EXCEPT ![w] = "leaving"]
    /\ UNCHANGED <<drive, meta, mark, next, held, late, inFlight, tally, filed, traded,
                   cancelVars, peer, noticeVars, faults, restarts>>

\* flow.proceed: the step goes out and the order has its transaction id, or
\* it does not and the order is blocked.
Act(w) ==
    /\ pc[w] = "acting"
    /\ \/ /\ pc' = [pc EXCEPT ![w] = "polling"]
          /\ traded' = [traded EXCEPT ![held[w]] = TRUE]
          /\ UNCHANGED verdict
       \/ /\ pc' = [pc EXCEPT ![w] = "leaving"]
          /\ verdict' = [verdict EXCEPT ![w] = "ended"]
          /\ UNCHANGED traded
    /\ UNCHANGED <<drive, meta, mark, next, held, late, inFlight, tally, filed,
                   cancelVars, peer, noticeVars, faults, restarts>>

\* Mutant: only an order whose flow ended is taken off the count.
LeaveWhenEnded(w) ==
    /\ pc[w] = "leaving"
    /\ inFlight' = IF verdict[w] = "ended" THEN inFlight - 1 ELSE inFlight
    /\ pc' = [pc EXCEPT ![w] = "scoring"]
    /\ late' = [late EXCEPT ![w] = FALSE]
    /\ UNCHANGED <<drive, meta, mark, next, held, verdict, tally, filed, traded,
                   cancelVars, peer, noticeVars, faults, restarts>>

\* bumpProgress in_flight -1.
Leave(w) ==
    /\ pc[w] = "leaving"
    /\ inFlight' = inFlight - 1
    /\ pc' = [pc EXCEPT ![w] = "scoring"]
    /\ late' = [late EXCEPT ![w] = FALSE]
    /\ UNCHANGED <<drive, meta, mark, next, held, verdict, tally, filed, traded,
                   cancelVars, peer, noticeVars, faults, restarts>>

\* bumpProgress of the order's status.
Score(w) ==
    /\ pc[w] = "scoring"
    /\ tally' = tally + 1
    /\ pc' = [pc EXCEPT ![w] = "filing"]
    /\ UNCHANGED <<drive, meta, mark, next, held, late, verdict, inFlight, filed, traded,
                   cancelVars, peer, noticeVars, faults, restarts>>

\* The head of the loop, which no await interrupts: leave if the batch is
\* cancelled, take the next index, leave if it is past the last order.
NextTurn(w) ==
    \/ /\ cancelled
       /\ pc' = [pc EXCEPT ![w] = "gone"]
       /\ UNCHANGED <<next, held>>
    \/ /\ ~cancelled /\ next > Total
       /\ next' = next + 1
       /\ pc' = [pc EXCEPT ![w] = "gone"]
       /\ UNCHANGED held
    \/ /\ ~cancelled /\ next <= Total
       /\ next' = next + 1
       /\ held' = [held EXCEPT ![w] = next]
       /\ pc' = [pc EXCEPT ![w] = "counting"]

\* appendResult, the start of the notice's check, and the next turn.
File(w) ==
    /\ pc[w] = "filing"
    /\ filed' = [filed EXCEPT ![held[w]] = @ + 1]
    /\ settling' = IF traded[held[w]] /\ held[w] \in Watched
                   THEN [settling EXCEPT ![held[w]] = "reading"] ELSE settling
    /\ verdict' = [verdict EXCEPT ![w] = "none"]
    /\ NextTurn(w)
    /\ UNCHANGED <<drive, meta, mark, late, inFlight, tally, traded, cancelVars,
                   peer, done, heard, awaiting, aged, notified, watching, posts, faults,
                   restarts>>

\* Mutant: a dead worker counts as one that has left (allSettled).
DecideAnyway ==
    /\ drive \in {"pool", "crashed"}
    /\ \A w \in Worker : pc[w] \in {"gone", "dead"}
    /\ drive' = "marking"
    /\ mark' = IF cancelled THEN "cancelled" ELSE "completed"
    /\ UNCHANGED <<meta, poolVars, cancelVars, peer, noticeVars, faults, restarts>>

\* Promise.all resolves: the state to write is chosen.
Decide ==
    /\ drive = "pool"
    /\ \A w \in Worker : pc[w] = "gone"
    /\ drive' = "marking"
    /\ mark' = IF cancelled THEN "cancelled" ELSE "completed"
    /\ UNCHANGED <<meta, poolVars, cancelVars, peer, noticeVars, faults, restarts>>

\* updateMeta.  What it reads back it overwrites, so only the write shows.
Mark ==
    /\ drive = "marking"
    /\ \/ drive' = "ended" /\ meta' = mark /\ UNCHANGED faults
       \/ Fault /\ drive' = "crashed" /\ UNCHANGED meta
    /\ UNCHANGED <<mark, poolVars, cancelVars, peer, noticeVars, restarts>>

----------------------------------------------------------------------------
(***************************************************************************)
(* batch_run_cancel.                                                       *)
(***************************************************************************)

Answered(c) == asked[c] = "answered"

\* A call names a batch that was accepted.
CallCancel(c) ==
    /\ asked[c] = "idle" /\ meta # "none"
    /\ asked' = [asked EXCEPT ![c] = "reading"]
    /\ UNCHANGED <<drive, meta, mark, poolVars, seen, cancelled, peer, noticeVars, faults,
                   restarts>>

\* The state is read and the batch joins the cancelled set; then the seller
\* is called, if there is one.
ReadForCancel(c) ==
    /\ asked[c] = "reading"
    /\ seen' = [seen EXCEPT ![c] = meta]
    /\ cancelled' = TRUE
    /\ asked' = [asked EXCEPT ![c] =
          IF HasPeer THEN "calling" ELSE IF meta = "running" THEN "writing" ELSE "answered"]
    /\ UNCHANGED <<drive, meta, mark, poolVars, peer, noticeVars, faults, restarts>>

\* peer.cancel; its failure is logged and the call goes on.
CancelPeer(c) ==
    /\ asked[c] = "calling"
    /\ peer' = "told"
    /\ asked' = [asked EXCEPT ![c] = IF seen[c] = "running" THEN "writing" ELSE "answered"]
    /\ UNCHANGED <<drive, meta, mark, poolVars, seen, cancelled, noticeVars, faults, restarts>>

\* updateMeta: the state read before the seller was called decides.
WriteCancelled(c) ==
    /\ asked[c] = "writing"
    /\ \/ /\ meta' = "cancelled"
          /\ asked' = [asked EXCEPT ![c] = "answered"]
          /\ UNCHANGED faults
       \/ Fault /\ asked' = [asked EXCEPT ![c] = "failed"] /\ UNCHANGED meta
    /\ UNCHANGED <<drive, mark, poolVars, seen, cancelled, peer, noticeVars, restarts>>

----------------------------------------------------------------------------
(***************************************************************************)
(* The completion notice.                                                  *)
(***************************************************************************)

\* An on_status for o is recorded and journaled: OrderStatusWatch passes it
\* on, and a check starts if o is one being waited for.
OnStatus(o) ==
    /\ o \in Watched /\ traded[o] /\ heard[o] < MaxStatus[o]
    /\ heard' = [heard EXCEPT ![o] = @ + 1]
    /\ done' \in {done, [done EXCEPT ![o] = TRUE]}
    /\ watching' = IF o \in awaiting
                   THEN [watching EXCEPT ![o].reading = @ + 1] ELSE watching
    /\ UNCHANGED <<drive, meta, mark, poolVars, cancelVars, peer, awaiting, aged, notified,
                   settling, posts, faults, restarts>>

\* resultTtlMs passes after o was put in #awaitingCompletion.
Age(o) ==
    /\ o \in awaiting \ aged
    /\ aged' = aged \cup {o}
    /\ UNCHANGED <<drive, meta, mark, poolVars, cancelVars, peer, done, heard, awaiting, notified,
                   settling, watching, posts, faults, restarts>>

\* Mutant: the purge drops every other order, whatever its age.
AwaitOnly(o) ==
    IF o \in notified THEN UNCHANGED <<awaiting, aged>>
    ELSE awaiting' = {o} /\ aged' = aged \ {o}

\* #settleCompletion's last lines and #awaitWithin: not sent, by whatever check,
\* is waited for, and what was put there too long ago no longer is.
AwaitWithin(o) ==
    IF o \in notified THEN UNCHANGED <<awaiting, aged>>
    ELSE awaiting' = (awaiting \ aged) \cup {o} /\ aged' = aged \ {o}

\* #tryCompletionNotice of the settled order, up to the post: the order is
\* COMPLETED, or it is not or its journey could not be read.
SettleRead(o) ==
    /\ settling[o] = "reading"
    /\ \/ /\ done[o] /\ o \notin notified
          /\ settling' = [settling EXCEPT ![o] = "posting"]
          /\ UNCHANGED <<awaiting, aged>>
       \/ /\ settling' = [settling EXCEPT ![o] = "none"]
          /\ AwaitWithin(o)
    /\ UNCHANGED <<drive, meta, mark, poolVars, cancelVars, peer, done, heard, notified,
                   watching, posts, faults, restarts>>

\* postOnComplete, and the two collections once it is through.
SettlePost(o) ==
    /\ settling[o] = "posting"
    /\ settling' = [settling EXCEPT ![o] = "none"]
    /\ \/ /\ posts' = [posts EXCEPT ![o] = @ + 1]
          /\ notified' = notified \cup {o}
          /\ awaiting' = awaiting \ {o}
          /\ UNCHANGED aged
       \/ AwaitWithin(o) /\ UNCHANGED <<posts, notified>>
    /\ UNCHANGED <<drive, meta, mark, poolVars, cancelVars, peer, done, heard, watching, faults,
                   restarts>>

\* The same check, started by an on_status.
WatchRead(o) ==
    /\ watching[o].reading > 0
    /\ \/ watching' = [watching EXCEPT ![o].reading = @ - 1]
       \/ /\ done[o] /\ o \notin notified
          /\ watching' = [watching EXCEPT ![o] =
                [reading |-> @.reading - 1, posting |-> @.posting + 1]]
    /\ UNCHANGED <<drive, meta, mark, poolVars, cancelVars, peer, done, heard, awaiting, aged,
                   notified, settling, posts, faults, restarts>>

\* A post that fails leaves the order waiting for the next on_status.
WatchPost(o) ==
    /\ watching[o].posting > 0
    /\ watching' = [watching EXCEPT ![o].posting = @ - 1]
    /\ \/ /\ posts' = [posts EXCEPT ![o] = @ + 1]
          /\ notified' = notified \cup {o}
          /\ awaiting' = awaiting \ {o}
       \/ UNCHANGED <<posts, notified, awaiting>>
    /\ UNCHANGED <<drive, meta, mark, poolVars, cancelVars, peer, done, heard, aged, settling,
                   faults, restarts>>

----------------------------------------------------------------------------
\* The process restarts: what it held is gone, what it stored is not.
Restart ==
    /\ faults + restarts < MaxMishaps
    /\ restarts' = restarts + 1
    /\ drive' = IF drive \in {"idle", "ended", "refused"} THEN drive ELSE "lost"
    /\ pc' = [w \in Worker |-> IF pc[w] \in {"off", "gone"} THEN pc[w] ELSE "dead"]
    /\ asked' = [c \in Caller |->
          IF asked[c] \in {"idle", "answered"} THEN asked[c] ELSE "failed"]
    /\ late' = [w \in Worker |-> FALSE]
    /\ verdict' = [w \in Worker |-> "none"]
    /\ seen' = [c \in Caller |-> "none"]
    /\ cancelled' = FALSE
    /\ awaiting' = {} /\ aged' = {} /\ notified' = {}
    /\ settling' = [o \in Order |-> "none"]
    /\ watching' = [o \in Order |-> [reading |-> 0, posting |-> 0]]
    /\ UNCHANGED <<meta, mark, next, held, inFlight, tally, filed, traded, peer, done, heard,
                   posts, faults>>

Starting == StartListener \/ WaitForSeller \/ Launch \/ Disarm
Working(w) ==
    \/ Count(w) \/ Create(w) \/ Poll(w) \/ Act(w)
    \/ Leave(w) \/ Score(w) \/ File(w)
Cancelling(c) == ReadForCancel(c) \/ CancelPeer(c) \/ WriteCancelled(c)
Notifying(o) == SettleRead(o) \/ SettlePost(o) \/ WatchRead(o) \/ WatchPost(o)

BatchNext ==
    \/ Starting \/ Decide \/ Mark \/ Restart
    \/ \E w \in Worker : Working(w) \/ Expire(w) \/ WorkerFault(w)
    \/ \E c \in Caller : CallCancel(c) \/ Cancelling(c)
    \/ \E o \in Order : OnStatus(o) \/ Age(o) \/ Notifying(o)

(***************************************************************************)
(* The event loop serves every continuation that is ready, every awaited   *)
(* call of the code has a time-out of its own, and time passes.  A         *)
(* deadline passing does not stop a worker's other steps, so it is fair on *)
(* its own.  Nothing makes a seller send an on_status or a caller cancel.  *)
(***************************************************************************)
BatchFairness ==
    /\ WF_vars(Starting) /\ WF_vars(Decide) /\ WF_vars(Mark)
    /\ \A w \in Worker : WF_vars(Expire(w)) /\ WF_vars(Working(w))
    /\ \A c \in Caller : WF_vars(Cancelling(c))
    /\ \A o \in Order : WF_vars(Notifying(o))

BatchSpec == BatchInit /\ [][BatchNext]_vars /\ BatchFairness

----------------------------------------------------------------------------
(***************************************************************************)
(* Properties.                                                             *)
(***************************************************************************)

\* The shape of the state, part by part.
PoolTypeOK ==
    /\ next \in Nat \ {0}
    /\ pc \in [Worker -> WorkerAt]
    /\ held \in [Worker -> Order \cup {NoOrder}]
    /\ late \in [Worker -> BOOLEAN]
    /\ verdict \in [Worker -> {"none", "ended", "timed_out", "cancelled"}]
    /\ inFlight \in Int /\ tally \in Nat
    /\ filed \in [Order -> Nat]
    /\ traded \in [Order -> BOOLEAN]

RunTypeOK ==
    /\ drive \in {"idle", "arming", "saving", "disarming", "refused", "pool", "marking",
                  "ended", "crashed", "lost"}
    /\ meta \in {"none", "running", "completed", "cancelled"}
    /\ mark \in {"none", "completed", "cancelled"}
    /\ peer \in {"none", "unheard", "armed", "told"}
    /\ faults \in Nat /\ restarts \in Nat

CancelTypeOK ==
    /\ asked \in [Caller -> {"idle", "reading", "calling", "writing", "answered", "failed"}]
    /\ seen \in [Caller -> {"none", "running", "completed", "cancelled"}]

NoticeTypeOK ==
    /\ done \in [Order -> BOOLEAN]
    /\ heard \in [Order -> Nat]
    /\ awaiting \subseteq Order /\ aged \subseteq Order /\ notified \subseteq Order
    /\ settling \in [Order -> {"none", "reading", "posting"}]
    /\ watching \in [Order -> [reading : Nat, posting : Nat]]
    /\ posts \in [Order -> Nat]

BatchTypeOK ==
    PoolTypeOK /\ RunTypeOK /\ CancelTypeOK /\ NoticeTypeOK /\ cancelled \in BOOLEAN

\* "completed" is only ever stored of a batch each of whose orders has one
\* result, whatever cancels, store failures and restarts came in between: no
\* index is handed out twice or lost, and a pool that lost a worker is not
\* taken for one that finished (#driveAll's Promise.all).
CompletedIsComplete == meta = "completed" => \A o \in Order : filed[o] = 1

\* What batch_run_status adds up: an order is counted in flight or under its
\* status, never both, so "queued" never has to be cut off at zero, and it
\* is zero once the batch is completed.
StatusAddsUp ==
    /\ inFlight >= 0
    /\ inFlight + tally <= Total
    /\ meta = "completed" => inFlight = 0 /\ tally = Total

\* A seller whose batch id we hold is not left armed for orders that will not be
\* sent: a start that failed after it, and a cancel that was answered, have told
\* it or have tried.
NothingLeftArmed ==
    drive = "refused" \/ (\E c \in Caller : Answered(c)) => peer # "armed"

\* "Never leave the seller armed for orders that will not be sent"
\* (batch.service.ts:314): no start that failed leaves one.  Not so: see
\* BatchArmed.cfg.
NeverLeftArmed == drive = "refused" => peer \notin {"armed", "unheard"}

\* An order that has settled and whose on_confirm has not gone out is being
\* checked, or is one the next on_status looks for, until it has waited longer
\* than results are kept: no outcome of a check, a failed post included, and no
\* other order's registration lets go of it before.
NeverForgotten ==
    \A o \in Watched :
        restarts = 0 /\ traded[o] /\ filed[o] > 0 /\ o \notin notified =>
            settling[o] # "none" \/ o \in awaiting \cup aged

\* Every accepted batch reaches a final state, cancelled or not, unless a
\* store call failed or the process restarted under it.
EveryBatchEnds ==
    meta = "running" ~> meta # "running" \/ faults > 0 \/ restarts > 0

\* "Transactions already in flight are left to finish or hit their own
\* per_transaction_timeout_ms naturally" (batch.tool.ts:146-148): a cancel does
\* not end an order whose transaction is on the wire.
LeftToFinish ==
    \A w \in Worker :
        pc[w] \in {"leaving", "scoring", "filing"} /\ verdict[w] = "cancelled" =>
            ~traded[held[w]]

\* "Transactions whose on_confirm has already been sent, so each goes once"
\* (batch.service.ts:188).
EachGoesOnce == \A o \in Order : posts[o] <= 1
=============================================================================
