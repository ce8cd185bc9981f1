# Verification of automation-mcp

TLA+ modules, TLC configurations and TLAPS proofs kept beside the mock network
participant in `src/`: a server that plays one side of an ONDC transaction
against a participant under test. A model drives it through tools
(`flow_start`, `flow_proceed`, `flow_await`, `flow_restart`, ...), the
participant drives it through HTTP callbacks, and auto-advance drives it in
between. All three paths run in one Node process over a key-value store
(memory or Redis), so nothing is parallel, and everything that awaits interleaves.

The promises worth checking follow from what the server is for. It must not put
a call on a third party's wire twice. It must not lose an exchange it has seen,
because the record is evidence. And it must not leave the model without the
news that something happened.

## Inventory

| Part | State | Operations | What is hard | What makes it right |
| --- | --- | --- | --- | --- |
| **record: locks** (`record.service.ts` `withKeyLock`; the same body in `flow.service.ts`, `feedback.service.ts`) | a map from key to the promise at the queue's tail | one call per piece of work | rejected work, restarts, clearing the slot | first come first served, one at a time, everybody served |
| **record: transactions** (`record.service.ts`, `record.repository.ts`) | one `TransactionRecord` per transaction: entry list, high-water mark, latest action, attention, abandoned; one payload per call | create, append, settle, discard, form entry, attention, abandon | the whole record is loaded, changed and written; calls, callbacks and answers overlap; a store call may fail or the process die between any two | each operation is atomic on the list; only its own expiry takes a payload an entry names; numbers are never reused; waiters hear of durable things only |
| **record: journal** | a capped list of lines, a counter, a delivery cursor | `journal`, `drainEvents` | reserve-then-append, overlapping drains, caps, lost results | the cursor never passes what was not delivered; everything is delivered in the end |
| **record: expectations** | one list of armed calls per endpoint, shared by its sessions, with expiry | arm, consume, put back, clear by session or by run | whole-list writes of sessions side by side; calls that fit several | an expectation lets one transaction in, and goes only by its own session's doing |
| **flow: run** (`flow.*.ts`) | the binding of a run (transaction, attempts), `WORKING` markers | start, proceed, restart, dispatch, the two bind sites | read-then-mark, unlocked writers of the binding, crashes around a send | no duplicate on the wire, no transaction without an owner, nothing new on a sealed attempt |
| **flow: engine** (`engine/*`) | none: a map replayed from the entries, over a line the run's data may lengthen, by every call that needs it | reduce, sort, resolve, status of each step | duplicates, retries, out-of-order calls, replies before requests, a line rewritten between reads | the cursor is as far as the history supports; each exchange is in one place; what one read reported no later one takes back while the line stands |
| **flow: auto-advance** (`flow.chain.ts`) | none | chain, pause, note completion | chains side by side with calls | one completion line, a bounded chain, a pause somebody hears of |
| **flow: await, events** (`flow.await-*.ts`, `transaction-events.ts`) | parked waiters | wait, notify | the event between the read and the registration | a waiter sees what is stored |
| **transport: receiver** (`receiver.*.ts`) | none | attribute, adopt, match, judge, record, acknowledge | two deliveries of a call, a match that is stale when recorded | what is acknowledged is recorded and counts once |
| **batch** (`batch.*.ts`) | stored: state, counters, results; in the process: the pool, the cancelled set, the orders awaiting their notice | start, drive, cancel, notify | workers side by side, cancel against completion, failing store calls, restarts, `on_status` during a check | a batch ends; "completed" means a result for every order; counters add up; a seller that answered is disarmed when the buyer fails; only time forgets a notice |
| **forms** (`forms.service.ts`) | business data | host, submit | double submission, unlocked business data | a submission moves the run on, once |
| **feedback** (`feedback.service.ts`) | an incident per failure signature, promises nobody awaits | capture, resolve, narrate, flush, drain | captures, resolutions and the drain save what they read earlier; the index has a limit | the model is asked once per failure; every incident the drain lists is reported |
| **mirror** (`mirror.sink.ts`) | a bounded queue, one post in flight, a count of losses | emit, flush, close | drop-oldest against put-back, lost answers, late posts | the limit and the order hold, no loss goes uncounted |
| **session, catalog, validate, mock engine, sender, signing, protocol knowledge, views, user interface, container** | caches and settings | reads, remote calls, scripts | coalesced fetches, one unlocked settings patch | answers are inputs of the modelled parts |

Tools, callbacks and chains reach a run through `FlowService`; that calls
`RecordService` for every exchange; `RecordService` publishes to
`TransactionEvents`, which wakes `flow_await`, and to the journal, which rides
back on the next tool result. The receiver calls `FlowService.adoptTransaction`
when an expectation lets a participant open a run. The stores are the only
state that survives a restart.

`PROJECT.json` lists every part with what is modelled of it, and every hazard
with the line where it bites and the properties that watch it.

## Modules

| Module | Models | State and actions |
| --- | --- | --- |
| `KeyLock` | `withKeyLock` | `slot` is the map; `previous` the promise a call's work is chained onto; `phase` how far the call is. `Request` is the synchronous prefix, `Start` the predecessor settling, `Settle` the work's end, `Release` the `finally`, `Crash` a restart |
| `Ledger` | what the record operations promise | one atomic action per operation, no locks, no copies |
| `RecordStore` | the record operations of `RecordService`, on `KeyLock` | one action per await: `Load`, `SavePayload`, `SaveTransaction`, `RefreshPayload`, `DropPayload`, `Publish`; `op` says which operation a call is, `loaded` is the copy it works on. `StoreRejects` is a call that failed without effect, `AnsweredOrLost` one that failed after it; `ExpireRecord` and `ExpirePayload` are time, `lapsed` the entries whose payload it took |
| `Journal` | `journal`, `drainEvents` | one action per store call of a writer or a drain; `told`, `lost`, `late` and `overlapped` are history |
| `Expectations` | the bucket all sessions of an endpoint share, the attribution of calls, adoption and refusal | `bucket` is the stored list, `copy` what a request loaded under the lock (`holder`), `pc` and `job` the request being served. `Load` and the three `Save...` actions are one locked operation; `Arm`, `Restart`, `Call` begin a request; `PutBack` is `refuseMismatch`, `Adopt` and `Bind` are `adoptTransaction`, `Ack` is the clearing an ACK does; `Lapse` and `SessionExpires` are time |
| `FlowRun` | one flow run of one session | `binding`, `records`, `status`, `armed` are the stores; `pc` is the await a call is at, and the rest its locals. One action per await of `proceed`/`dispatch`, `start`, `restart` and the receiver; `wire` and `late` (calls by transaction caught under way by a seal) are history |
| `FlowMap` | the engine's resolvers as operators | `Consume(line, m, x)` is the map after one exchange: the line (`Fits`, `Advanced`), the extras (`Resolved`, `Added` with its placeholder), the findings (`Missed`) |
| `FlowMapBuilder` | one `FlowMapBuilder.build`, on `FlowMap` | `line` is `flow.sequence` and the `MORE_SEQUENCE` found at construction; `Reduce` takes an entry into the reduced rows; each of the three resolvers consumes the next row |
| `Turns` | a run under way, on `FlowMap`: what callers, receiver and forms do with the map | `apiList` is the record, `flowSequence` the line now, `mapped` what a read of the two derives, `working` the markers. `ProceedDispatch`, `ProceedForm`, `ProceedReply`, `TriggerExtra` are a `flow_proceed` up to its decision, by what `selectTarget` chose; `Mark`, `RecordSend`, `SaveSend`, `Withdraw`, `Unmark`, `RecordForm` what it then does; `Answer`, `Reply`, `Stray`, `RecordCall`, `SaveCall` are the participant and the receiver; `SaveBusinessData` is a step's `MORE_SEQUENCE` |
| `Await` | `flow_await` on a run and on a session, and the publishing that wakes it | `run` and `session` are the waits, from the read to the answer, one action per await; `unannounced` and `unheard` are changes stored whose notification is still to come; `cursor` is what the last answer told the caller to pass back; `shown`, `twice`, `missed`, `dead` and `owed` are history |
| `Batch` | `BatchService`, the driver, the `on_status` watch | `drive` is how far `startRun` and `#driveAll` are, `pc[w]` where a worker is between two awaits, `held` its order; `inFlight`, `tally`, `filed`, `meta` are stored; `asked` is a cancel; `settling`, `watching`, `awaiting`, `aged` (awaited longer than a result is kept), `notified` are the completion notice; `peer` is the seller: not armed, armed, armed without our knowing (`unheard`), or told to stop |
| `Mirror` | `BufferedHttpMirrorSink` and the server behind it | `queue`, `batch` (the post in flight), `dropped` and `carried`; `Emit`, `Tick`, `RunScheduled`, `Close` start, `Accepted`, `Refused`, `AnswerLost`, `TimedOut` end a post; `LateStore` is the server getting to one that was given up on |
| `Incidents` | `FeedbackService` over one session | `incident` is the store and `index` its list of the newest `IndexLimit`; `unlisted` is what the drain was due to report and the index had dropped; `locks` the queues of captures; `pc`, `base`, `todo` are a promise and what it read. `Fail`..`Nudge` are a capture, `Succeed`..`Resolved` a resolution, `Narrate` and `Account` the model's report, `Deliver` and `MarkFlushed` a flush, `StartDrain`..`Drained` the drain |
| `*_proofs` | | theorems: `RecordStore_proofs` about `KeyLock` and `RecordStore`, `FlowMap_proofs` about `FlowMapBuilder` and `Turns`, `Reports_proofs` about `Mirror` and `Incidents`, the others about the module they are named after |
| `MC*` | | instances for TLC |

`RecordStore` extends `KeyLock`: every operation is the work of a lock call.
`RecordStore` implements `Ledger`, with the identity on `record` and `told`:
checked as a property, and proved step by step. The modules above it use the record operations as the
atomic ones of `Ledger`, and a lock as the mutex `KeyLock` is proved to be; this
is what keeps them small enough to check. `Await` takes from `RecordStore` that an
exchange is stored before it is published, one at a time per record, and uses
the drain as one step, because `Journal` is about its steps. `FlowMapBuilder`
and `Turns` share `FlowMap`: the first replays any history in steps, the second
lets a history come about and takes the replay as one operator, `Build`, which
`BuildInOne` proves to be what the steps arrive at. `FlowRun` has the same run from the other side, its binding, its
locks and its crashes, over a strict line.

### Abstractions

* An action, a payload, an answer is a step number, a caller or a message id:
  no property reads more of it. Validators, generators and inputs are choices:
  each exit of `Prepare` and `Match` is one that the code has.
* The store's operations are atomic and its contents survive a crash. In
  `RecordStore` a record expires (48 hours from its last write) and so does
  each payload, on a lifetime of its own, from the last time the payload was
  saved; neither under a running call. Expectations and sessions expire in
  `Expectations`, awaited orders age in `Batch`; markers do not expire.
* A transaction's record and its entry in the location index appear together.
* The flow of `FlowRun` is a strict sequence with a different action at each
  step; forms, gated steps and side-channel steps are in `Turns`, without
  crashes, on a run that is bound.
* The participant answers on transactions it has heard of; only a call with
  the flow's first action may name a transaction of its choosing. It may send
  anything out of turn and anything again.
* In `Turns` a flow's own `HTML_FORM_MULTI` steps are left out: their
  submissions are recorded under another type and complete nothing (see below).
  Message ids are fresh, except that a reply carries its request's.
* The line of `Turns` changes when a step is recorded and saves: `Saves` says
  what each step may leave as `MORE_SEQUENCE`, which covers a script's own value
  and one written back from a copy read before. A save follows its record in a
  step of its own, but a reader takes record and line together. The line of
  `FlowMapBuilder` is any one `MORE_SEQUENCE` can make; `FlowRun` and `Await`
  keep theirs. Edits through `overwriteBusinessData` are left out.
* In `Await` one caller waits on the run or on the session, one call at a time;
  what other callers would change, the delivery cursor, moves by `Piggyback`.
  Whether a run is awaitable is a choice.
* In `Expectations` an URL belongs to a session or to none: the ranking's tier
  of a shared host is left out. The signature check and the match against the
  flow are one verdict, `Nack` or `Ack`.
* In `Batch` the flow an order runs on says yes or no. The completion notice is
  followed for the orders in `Watched`; its journey is read in one step. An
  order grows too old (`Age`) at any time, and is purged when another is next
  registered, as in the code.
* In `Incidents` the sink takes every report; `save` writes body and index and
  `list` reads them in one step each, and an incident does not expire. An
  incident is its state, whether it was reported and whether it holds the
  model's account.
* `createTransaction` writes without the lock. In `RecordStore` it is used for
  ids nobody works on yet; its use over a record in use is `FlowAdoptTwice`.

## Runs

| Run | Instance | States | Shows |
| --- | --- | --- | --- |
| `record` | three calls on one transaction, each any operation, every store call failing before or after its effect, expiry of the record and of each payload, and restarts at any time | 603,554 | the lock's order, a payload behind each entry until it expires, numbers never reused, durable notifications, the refinement of `Ledger` (so an answer lands on its own entry and no write is lost), and that every queued call is served |
| `journal` | three lines, two drains, two lines kept, one per delivery, one fault | 275,798 | nothing withheld is passed, order without overlap, delivery of every line appended in order |
| `flow_locked` | ours-theirs-ours; three `flow_proceed` by flow, a restart, two deliveries, one fault | 2,109,421 | nothing sent twice, the first action once per attempt, no transaction without an owner, a live binding, markers with owners |
| `flow_open` | theirs-ours; one call each by flow, by transaction, of `flow_start` and `flow_restart`, one delivery, one fault | 2,680,792 | what crossed the wire is behind the cursor, evidence stays, a sealed attempt is sent on by nobody but a call by transaction under way at the seal |
| `await` | one caller, two attempts of the run, two exchanges, two journal lines, one line per delivery | 2,661,596 | no report before its change or of a call in flight, nothing reported twice on one attempt, no wait above what it listens to, every event after the parking heard, a time-out that leaves nothing behind, refusals that end the wait |
| `expectations` | two sessions, one with two runs, one action, two transaction ids, two requests at a time; three armings, three requests | 3,371,832 | an expectation lets in one transaction at most; it goes only by its own session's doing or by the call it lets in |
| `flow_map` | every list of up to five exchanges of a line with a form, an action both in the line and beside it, and three extras, one answered by another's pair; the line as published, and with a step of an extra's action added | 2,202,262 | the cursor is the longest prefix the history holds in order; each exchange is filed in one place; exactly the replies not in it are owed |
| `turns` | a gated step and a form, a callback that the first step's or a side-channel step's save adds to the line, and an exchange either side may start; two `flow_proceed` at a time, one inbound call, one stray call or triggered extra, one withdrawn send | 318,725 | what one read reported of the line as far as it stands, and beside it while it stands, no later one takes back; every run ends |
| `batch` | three orders, two workers, a peer that may refuse or whose answer may be lost, one cancel, notices followed for two orders and one `on_status` for the first, orders awaited too long, one mishap: a store fault or a restart | 711,499 | "completed" is of complete batches; the counters add up; a seller heard from is told; only time forgets a notice; every batch ends |
| `mirror` | a queue of three, batches of two, six records, four posts | 34,139 | the queue keeps its limit and its order, and every loss is counted |
| `incidents` | two signatures, one a later success retracts and one only the flow's end does, an index that holds one, two promises and the drain; three captures, two events, one failed flush | 1,502,572 | one nudge per failure; every incident the drain lists is reported |

Three calls in `record` are the fewest with which a send, a callback landing
while it is in flight and the send's answer can meet, or two appends around a
discard. They share a transaction because calls on different ones share
nothing. In `journal` the limits are below the number of lines, so both the log
and a delivery overflow. In `flow_locked` three callers let one bind, one meet
the marker and one follow a restart; three transaction ids let each attempt
have its own. One fault (`MaxMishaps`, in `turns` `MaxFaults`) is a crash or one rejected
store call anywhere; a second would find the same places again. In `await` two
exchanges are enough for a callback behind a call in flight, or for one in each
attempt; two lines for a delivery that leaves one behind.

In `expectations` one action makes every armed call fit every expectation,
which is the ambiguous case the ranking is for; three armings are one per run,
or a put-back or a second arming of one. In `flow_map` five entries on two
message ids are more than the line is long and hold each of: a repeat, a reply
before its request, two requests with one reply, a call beyond the end. In
`turns` two calls let one act on what another has moved; ids never run out. In
`batch` the third order is what a worker goes on to, and what a cancel can still
stop. In `mirror` a batch of two does not fit back into a queue of three that
two records have come into. In `incidents` two captures of one signature are
the retry, a third is the other failure, which takes the place of the first in
the index; two events are a resolution against a narration or another
resolution. In `batch` two orders followed are the fewest for which registering
one can purge the other.

Callers of one kind are interchangeable, and the runs with symmetry check no
liveness. No run looks for deadlock: calls end, and a state in which all have
ended is the normal end of a behaviour. That nothing waits for ever is
`EveryCallIsServed`, `EveryLineIsDelivered`, `EveryRunEnds`, `EveryBatchEnds`.

### Disagreements with what the code says of itself

Each is a configuration under which TLC finds a violation of one property, which
states what the line quoted says. `turns_complete` is in the run list, which is
kept short; the other configurations are to be run by hand
(`tlc -config FlowDup.cfg MCFlowRun`), and each ends within half a minute.

| Configuration | Property | Against | What the code does |
| --- | --- | --- | --- |
| `TurnsComplete`, `MCTurns` | `CompleteIsDone` | `flow.target.ts:158`, "Every step of this flow is done." | While a send of ours has the marker, a form the participant hosts at the head of the line reads `PROCESSING`, and a call that looks then is told the run is complete |
| `KeyLockSlot`, `MCRecordStore` | `TailClearsSlot` | `record.service.ts:1254`, "Only the tail clears the slot" | The `finally` compares the slot with the promise awaited, not with the one stored, so a slot is never given back. Order is unaffected: the theorems below hold of the code as it is |
| `RecordPayloads`, `MCRecordStore` | `PayloadsOutlastTheRecord` | `record.service.ts:1222`, payloads "expire with the transaction" | The record's lifetime is renewed by every write, a payload's only when it is saved again: an early exchange of a long transaction is listed with a payload that is gone |
| `JournalGap`, `Journal` | `NothingIsPassed` | `ARCHITECTURE.md:940-943`, delivery is "unavoidable" | A drain between two writers' reserve and append moves the cursor past a line appended later, which is never delivered. `journal` excuses lines appended out of order, and only those |
| `FlowDup`, `MCFlowRun` | `SentOnce` | `flow.service.ts:222`, "the marker is enough" | Two calls by transaction both read `AVAILABLE` before either marks. `flow_locked` shows that the run lock is what does it |
| `FlowOvertaken`, `MCFlowRun` | `SentIsRecorded` | `flow.service.ts:222`, "the marker is enough" | One call by transaction is enough: it reads the record while another call's entry is in it and the marker after that call's send has failed, its entry is withdrawn and the marker cleared. It sends the next step, and the one before it is owed |
| `FlowStartRace`, `MCFlowRun` | `FirstActionOnce` | `ARCHITECTURE.md:1320`, what the run lock is for | `flow_start` writes back the binding it read, without the run lock, and undoes a bind: the next call opens the flow a second time |
| `FlowSealLate`, `MCFlowRun` | `NothingAfterTheSeal` | `record.service.ts:660-663`, the seal "is what stops the abandoned attempt being advanced" | A call by transaction that loaded the record before the seal holds no lock that `flow_restart` waits for, and sends on the sealed attempt |
| `FlowAckStuck`, `MCFlowRun` | `AckAdvances` | `reduce-history.ts:14`, the first response "is the one the counterparty actually acted on" | A call refused as out of sequence, retried with its message id when it is due, is acknowledged as completing its step and then dropped by the reduction; the run waits for it still |
| `FlowAdoptTwice`, `MCFlowRun` | `EvidenceKept` | `ARCHITECTURE.md:1319`, the record lock covers "every write" | Two deliveries of the opening call, with a `flow_proceed` that arms again between them, adopt one after the other, and the second empties the record |
| `AwaitSkip`, `Await` | `NothingSkipped` | `flow.await-run.ts:149`, "skips nothing" | An answer reports the oldest unseen exchange and carries the newest number as the cursor to pass back |
| `ExpectationsSiblings`, `MCExpectations` | `SiblingsStayArmed` | `record.service.ts:1151-1153`, why runs are disarmed one by one | The ACK of a call to one run clears what the session's other runs have armed on the endpoint. `expectations` grants a session, not a run, what is its own |
| `BatchArmed`, `MCBatch` | `NeverLeftArmed` | `batch.service.ts:314`, "Never leave the seller armed" | The seller arms itself and its answer times out or cannot be read: `peerBatchId` is unset, so the `catch` has nothing to cancel |
| `BatchCancel`, `MCBatch` | `LeftToFinish` | `batch.tool.ts:146`, in-flight transactions "are left to finish" | A cancel ends an order whose transaction is on the wire (`batch.driver.ts:525`) |
| `BatchNotice`, `MCBatch` | `EachGoesOnce` | `batch.service.ts:188`, "so each goes once" | Two `on_status` calls close together both pass the check and both post the order's `on_confirm` |
| `IncidentsTwice`, `MCIncidents` | `ShipsOnce` | `feedback.service.ts:664-668`, "exactly once" | Two resolutions close together both report an incident; the test settles each before the next |
| `IncidentsDropped`, `MCIncidents` | `NoIncidentIsDropped` | `feedback.service.ts:884-885`, "An incident nobody narrated still ships" | The index holds the newest 200 (`feedback.repository.ts:31-32`), and the drain reports what the index lists: with more failures than that, the oldest are never shipped |
| `IncidentsReopened`, `MCIncidents` | `OpenIsReported` | `feedback.service.ts:879`, "report what never resolved" | An incident reported as recovered that happens again keeps `flushed_at`; if it is never got past, that is never reported |

Others show in the modules without a configuration of their own, because no line of
the repository says otherwise or because the properties excuse them by name.

* Waiting. `EveryHintIsHeard` excuses what was published between the read and
  the parking: a wait sits out its time-out with that stored, and the answer
  then reports nothing and counts it as seen. `NothingSeenTwice` speaks of one
  attempt: the run's key also carries what is settled late on an attempt
  restarted since. `TimedOutIsQuiet` speaks of unfiltered waits: a filtered one
  does not look past the ten lines a delivery holds.
* Adoption. Two first calls under one transaction id, taken by expectations of
  two sessions, give the id to two runs. An expectation armed before a run was
  bound outlives the binding, and a second opening call takes the run over. A
  mismatch refused across a `flow_restart` is put back with the id of the
  attempt that was written off. A call that takes an expectation of an expired
  session takes it for nothing.
* Turns. The receiver accepts an extra the participant starts only when the
  flow expects it; recorded as a refusal, the engine still files it as
  complete. `awaitingMessageId` reaches no generator, so a reply of ours under
  another id leaves its placeholder owed and is owed again (`ProceedReply`'s
  fault). A second submission of a hosted form is taken for the next form. An
  `HTML_FORM_MULTI` step is submitted as `HTML_FORM` and never completes.
* A line that grows. What an extra was filed as, or a finding said was missed,
  is derived again on the new line, and may have become one of its steps: a read
  takes back what an earlier one reported (`TurnsRefiled.cfg`, `MCTurns`,
  `NothingIsRefiled`). `NothingIsTakenBack` excuses that, and only for what
  was not a step of the line before the change.
* Batch. An `on_status` that comes while its order is not yet awaited starts no
  check (`batch.service.ts:652-653`), and registering an order forgets those
  awaited longer than a result is kept: neither gets its notice from then on.
  A store call that rejects under a worker ends the drive and leaves the
  batch "running" (`EveryBatchEnds` excuses it); a restart does too. A cancel
  that read "running" writes "cancelled" over a completion in between, so a
  batch labelled cancelled may be complete.
* Mirror. `close` with a post in flight flushes nothing, and what is queued is
  counted as lost only in a counter nobody reads again. A batch whose answer was
  lost is stored twice, and one that was late is stored after its successors.
* Incidents. Resolutions, narrations and the drain save what they read before:
  an account or a re-opening in between is lost. The container's comment that
  the drain writes `ISSUE_OPEN` lines is not what the drain does.

### Fairness

`RecordStore` assumes that the event loop runs what is ready and that the store
answers or rejects (weak fairness of each call's next step); restarts and
requests are not fair. `Journal` assumes that the model goes on making tool calls and that a
drain once begun gets to its end, which is weak fairness of each drain; nothing
is assumed of writers or faults. `Batch` assumes the event loop again, weak
fairness of each worker, cancel and check, and that a deadline passes: every
wait in the driver is bounded by one. Sellers, callers and faults are not fair.
`Turns` assumes the event loop for what is under way, and of its environment
what the end of a run depends on: a caller that keeps calling `flow_proceed`
with what it is asked for, and a participant that answers. These two are strong,
because a call may find the marker set, or the head moved, each time it is
looked at and be possible again in between. `FlowRun`, `Await`, `Expectations`,
`Mirror` and `Incidents` state safety only: a wait ends by its timer at the
latest, and what matters is what it says; the sink promises no delivery.

## Proofs

Checked by `tlapm` for every value of the constants: any number of calls,
callers, transactions, orders, lines and faults, where a run has a few.

### The record

* `RecordStore_proofs`, the lock: `LockIsFair` (`FirstComeFirstServed`) and
  `LockIsExclusive`. First come first served is not inductive. The invariant
  `LockInv` adds that the slot of a key holds the newest call that is not over
  (`SlotHoldsTail`), so that a new call is chained behind every earlier one that
  is not (`ChainedBehind`); when its predecessor is over, so are all before it.
  Assumed: calls are numbered in the order they are made, each with a key.
* `RecordStore_proofs`, the operations: `RecordServesInOrder`,
  `OnlyTimeTakesAPayload` (`EntriesHavePayloads`), `CursorsAreNeverReused`
  (`SeqNeverRewinds`), `EventsFollowTheRecord` (`ToldIsDurable`), and the
  refinement `RecordImplementsLedger` (`ImplementsLedger`). All rest on `RInv`,
  which is `LockInv` and what the lock is for: a call between its load and its
  save is alone on its record, so its copy is what is stored (`CopyIsFresh`) and
  its write loses nobody else's. `AllListed` says that entries have numbers and
  authors of their own, none above the record's; `Finishing` that what settles
  or discards does so for a send that has its number; `Numbered` that a number
  handed out is at or below the record's; `InHand` what is true of the record
  once a call has written and still has to refresh, drop or publish. An
  entry's payload is stored unless its own lifetime ended (`lapsed`), which
  it does not do under a running call. The
  refinement goes action by action: `SaveTransaction` is the
  operation of `Ledger` that the call stands for, `Publish` its announcement,
  creation and expiry are themselves, and everything else stutters. Assumed besides: `AbsentAssumption`, that the value
  for "no record" is no record.
* `Journal_proofs`: `JournalTypeCorrect` and `JournalWithholdsSafely`
  (`NothingWithheldIsPassed`). The invariant adds what a delta is: closed
  downwards among the lines stored after the cursor the drain read, so setting
  the cursor to its last line passes nothing else; that no number is above the
  counter; and that a line appended behind a higher number is in `late`.
  Assumed: the limits are positive and the set of lines is finite.
  `JournalDeliversInOrder` (`DeliveredInOrder`) adds `OrderInv`: until two
  drains overlap, the drain under way holds the cursor it read (`AloneOK`),
  what was told is at or below it, and what it carries is above.
* `Expectations_proofs`: `ExpectationsAdmitOnce` (`AdmitsOnce`) and
  `SessionsDoNotDisarmEachOther` (`OnlyTheirOwn`). `BucketInv` says that one
  party holds the lock, that its copy is the bucket but for what has expired
  since it was written (`CopyIsCurrent`), and that an expectation which admitted
  a call is neither in the bucket nor in the holder's copy (`SpentIsGone`): a
  save therefore takes out what it means to take out. The second theorem adds
  that each entry belongs to the session of its run (`EntriesBelong`).

### A run

`FlowRun_proofs` takes `FlowRun` step by step: a step is one call's, and for
each thing the arguments are about, one lemma says what a step can do to it
(`StepMovesLock`, `StepMovesWire`, `StepMovesEntries`, ...). Three definitions
name what the code does not promise and a run may have:

* `AllByFlow`: every `flow_proceed` names the flow and so takes the run lock; a
  call by transaction id takes none. `FlowDup` shows `SentOnce` failing where
  two calls name the transaction; it fails the same on a flow the mock opens.
  `FlowOvertaken` shows `SentIsRecorded` failing with one of them, where two
  steps of ours follow each other: no argument from the order of appends could
  take the place of the lock. `flow_open` has one such call and no two such
  steps, and there the property holds.
* `WeOpen`: the first step is the mock's, so nobody adopts. `FlowAdoptTwice`
  shows `EvidenceKept` failing where the participant opens the flow.
* `StartedOnce`: no `flow_start` on a run that is there already.
  `FlowStartRace` shows `FirstActionOnce` failing with one.

`flow_locked` satisfies all three. Restarts, the participant's calls, crashes
and rejected stores are unrestricted in every theorem.

| Theorem | Property | Where | Argument |
| --- | --- | --- | --- |
| `FlowRunTypeCorrect` | `TypeInv` | always | where each call can be, and what it has in hand there |
| `MarkersHaveOwners` | `MarkerHasOwner` | always | inductive with the types |
| `EvidenceIsNeverLost` | `EvidenceKept` | `WeOpen` | `SendOK`: a discard is of an entry whose send never went out; `MintInv`: a record is only created under an id nobody has |
| `RestartSilencesTheAttempt` | `RestartIsQuiet` | always | `LockOK` and `LiveOK`: from its load of the binding to its send, a dispatch by flow holds the lock a seal would need; one by transaction that works on a sealed attempt read it before, and the seal put it in `late` (`LateOK`) |
| `SentIsNeverOwedAgain` | `SentIsRecorded` | `AllByFlow`, `WeOpen` | `CursorInv`, below |
| `EveryStepIsSentOnce` | `SentOnce` | `AllByFlow`, `WeOpen` | what is sent is the step owed, and what was sent is behind the cursor |
| `NoTransactionIsOrphaned` | `NoOrphans` | all three | `OwnerInv`: under the lock the binding is the dispatch's own or none (`BoundOf`), restart unbinds only what it sealed (`ReplaceOf`), so what crossed the wire is the bound attempt's or a sealed one's (`WireOwned`) |
| `FirstActionGoesOutOnce` | `FirstActionOnce` | all three | the same |
| `TheBindingIsLive` | `BindingIsLive` | `WeOpen`, `StartedOnce` | `LiveOK`, and that a dispatch binds a record it has just created (`CreatedOf`) |

`MintInv` is about transaction ids: a dispatch mints for the first step only
(`FirstOK`), what nobody minted is nowhere (`KnownOK`), a transaction whose
record is about to be created is that dispatch's alone (`MintedIsOwn`), and the
participant knows only ids it was sent (`HeardIsSent`). `CursorInv` follows a
dispatch: it has no entry before it appends one (`EntryOf`), its step is the one
its transaction owes (`OwedOf`), and once appended its one entry holds the cursor
past that step, which without it would stand there (`WrittenOf`) - so a discard
takes the cursor back to a step nobody was sent. What the participant writes
meanwhile is never of a step of ours and leaves both statements true.

They need to know what the replay of a list does when an entry is appended,
settled or taken out (`NextStepOfAppend`, `NextStepOfSame`, `RemoveLast`,
`RemoveEarlier`). `Replay` is a recursive function, and an induction over the
length of a list is carried out on the set of lengths for which the statement
holds: a non-empty complement would have a least element (`EveryNumber`, from
the library's well-founded minimum). Assumed: the callers of the five tools are
different ones (`KindsAssumption`).

### Waiting

* `Await_proofs`: `ReportsAreStored` (`ReportedIsStored`), `NothingIsSeenTwice`
  (`NothingSeenTwice`), `NoWaitIsDeaf` (`NeverDeaf`), `HintsAreHeard`
  (`EveryHintIsHeard`), `TimeOutsAreQuiet` (`TimedOutIsQuiet`), `DeadEndsEndTheWait`
  (`DeadEndEndsTheWait`). `AwaitInv` says what the number a caller holds is worth
  while the run moves on: of the current attempt everything shown is at or below
  it (`ShownIsBelow`), a wait keeps the number it was called with (`OwnBase`),
  what ends a wait is stored and above that number (`EventIsNew`), a wait is
  never above the high-water mark of what it listens to (`WithinReach`), and an
  attempt nobody has opened has no entries (`Unopened`), so that starting again
  from zero there misses nothing. Assumed: positive bounds on attempts and
  deliveries.

### The engine, batches, the mirror

* `FlowMap_proofs`: `BuildTypeCorrect`, `CursorIsRight` (`CursorIsGreatest`) and
  `FiledExactlyOnce` (`FiledOnce`), for any line, whatever was appended to it,
  any extras and any history. The
  invariant is that rows are distinct and replayed after the list is read. The
  cursor's proof carries the statement along: a prefix that fits the rows
  replayed so far is no longer than the cursor, and one more row lengthens it by
  one step at most. Filing adds that what is in the map was replayed
  (`FiledInv`), so a new row is nowhere yet (`NewIsNowhere`). Assumed: what
  `createExtrasIndex` enforces, that extras have types of their own.
  `RepliesOwedExactly` (`RepliesOwed`) carries itself along with one fact more:
  a row waiting for a reply names the pair it is for (`OpenNamesOwner`).
* `Batch_proofs`: `CompletedBatchesAreComplete`, `EverySellerHeardFromIsTold`
  (`NothingLeftArmed`), `OnlyTimeForgetsANotice` (`NeverForgotten`),
  `BatchTypeCorrect`. `PoolInv` is the argument for the
  first: an order below the next index is with one worker or filed once
  (`HeldOnce`, `NoneLost`), and as long as no worker died the pool is whole, so
  when all have left, the index is past the last order. Assumed: at least one
  order and one worker; the orders watched are orders.
  `StatusCountersAddUp` (`StatusAddsUp`): the two counters count two disjoint
  sets of orders, those in flight and those under a status (`CountersCount`);
  every step moves orders between them, and the order of a worker that died
  stays in the one it was in. Disjoint sets of orders are no more than the
  orders, which is the subtraction's bound.
* `FlowMap_proofs`, a run under way: `ReadsAreNeverTakenBack`
  (`NothingIsTakenBack`), for any flow, any lines its steps may leave and any
  number of calls side by side. A step adds one exchange to the record,
  withdraws one or leaves another line (`RecordMoves`), and what a read derives
  is `Build` of the two (`MapIsTheRecords`). So the argument is about `Build`:
  appending an exchange that is recorded already leaves it, and appending
  another is one `Consume` (`BuildOfAppend`); no resolver takes back what a map
  reports (`ConsumeKeeps`), given that it has an exchange for each step
  completed and rows of declared extras only (`GoodMap`); and over two lines that
  begin alike the replay completes the common steps with the same exchanges
  (`CommonStepsStand`). `Build` is a
  recursive function: that it exists, and that lists which begin alike are built
  alike, is shown on the set of lengths, as for `Replay` above. `BuildInOne`
  ties the two modules together: when the builder is through, its map is `Build`
  of its list, because the rows are built as the entries read so far are
  (`ReductionIsBuild`) and the map as the rows replayed so far (`ReplayIsBuild`).
  Assumed besides: ids are the numbers up to a bound.
* `Reports_proofs`, the mirror: `QueueKeepsItsLimit`, `RetriesKeepTheOrder`,
  `EveryGapIsCounted`. `SinkInv` adds that an idle sink has no batch, that the
  items held were emitted, and that the batch in flight is older than everything
  queued, which is why it may go back in front. The count's proof follows the
  number of lost records through each step (`GrownBy`, `MovedSum`). Assumed:
  positive queue and batch sizes.

### Incidents

`Reports_proofs` proves both of `Incidents`' properties, for any signatures, any
limit of the index, any promises, failures and faults, and one about the limit.

* `EveryFailureIsAskedAboutOnce` (`AskedOnce`) rests on `IncidentsInv`. Captures
  of a signature stand in its queue once each, and only the first is past the
  wait (`TurnsInOrder`). So what it read stays so until it writes, whether there
  is an incident at all (`ReadIsCurrent`): resolutions, narrations and the drain
  save without the queue, but only over an incident that is there
  (`HeldAreStored`). An incident is therefore opened once, and its line is sent
  or still to be sent by the one promise that opened it (`AskedFor`).
* `EveryIncidentIsShipped` (`EveryIncidentShips`) adds two things. What reads as
  flushed, in the store or in anyone's copy of it, was delivered, and stays so
  (`IncidentsReported`, `ListedReported`, `HeldReported`): that is why the drain
  may pass over it, though copies overwrite each other. And what the drain is
  due to report is first stored or being captured by a promise it waits for
  (`DueIsComing`), then reported, still on its list or in its hand
  (`DueIsInHand`), unless the index had dropped it when the drain listed
  (`unlisted`).
* `FewEnoughIncidentsAllShip` says when that excuse is empty: a session of no more
  signatures than the index may hold drops none (`NoIncidentIsDropped`). The
  index holds each stored signature once and no other (`IndexFull`), so with one
  still to come it is shorter than the number of signatures (`IndexIsShort`).

Assumed: the drain's call is none of the promises it waits for, and the index
holds at least one.

### Only model-checked

* Liveness (`EveryCallIsServed`, `EveryLineIsDelivered`, `EveryBatchEnds`,
  `EveryRunEnds`): no prover here reaches fairness. Every other property the
  runs check is stated by a theorem.
* Some theorems have hypotheses their run does not: `SentIsRecorded` and
  `EvidenceKept` on a flow the participant opens, with one call by transaction
  and one `flow_start`, are `flow_open`'s. `FlowOvertaken` and `FlowAdoptTwice`
  are why no theorem says so for all.

## Not modelled

* **Business data.** It is read, changed across awaited scripts and written back
  without a lock. An update can be lost, and what that means is decided by
  published scripts: no property can be stated without them. Only its
  `MORE_SEQUENCE`, which the engine itself reads, is in `Turns`.
* **The parts `PROJECT.json` calls `not_modelled`**: cryptography, remote calls,
  generated data, rendering and wiring hold no state the properties could be
  about; the session's and the catalog's answers are constants of the modules.
* **Partly modelled parts.** Of auto-advance, the limit of twenty sends and the
  pause events; of the flow, dry runs' drafts and step overrides; of forms, what
  fetches, posts and renders; of feedback, the reports opened directly by a tool
  and the redaction; of the receiver, calls it cannot parse or trust.

## What would come next

* `FlowRun` and `Turns` in one module, so that a crash can meet a form.
* The final state of a batch after a restart, once the code gives it one.
