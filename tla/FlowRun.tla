------------------------------ MODULE FlowRun ------------------------------
(***************************************************************************)
(* One flow run of one session: the binding that says which transaction    *)
(* the run is on, the transactions' records, the status markers, and the   *)
(* calls that move them: flow_proceed (named by flow, under the run lock,  *)
(* or by transaction, without it, as auto-advance does), flow_start,       *)
(* flow_restart and the participant's inbound calls.                       *)
(*                                                                         *)
(* Record operations are atomic here (RecordStore implements Ledger); the  *)
(* run lock is a mutex (KeyLock).  Every other await is a place where      *)
(* calls interleave.  The flow is a strict sequence of steps.              *)
(***************************************************************************)
EXTENDS Naturals, Sequences, FiniteSets, SequencesExt

CONSTANTS
    Steps,          \* the number of steps in the sequence
    Ours,           \* the steps this mock sends; the others are the participant's
    ByFlow,         \* flow_proceed calls that name the flow
    ByTransaction,  \* flow_proceed calls that name the transaction, chained ones too
    Starts,         \* flow_start calls on the run, which exists already
    Restarts,       \* flow_restart calls
    Inbound,        \* deliveries of a participant's call
    Msg,            \* the message ids the participant uses
    ActionOf,       \* ActionOf[m]: the step m's action is that of
    MaxTxn,         \* bound: transaction ids
    MaxMishaps,     \* bound: store failures and crashes
    Nobody

Step == 1..Steps
Txn == 1..MaxTxn
Unbound == 0
Proceeds == ByFlow \cup ByTransaction
Proc == Proceeds \cup Starts \cup Restarts \cup Inbound

ASSUME StepsAssumption == Steps \in Nat \ {0} /\ Ours \subseteq Step
ASSUME MsgAssumption == ActionOf \in [Msg -> Step \ Ours]
ASSUME KindsAssumption ==
    /\ ByFlow \cap ByTransaction = {} /\ Proceeds \cap (Starts \cup Restarts \cup Inbound) = {}
    /\ Starts \cap Restarts = {} /\ (Starts \cup Restarts) \cap Inbound = {}
    /\ Proc \cap Msg = {} /\ Nobody \notin Proc \cup Msg

VARIABLES
    binding,    \* the run's binding: the transaction it is on, or Unbound
    records,    \* records[t]: does t have a record, is it abandoned, its entries
    status,     \* status[l]: FLOW_STATUS under lock id l; Unbound is the run's
    armed,      \* an expectation for the first step is armed
    runLock,    \* who holds the run lock
    pc,         \* pc[p]: the await p is at
    txn,        \* txn[p]: the transaction p works on
    want,       \* want[p]: the next step of the record p loaded
    marked,     \* marked[p]: the lock ids p marked WORKING
    msg,        \* msg[h]: the message h delivers
    known,      \* transaction ids somebody has minted
    wire,       \* the payloads that reached the participant (history)
    late,       \* the calls by transaction that had read the attempt they are
                \* on when flow_restart sealed it (history)
    mishaps     \* store failures and crashes so far

stores == <<binding, records, status, armed>>
history == <<known, wire, late, mishaps>>
vars == <<stores, runLock, pc, txn, want, marked, msg, history>>

Entry == [step : Step, id : Proc \cup Msg, state : {"in_flight", "settled", "failed", "ack", "nack"}]

NoRecord == [exists |-> FALSE, abandoned |-> FALSE, entries |-> <<>>]
NewRecord == [NoRecord EXCEPT !.exists = TRUE]

(***************************************************************************)
(* The flow map.  Entries with the same action and message id are one      *)
(* exchange, at the place of the first; the cursor advances by one over an *)
(* exchange whose action is that of the step it stands on.                 *)
(***************************************************************************)
Same(e, f) == e.step = f.step /\ e.id = f.id
Repeats(entries, i) == \E j \in 1..(i - 1) : Same(entries[j], entries[i])

\* Replay(entries)[i]: the step at the cursor after the first i entries.
Replay(entries) ==
    LET cursor[i \in 0..Len(entries)] ==
            IF i = 0 THEN 1
            ELSE LET step == cursor[i - 1]
                 IN  IF entries[i].step = step /\ ~Repeats(entries, i) THEN step + 1 ELSE step
    IN  cursor

\* The step at the cursor; Steps + 1 when the sequence is complete.
NextStep(entries) == Replay(entries)[Len(entries)]

Entries(t) == records[t].entries
Add(t, e) == records' = [records EXCEPT ![t].entries = Append(@, e)]

Init ==
    /\ binding = Unbound
    /\ records = [t \in Txn |-> NoRecord]
    /\ status = [l \in Txn \cup {Unbound} |-> "AVAILABLE"]
    /\ armed = (1 \notin Ours)
    /\ runLock = Nobody
    /\ pc = [p \in Proc |-> "idle"]
    /\ txn = [p \in Proc |-> Unbound]
    /\ want = [p \in Proc |-> 0]
    /\ marked = [p \in Proc |-> {}]
    /\ msg = [h \in Inbound |-> Nobody]
    /\ known = {} /\ wire = {} /\ late = {} /\ mishaps = 0

GoTo(p, place) == pc' = [pc EXCEPT ![p] = place]

\* The next id nobody has used; which one it is does not matter.
IsFresh(t) == t \notin known /\ \A u \in Txn : u < t => u \in known

----------------------------------------------------------------------------
(* flow_proceed *)

\* Mutant: flow_proceed does not wait for the run lock.
EnterUnlocked(p) ==
    /\ pc[p] = "idle"
    /\ runLock' = p
    /\ GoTo(p, IF p \in Restarts THEN "reread" ELSE "load")
    /\ UNCHANGED <<stores, txn, want, marked, msg, history>>

\* Mutant: flow_restart does not take the run lock.
RestartUnlocked(p) ==
    /\ pc[p] = "idle" /\ (p \in Restarts \/ runLock = Nobody)
    /\ runLock' = IF p \in Restarts THEN runLock ELSE p
    /\ GoTo(p, IF p \in Restarts THEN "reread" ELSE "load")
    /\ UNCHANGED <<stores, txn, want, marked, msg, history>>

\* Named by flow, and flow_restart: under the run lock.
EnterByFlow(p) ==
    /\ pc[p] = "idle" /\ runLock = Nobody
    /\ runLock' = p
    /\ GoTo(p, IF p \in Restarts THEN "reread" ELSE "load")
    /\ UNCHANGED <<stores, txn, want, marked, msg, history>>

\* Load the run by its binding, an unbound one with an empty placeholder.
LoadByFlow(p) ==
    /\ pc[p] = "load"
    /\ txn' = [txn EXCEPT ![p] = binding]
    /\ IF binding = Unbound
         THEN want' = [want EXCEPT ![p] = 1] /\ GoTo(p, "select")
         ELSE /\ want' = [want EXCEPT ![p] = NextStep(Entries(binding))]
              /\ GoTo(p, IF records[binding].abandoned THEN "leave" ELSE "select")
    /\ UNCHANGED <<stores, runLock, marked, msg, history>>

\* Mutant: a call that names the transaction does not look for the seal.
LoadUnasked(p, t) ==
    /\ pc[p] = "idle" /\ records[t].exists
    /\ txn' = [txn EXCEPT ![p] = t]
    /\ want' = [want EXCEPT ![p] = NextStep(Entries(t))]
    /\ GoTo(p, "select")
    /\ UNCHANGED <<stores, runLock, marked, msg, history>>

\* Named by transaction: no lock; an abandoned attempt is not advanced.
LoadByTransaction(p, t) ==
    /\ pc[p] = "idle" /\ records[t].exists
    /\ txn' = [txn EXCEPT ![p] = t]
    /\ want' = [want EXCEPT ![p] = NextStep(Entries(t))]
    /\ GoTo(p, IF records[t].abandoned THEN "leave" ELSE "select")
    /\ UNCHANGED <<stores, runLock, marked, msg, history>>

\* Read the marker, after the record, and choose what to do: nothing while a
\* dispatch has it, listen for the participant's step, or dispatch ours.
Select(p) ==
    /\ pc[p] = "select"
    /\ \/ /\ want[p] > Steps \/ status[txn[p]] = "WORKING"
          /\ GoTo(p, "leave")
          /\ UNCHANGED armed
       \/ /\ want[p] \in Step \ Ours /\ status[txn[p]] = "AVAILABLE"
          /\ armed' = (armed \/ txn[p] = Unbound)
          /\ GoTo(p, "leave")
       \/ /\ want[p] \in Ours /\ status[txn[p]] = "AVAILABLE"
          /\ GoTo(p, "mark") \/ GoTo(p, "leave")     \* inputs it still needs
          /\ UNCHANGED armed
    /\ UNCHANGED <<binding, records, status, runLock, txn, want, marked, msg, history>>

SetWorking(p, l) ==
    /\ marked' = [marked EXCEPT ![p] = @ \cup {l}]
    /\ status' = [status EXCEPT ![l] = "WORKING"]

Mark(p) ==
    /\ pc[p] = "mark"
    /\ SetWorking(p, txn[p])
    /\ GoTo(p, "prepare")
    /\ UNCHANGED <<binding, records, armed, runLock, txn, want, msg, history>>

\* Inputs, requirements, generate, overrides, validation, a dry run: any of
\* them may end the call here with nothing recorded.
Prepare(p) ==
    /\ pc[p] = "prepare"
    /\ \/ GoTo(p, "clear")
       \/ GoTo(p, IF txn[p] = Unbound THEN "mint" ELSE "append")
    /\ UNCHANGED <<stores, runLock, txn, want, marked, msg, history>>

\* Mutant: the binding is written before the record.
MintBindingFirst(p, t) ==
    /\ pc[p] = "mint" /\ IsFresh(t)
    /\ known' = known \cup {t}
    /\ txn' = [txn EXCEPT ![p] = t]
    /\ SetWorking(p, t)
    /\ GoTo(p, "bind")
    /\ UNCHANGED <<binding, records, armed, runLock, want, msg, wire, late, mishaps>>

\* An unbound run takes the id its payload names, marks it too and creates the
\* record; the binding is written after it.
Mint(p, t) ==
    /\ pc[p] = "mint" /\ IsFresh(t)
    /\ known' = known \cup {t}
    /\ txn' = [txn EXCEPT ![p] = t]
    /\ SetWorking(p, t)
    /\ GoTo(p, "create")
    /\ UNCHANGED <<binding, records, armed, runLock, want, msg, wire, late, mishaps>>

CreateOutbound(p) ==
    /\ pc[p] = "create"
    /\ records' = [records EXCEPT ![txn[p]] = NewRecord]
    /\ GoTo(p, "bind")
    /\ UNCHANGED <<binding, status, armed, runLock, txn, want, marked, msg, history>>

BindOutbound(p) ==
    /\ pc[p] = "bind"
    /\ binding' = txn[p]
    /\ GoTo(p, "append")
    /\ UNCHANGED <<records, status, armed, runLock, txn, want, marked, msg, history>>

\* The step is recorded before it is sent.
AppendOutbound(p) ==
    /\ pc[p] = "append"
    /\ Add(txn[p], [step |-> want[p], id |-> p, state |-> "in_flight"])
    /\ GoTo(p, "send")
    /\ UNCHANGED <<binding, status, armed, runLock, txn, want, marked, msg, history>>

\* Mutant: a send nobody answered counts as one that was not delivered.
SendUnsureDiscards(p) ==
    /\ pc[p] = "send"
    /\ \/ /\ wire' = wire \cup {[txn |-> txn[p], step |-> want[p], by |-> p]}
          /\ GoTo(p, "settle") \/ GoTo(p, "discard")
       \/ GoTo(p, "discard") /\ UNCHANGED wire
    /\ UNCHANGED <<stores, runLock, txn, want, marked, msg, known, late, mishaps>>

\* The participant answers; or got the payload, or may have, and no answer
\* came back; or was never reached.
Send(p) ==
    /\ pc[p] = "send"
    /\ \/ /\ wire' = wire \cup {[txn |-> txn[p], step |-> want[p], by |-> p]}
          /\ GoTo(p, "settle") \/ GoTo(p, "fail")
       \/ /\ GoTo(p, "fail") \/ GoTo(p, "discard")
          /\ UNCHANGED wire
    /\ UNCHANGED <<stores, runLock, txn, want, marked, msg, known, late, mishaps>>

\* settleApiEntry, on the record as it is by then.
SettleOutbound(p) ==
    /\ pc[p] \in {"settle", "fail"}
    /\ records' = [records EXCEPT ![txn[p]].entries =
         [i \in DOMAIN @ |-> IF @[i].id = p
            THEN [@[i] EXCEPT !.state = IF pc[p] = "settle" THEN "settled" ELSE "failed"]
            ELSE @[i]]]
    /\ GoTo(p, "clear")
    /\ UNCHANGED <<binding, status, armed, runLock, txn, want, marked, msg, history>>

\* Mutant: the entry is found by its step and not by its own number.
DiscardByStep(p) ==
    /\ pc[p] = "discard"
    /\ records' = [records EXCEPT ![txn[p]].entries = SelectSeq(@, LAMBDA e : e.step # want[p])]
    /\ GoTo(p, "clear")
    /\ UNCHANGED <<binding, status, armed, runLock, txn, want, marked, msg, history>>

\* The list without the entry p appended.
Without(entries, p) ==
    IF \E i \in DOMAIN entries : entries[i].id = p
    THEN RemoveAt(entries, CHOOSE i \in DOMAIN entries : entries[i].id = p)
    ELSE entries

\* discardApiEntry: the step is owed again.
DiscardOutbound(p) ==
    /\ pc[p] = "discard"
    /\ records' = [records EXCEPT ![txn[p]].entries = Without(@, p)]
    /\ GoTo(p, "clear")
    /\ UNCHANGED <<binding, status, armed, runLock, txn, want, marked, msg, history>>

\* Mutant: only the run's own marker is cleared.
ClearRunOnly(p) ==
    /\ pc[p] = "clear"
    /\ status' = [status EXCEPT ![Unbound] = "AVAILABLE"]
    /\ marked' = [marked EXCEPT ![p] = {}]
    /\ GoTo(p, "leave")
    /\ UNCHANGED <<binding, records, armed, runLock, txn, want, msg, history>>

\* finally: every lock id this dispatch marked, one by one.
Clear(p) ==
    /\ pc[p] = "clear"
    /\ IF marked[p] = {}
         THEN GoTo(p, "leave") /\ UNCHANGED <<status, marked>>
         ELSE \E l \in marked[p] :
                /\ status' = [status EXCEPT ![l] = "AVAILABLE"]
                /\ marked' = [marked EXCEPT ![p] = @ \ {l}]
                /\ UNCHANGED pc
    /\ UNCHANGED <<binding, records, armed, runLock, txn, want, msg, history>>

\* The call returns; the run lock, if it held it, goes to the next.
Leave(p) ==
    /\ pc[p] = "leave"
    /\ runLock' = IF runLock = p THEN Nobody ELSE runLock
    /\ GoTo(p, "done")
    /\ UNCHANGED <<stores, txn, want, marked, msg, history>>

\* What follows when a store operation rejects at a place (it may have taken
\* effect: that is a rejection at the place after it).  A dispatch throws
\* through its finally; an answer that cannot be recorded is recorded as failed.
AfterReject(p) ==
    CASE pc[p] \in {"prepare", "mint", "create", "bind", "append", "send", "fail", "discard"} -> "clear"
      [] pc[p] = "settle" -> "fail"
      [] OTHER -> "leave"

StoreFails(p) ==
    /\ pc[p] \notin {"idle", "leave", "done"}
    /\ mishaps < MaxMishaps /\ mishaps' = mishaps + 1
    /\ GoTo(p, AfterReject(p))
    /\ UNCHANGED <<stores, runLock, txn, want, marked, msg, known, wire, late>>

----------------------------------------------------------------------------
(* flow_start on an existing run: no lock. *)

StartRead(p) ==
    /\ pc[p] = "idle"
    /\ txn' = [txn EXCEPT ![p] = binding]
    /\ GoTo(p, "resave")
    /\ UNCHANGED <<stores, runLock, want, marked, msg, history>>

\* openBinding writes the binding it read back, with the caller's autoAdvance.
StartSave(p) ==
    /\ pc[p] = "resave"
    /\ binding' = txn[p]
    /\ GoTo(p, "describe")
    /\ UNCHANGED <<records, status, armed, runLock, txn, want, marked, msg, history>>

\* describeAndArm: a run that waits for the participant's first call listens.
Describe(p) ==
    /\ pc[p] = "describe"
    /\ armed' = (armed \/ (txn[p] = Unbound /\ 1 \notin Ours /\ status[Unbound] = "AVAILABLE"))
    /\ GoTo(p, "leave")
    /\ UNCHANGED <<binding, records, status, runLock, txn, want, marked, msg, history>>

----------------------------------------------------------------------------
(* flow_restart *)

\* Mutant: the attempt that is written off is not sealed.
RereadNoSeal(p) ==
    /\ pc[p] = "reread"
    /\ txn' = [txn EXCEPT ![p] = binding]
    /\ GoTo(p, "disarm")
    /\ UNCHANGED <<stores, runLock, want, marked, msg, history>>

Reread(p) ==
    /\ pc[p] = "reread"
    /\ txn' = [txn EXCEPT ![p] = binding]
    /\ GoTo(p, IF binding = Unbound THEN "disarm" ELSE "seal")
    /\ UNCHANGED <<stores, runLock, want, marked, msg, history>>

\* The calls by transaction t between their load of its record and their end.
UnderWayOn(t) ==
    {c \in ByTransaction : txn[c] = t /\ pc[c] \notin {"idle", "leave", "done"}}

\* abandonTransaction on the attempt that is written off.  It excludes nobody who
\* holds a copy of the record from before.
Seal(p) ==
    /\ pc[p] = "seal"
    /\ records' = [records EXCEPT ![txn[p]].abandoned = TRUE]
    /\ late' = IF records[txn[p]].abandoned THEN late ELSE late \cup UnderWayOn(txn[p])
    /\ GoTo(p, "disarm")
    /\ UNCHANGED <<binding, status, armed, runLock, txn, want, marked, msg, known, wire,
                   mishaps>>

\* clearExpectationsForFlow
Disarm(p) ==
    /\ pc[p] = "disarm"
    /\ armed' = FALSE
    /\ GoTo(p, "unmark")
    /\ UNCHANGED <<binding, records, status, runLock, txn, want, marked, msg, history>>

\* The run's own marker, which the next attempt inherits.
Unmark(p) ==
    /\ pc[p] = "unmark"
    /\ status' = [status EXCEPT ![Unbound] = "AVAILABLE"]
    /\ GoTo(p, "unbind")
    /\ UNCHANGED <<binding, records, armed, runLock, txn, want, marked, msg, history>>

Unbind(p) ==
    /\ pc[p] = "unbind"
    /\ binding' = Unbound
    /\ txn' = [txn EXCEPT ![p] = Unbound]
    /\ GoTo(p, "describe")
    /\ UNCHANGED <<records, status, armed, runLock, want, marked, msg, history>>

----------------------------------------------------------------------------
(* The participant's calls.  It answers on a transaction it has heard of; the *)
(* flow's first action, when that is its own, may name one of its choosing.   *)
(* A retry or duplicate is another delivery of the same message.              *)

Heard == {w.txn : w \in wire} \cup {txn[h] : h \in {g \in Inbound : msg[g] # Nobody}}

MayQuote(m, t) ==
    /\ t \in Heard \/ (ActionOf[m] = 1 /\ IsFresh(t))
    /\ \A g \in Inbound : msg[g] = m => txn[g] = t

\* resolve, first half: a record this endpoint knows.
Arrive(h, m, t) ==
    /\ pc[h] = "idle" /\ MayQuote(m, t)
    /\ msg' = [msg EXCEPT ![h] = m]
    /\ txn' = [txn EXCEPT ![h] = t]
    /\ known' = known \cup {t}
    /\ GoTo(h, IF ~records[t].exists THEN "consume"
               ELSE IF records[t].abandoned THEN "leave" ELSE "match")
    /\ UNCHANGED <<stores, runLock, want, marked, wire, late, mishaps>>

\* resolve, second half: the armed expectation is the permission to adopt.
Consume(h) ==
    /\ pc[h] = "consume"
    /\ IF armed /\ ActionOf[msg[h]] = 1
         THEN armed' = FALSE /\ GoTo(h, "adopt")
         ELSE UNCHANGED armed /\ GoTo(h, "leave")       \* 412
    /\ UNCHANGED <<binding, records, status, runLock, txn, want, marked, msg, history>>

\* adoptTransaction: createTransaction, then the binding.
Adopt(h) ==
    /\ pc[h] = "adopt"
    /\ records' = [records EXCEPT ![txn[h]] = NewRecord]
    /\ GoTo(h, "adoptbind")
    /\ UNCHANGED <<binding, status, armed, runLock, txn, want, marked, msg, history>>

AdoptBind(h) ==
    /\ pc[h] = "adoptbind"
    /\ binding' = txn[h]
    /\ GoTo(h, "match")
    /\ UNCHANGED <<records, status, armed, runLock, txn, want, marked, msg, history>>

\* matchStep on the map of the record as it is now, then the validators' verdict.
Match(h) ==
    /\ pc[h] = "match"
    /\ \/ NextStep(Entries(txn[h])) = ActionOf[msg[h]] /\ GoTo(h, "ack")
       \/ GoTo(h, "nack")
    /\ UNCHANGED <<stores, runLock, txn, want, marked, msg, history>>

\* Recorded whatever the verdict; what was refused is evidence.
RecordInbound(h) ==
    /\ pc[h] \in {"ack", "nack"}
    /\ Add(txn[h], [step |-> ActionOf[msg[h]], id |-> msg[h], state |-> pc[h]])
    /\ GoTo(h, IF pc[h] = "ack" THEN "disarmall" ELSE "leave")
    /\ UNCHANGED <<binding, status, armed, runLock, txn, want, marked, msg, history>>

\* clearExpectationsForSession
DisarmAll(h) ==
    /\ pc[h] = "disarmall"
    /\ armed' = FALSE
    /\ GoTo(h, "leave")
    /\ UNCHANGED <<binding, records, status, runLock, txn, want, marked, msg, history>>

----------------------------------------------------------------------------
\* The process dies: what it was doing is not continued, the stores persist.
Crash ==
    /\ mishaps < MaxMishaps /\ mishaps' = mishaps + 1
    /\ pc' = [p \in Proc |-> IF pc[p] = "idle" THEN "idle" ELSE "done"]
    /\ marked' = [p \in Proc |-> {}]
    /\ runLock' = Nobody
    /\ UNCHANGED <<stores, txn, want, msg, known, wire, late>>

\* Every step of a call once it is under way.
Continue(p) ==
    \/ LoadByFlow(p) \/ Select(p) \/ Mark(p) \/ Prepare(p)
    \/ \E t \in Txn : Mint(p, t)
    \/ CreateOutbound(p) \/ BindOutbound(p) \/ AppendOutbound(p)
    \/ Send(p) \/ SettleOutbound(p) \/ DiscardOutbound(p) \/ Clear(p)
    \/ StartSave(p) \/ Describe(p)
    \/ Reread(p) \/ Seal(p) \/ Disarm(p) \/ Unmark(p) \/ Unbind(p)
    \/ Consume(p) \/ Adopt(p) \/ AdoptBind(p)
    \/ Match(p) \/ RecordInbound(p) \/ DisarmAll(p)
    \/ Leave(p)

Next ==
    \/ \E p \in ByFlow \cup Restarts : EnterByFlow(p)
    \/ \E p \in ByTransaction, t \in Txn : LoadByTransaction(p, t)
    \/ \E p \in Starts : StartRead(p)
    \/ \E h \in Inbound, m \in Msg, t \in Txn : Arrive(h, m, t)
    \/ \E p \in Proc : Continue(p) \/ StoreFails(p)
    \/ Crash

Spec == Init /\ [][Next]_vars

----------------------------------------------------------------------------
\* A step of ours crosses the participant's wire at most once per transaction,
\* whatever fails or crashes around it and however calls interleave.
SentOnce ==
    \A v, w \in wire : v.txn = w.txn /\ v.step = w.step => v = w

\* The flow's first action goes out once per attempt: two transactions of the
\* run have both opened with it only if restart wrote one of them off.
FirstActionOnce ==
    \A v, w \in wire : v.step = 1 /\ w.step = 1 /\ v.txn # w.txn
        => records[v.txn].abandoned \/ records[w.txn].abandoned

\* What reached the participant is behind the cursor: no later read of the
\* record owes the step again, not even after an unrecorded answer or a crash.
SentIsRecorded ==
    \A w \in wire : NextStep(Entries(w.txn)) > w.step

\* A transaction with exchanges on it is the one the run is bound to, or one
\* that restart wrote off: none is owned by nobody.
NoOrphans ==
    \A t \in Txn : Entries(t) # <<>> => binding = t \/ records[t].abandoned

\* The binding names a record that exists, and one that is live except while
\* restart is replacing it (or failed to).
BindingIsLive ==
    binding # Unbound =>
        /\ records[binding].exists
        /\ records[binding].abandoned =>
             mishaps > 0 \/ \E p \in Restarts : pc[p] \in {"disarm", "unmark", "unbind"}

\* A WORKING marker belongs to a dispatch under way, unless a crash or a
\* rejected store operation left it.
MarkerHasOwner ==
    \A l \in DOMAIN status :
        status[l] = "WORKING" => mishaps > 0 \/ \E p \in Proceeds : l \in marked[p]

\* Once restart has sealed an attempt nothing more is sent on it, by a call of
\* either kind, except what a call by transaction had under way: one that read
\* the record before the seal and takes no lock a seal would wait for.
RestartIsQuiet ==
    [][\A w \in wire' \ wire : records[w.txn].abandoned => w.by \in late]_vars

\* "The seal is what stops the abandoned attempt being advanced"
\* (record.service.ts:660-663): nothing at all.  Not so: see FlowSealLate.cfg.
NothingAfterTheSeal ==
    [][\A w \in wire' \ wire : ~records[w.txn].abandoned]_vars

\* An exchange leaves the record only if it was ours and never crossed the wire.
EvidenceKept ==
    [][\A t \in Txn : \A e \in Range(Entries(t)) :
          \/ \E f \in Range(Entries(t)') : f.step = e.step /\ f.id = e.id
          \/ e.id \in Proceeds /\ \A w \in wire : w.by # e.id]_vars

\* A call that is ACKed and recorded as completing its step completes it: the
\* reduction of the record has the cursor past the step.
AckAdvances ==
    \A h \in Inbound : pc[h] = "disarmall" => NextStep(Entries(txn[h])) > ActionOf[msg[h]]
=============================================================================
