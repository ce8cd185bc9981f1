------------------------------ MODULE Incidents ------------------------------
(***************************************************************************)
(* The incident corpus of one session (src/modules/feedback/               *)
(* feedback.service.ts and feedback.repository.ts): capture of a failure,  *)
(* deduplicated by signature; resolution by what the run did next; the     *)
(* model's narration; the report each incident ships, and the drain that   *)
(* reports at shutdown what never resolved.                                *)
(*                                                                         *)
(* Captures and resolutions are promises nobody awaits but drain; captures *)
(* of one signature take turns (#withLock), while resolutions, narrations, *)
(* flushes and the drain save the incident they read earlier without it.   *)
(* Every await on the store, the sink or the journal is a step.            *)
(*                                                                         *)
(* Abstracted: an incident is its state, whether it was reported           *)
(* (flushed_at) and whether it holds an account; `list` reads the index    *)
(* and the bodies of a session in one step, as `save` writes them; neither *)
(* expires before the session does; the sink (feedback.sink.ts) takes      *)
(* every report, and a flush can fail only before it (#renderReport reads  *)
(* the store).                                                             *)
(***************************************************************************)
EXTENDS Integers, Sequences, FiniteSets

CONSTANTS
  Signature,      \* signatureOf: trigger, step or tool, code
  Recoverable,    \* those whose trigger is in STEP_RECOVERABLE
  Task,           \* promises in flight; an identity is used again when its work ends
  Drainer,        \* the call of drain
  StateSurvives,  \* stateSurvivesShutdown: REDIS_URL is set
  IndexLimit,     \* INCIDENT_INDEX_LIMIT: the signatures a session's index holds
  MaxCaptures,    \* bound: failures captured in a behaviour
  MaxEvents,      \* bound: successes and narrations
  MaxFaults       \* bound: flushes that fail

ASSUME RecoverableAssumption == Recoverable \subseteq Signature
ASSUME DrainerAssumption == Drainer \notin Task
ASSUME SurvivesAssumption == StateSurvives \in BOOLEAN
ASSUME IndexLimitAssumption == IndexLimit \in Nat \ {0}

Worker == Task \cup {Drainer}

State == {"OPEN", "RECOVERED", "UNRESOLVED"}
Incident == [state : State, flushed : BOOLEAN, narrated : BOOLEAN]
NoIncident == [state |-> "none", flushed |-> FALSE, narrated |-> FALSE]
NoSignature == "no signature"

VARIABLES
  incident,   \* the store: the body kept for each signature
  index,      \* the session's index: signatures, oldest first
  nudged,     \* ISSUE_OPEN lines journaled for each signature
  reports,    \* reports delivered for each signature
  locks,      \* #locks: for each signature, the captures in turn
  pc,         \* where each promise is; "idle" when there is none
  sig,        \* the signature it is working on
  base,       \* the body it read and works from
  todo,       \* bodies a resolution or the drain has still to go through
  inFlight,  \* #inFlight: promises drain waits for
  awaited,    \* those it found when it began
  due,        \* signatures captured, or being captured, when it began
  unlisted,   \* those of them the index had dropped when it listed
  gaveUp,     \* signatures whose flush failed in the drain itself
  captures, events, faults  \* counted for the bounds

work == <<pc, sig, base, todo>>
kept == <<due, unlisted, gaveUp>>
drain == <<awaited, kept>>
counters == <<captures, events, faults>>
store == <<incident, index>>
incidentVars == <<store, nudged, reports, locks, work, inFlight, drain, counters>>

IncidentsInit ==
  /\ incident = [s \in Signature |-> NoIncident] /\ index = <<>>
  /\ nudged = [s \in Signature |-> 0]
  /\ reports = [s \in Signature |-> 0]
  /\ locks = [s \in Signature |-> <<>>]
  /\ pc = [w \in Worker |-> "idle"]
  /\ sig = [w \in Worker |-> NoSignature]
  /\ base = [w \in Worker |-> NoIncident]
  /\ todo = [w \in Worker |-> {}]
  /\ inFlight = {} /\ awaited = {} /\ due = {} /\ unlisted = {} /\ gaveUp = {}
  /\ captures = 0 /\ events = 0 /\ faults = 0

Goto(w, label) == pc' = [pc EXCEPT ![w] = label]

\* The promise is over.
Over(w) ==
  /\ Goto(w, "idle")
  /\ sig' = [sig EXCEPT ![w] = NoSignature]
  /\ base' = [base EXCEPT ![w] = NoIncident]
  /\ inFlight' = inFlight \ {w}
  /\ awaited' = awaited \ {w}

Stored(s) == incident[s] # NoIncident
InIndex(s) == \E i \in DOMAIN index : index[i] = s

\* listAppend keeps the newest: past the limit the oldest signature is dropped.
Capped(q) == IF Len(q) > IndexLimit THEN Tail(q) ELSE q

\* A signature is appended to the index at its first save only: one that was dropped
\* keeps its body and is never listed again.
Save(s, body) ==
  /\ incident' = [incident EXCEPT ![s] = body]
  /\ index' = IF Stored(s) THEN index ELSE Capped(Append(index, s))

Dropped == {s \in Signature : Stored(s) /\ ~InIndex(s)}

\* The process goes on until the drain is over.
Running == pc[Drainer] # "drained"

-----------------------------------------------------------------------------
\* A tap saw a failure (onSessionEvent, noteOutcome, noteError): a capture is
\* scheduled.
Fail(t, s) ==
  /\ Running /\ pc[t] = "idle" /\ captures < MaxCaptures
  /\ captures' = captures + 1
  /\ Goto(t, "counting")
  /\ sig' = [sig EXCEPT ![t] = s]
  /\ inFlight' = inFlight \cup {t}
  /\ UNCHANGED <<store, nudged, reports, locks, base, todo, drain, events, faults>>

\* #note counts the sighting, then takes its turn.
Count(t) ==
  /\ pc[t] = "counting"
  /\ Goto(t, "queued")
  /\ locks' = [locks EXCEPT ![sig[t]] = Append(@, t)]
  /\ UNCHANGED <<store, nudged, reports, sig, base, todo, inFlight, drain, counters>>

\* Mutant: the capture does not wait for those before it.
HasTurnAtOnce(t) == TRUE

\* #withLock: the work runs when the previous one has settled.
HasTurn(t) == Head(locks[sig[t]]) = t

\* In its turn it reads what is kept for the signature.
Find(t) ==
  /\ pc[t] = "queued" /\ HasTurn(t)
  /\ base' = [base EXCEPT ![t] = incident[sig[t]]]
  /\ Goto(t, "found")
  /\ UNCHANGED <<store, nudged, reports, locks, sig, todo, inFlight, drain, counters>>

\* A repeat re-opens a resolution reached prematurely.
Reopened(body) ==
  IF body.state = "RECOVERED" THEN [body EXCEPT !.state = "OPEN"] ELSE body

Release(t) == locks' = [locks EXCEPT ![sig[t]] = Tail(@)]

\* Another sighting is merged into the body, and the turn ends.
Merge(t) ==
  /\ pc[t] = "found" /\ base[t] # NoIncident
  /\ Save(sig[t], Reopened(base[t]))
  /\ Release(t) /\ Over(t)
  /\ UNCHANGED <<nudged, reports, todo, kept, counters>>

\* The first one opens the incident ...
Open(t) ==
  /\ pc[t] = "found" /\ base[t] = NoIncident
  /\ Save(sig[t], [state |-> "OPEN", flushed |-> FALSE, narrated |-> FALSE])
  /\ Goto(t, "opened")
  /\ UNCHANGED <<nudged, reports, locks, sig, base, todo, inFlight, drain, counters>>

\* ... and journals the line that asks for a report.
Nudge(t) ==
  /\ pc[t] = "opened"
  /\ nudged' = [nudged EXCEPT ![sig[t]] = @ + 1]
  /\ Release(t) /\ Over(t)
  /\ UNCHANGED <<store, reports, todo, kept, counters>>

-----------------------------------------------------------------------------
\* A tap saw a success: an action's (INBOUND_ACK, an acked send) or the whole
\* flow's (FLOW_COMPLETE).  A resolution is scheduled.
Succeed(t, scope) ==
  /\ Running /\ pc[t] = "idle" /\ events < MaxEvents
  /\ events' = events + 1
  /\ Goto(t, scope)
  /\ inFlight' = inFlight \cup {t}
  /\ UNCHANGED <<store, nudged, reports, locks, sig, base, todo, drain, captures, faults>>

\* The open incidents the success is about.
Resolvable(scope) ==
  {s \in Signature : incident[s].state = "OPEN" /\ (scope = "flow" \/ s \in Recoverable)}

\* list: the bodies of those S asks for that the index holds, each with its
\* signature.
Bodies(S) == {[s |-> s, body |-> incident[s]] : s \in {r \in S : InIndex(r)}}

\* #resolveFrom lists the open incidents.
ListOpen(t) ==
  /\ pc[t] \in {"action", "flow"}
  /\ todo' = [todo EXCEPT ![t] = Bodies(Resolvable(pc[t]))]
  /\ Goto(t, "resolving")
  /\ UNCHANGED <<store, nudged, reports, locks, sig, base, inFlight, drain, counters>>

\* It takes the next of them, saves it recovered and goes on to flush it.
Resolve(t) ==
  /\ pc[t] = "resolving"
  /\ \E item \in todo[t] :
       LET recovered == [item.body EXCEPT !.state = "RECOVERED"]
       IN  /\ Save(item.s, recovered)
           /\ sig' = [sig EXCEPT ![t] = item.s]
           /\ base' = [base EXCEPT ![t] = recovered]
           /\ todo' = [todo EXCEPT ![t] = @ \ {item}]
  /\ Goto(t, "flushing")
  /\ UNCHANGED <<nudged, reports, locks, inFlight, drain, counters>>

\* There is none left.
Resolved(t) ==
  /\ pc[t] = "resolving" /\ todo[t] = {}
  /\ Over(t)
  /\ UNCHANGED <<store, nudged, reports, locks, todo, kept, counters>>

\* feedback_submit_report: narrate finds the incident in the list.  The tool call
\* awaits it and nothing else does.
Narrate(t, s) ==
  /\ Running /\ pc[t] = "idle" /\ events < MaxEvents
  /\ Stored(s) /\ InIndex(s)
  /\ events' = events + 1
  /\ sig' = [sig EXCEPT ![t] = s]
  /\ base' = [base EXCEPT ![t] = incident[s]]
  /\ Goto(t, "narrating")
  /\ UNCHANGED <<store, nudged, reports, locks, todo, inFlight, drain, captures, faults>>

\* It saves the account, with flushed_at cleared, and goes on to flush it.
Account(t) ==
  /\ pc[t] = "narrating"
  /\ LET updated == [base[t] EXCEPT !.narrated = TRUE, !.flushed = FALSE]
     IN  Save(sig[t], updated) /\ base' = [base EXCEPT ![t] = updated]
  /\ Goto(t, "flushing")
  /\ UNCHANGED <<nudged, reports, locks, sig, todo, inFlight, drain, counters>>

-----------------------------------------------------------------------------
\* After a flush a resolution or the drain turns to the next incident; a narration
\* is over.
Proceed(w) ==
  IF w \in inFlight \cup {Drainer}
  THEN Goto(w, "resolving") /\ UNCHANGED <<sig, base, inFlight, awaited>>
  ELSE Over(w)

\* #flush: what was reported already is not reported again.
SkipFlush(w) ==
  /\ pc[w] = "flushing" /\ base[w].flushed
  /\ Proceed(w)
  /\ UNCHANGED <<store, nudged, reports, locks, todo, kept, counters>>

\* The report cannot be put together: the incident stays as it is.
FlushFails(w) ==
  /\ pc[w] = "flushing" /\ ~base[w].flushed /\ faults < MaxFaults
  /\ faults' = faults + 1
  /\ gaveUp' = IF w = Drainer THEN gaveUp \cup {sig[w]} ELSE gaveUp
  /\ Proceed(w)
  /\ UNCHANGED <<store, nudged, reports, locks, todo, due, unlisted, captures, events>>

\* The sink takes the report ...
Deliver(w) ==
  /\ pc[w] = "flushing" /\ ~base[w].flushed
  /\ reports' = [reports EXCEPT ![sig[w]] = @ + 1]
  /\ Goto(w, "delivered")
  /\ UNCHANGED <<store, nudged, locks, sig, base, todo, inFlight, drain, counters>>

\* ... and the incident is saved with flushed_at.
MarkFlushed(w) ==
  /\ pc[w] = "delivered"
  /\ Save(sig[w], [base[w] EXCEPT !.flushed = TRUE])
  /\ Proceed(w)
  /\ UNCHANGED <<nudged, reports, locks, todo, kept, counters>>

-----------------------------------------------------------------------------
\* drain: settled() waits for the promises it finds.
StartDrain ==
  /\ pc[Drainer] = "idle"
  /\ Goto(Drainer, "settling")
  /\ awaited' = inFlight
  /\ due' = {s \in Signature : Stored(s)} \cup {sig[t] : t \in {u \in inFlight :
                pc[u] \in {"counting", "queued", "found", "opened"}}}
  /\ UNCHANGED <<store, nudged, reports, locks, sig, base, todo, inFlight, unlisted,
                 gaveUp, counters>>

\* Mutant: the drain does not wait for what is being captured.
SettledAtOnce == TRUE

SettledAll == awaited = {}

\* Mutant: only what never resolved is reported.
UnreportedOpen ==
  {s \in Signature : incident[s].state = "OPEN" /\ ~incident[s].flushed /\ ~StateSurvives}

\* What the drain reports: all that was not, but an open one the store will keep.
Unreported ==
  {s \in Signature : /\ Stored(s) /\ ~incident[s].flushed
                     /\ ~(incident[s].state = "OPEN" /\ StateSurvives)}

DrainLists ==
  /\ pc[Drainer] = "settling" /\ SettledAll
  /\ todo' = [todo EXCEPT ![Drainer] = Bodies(Unreported)]
  /\ unlisted' = due \cap Dropped
  /\ Goto(Drainer, "resolving")
  /\ UNCHANGED <<store, nudged, reports, locks, sig, base, inFlight, awaited, due, gaveUp,
                 counters>>

\* The verdict on what never resolved.
Verdict(body) ==
  IF body.state = "OPEN" THEN [body EXCEPT !.state = "UNRESOLVED"] ELSE body

\* The next incident: its verdict is saved when it is one, and it is flushed.
DrainNext ==
  /\ pc[Drainer] = "resolving"
  /\ \E item \in todo[Drainer] :
       LET judged == Verdict(item.body)
       IN  /\ IF judged # item.body THEN Save(item.s, judged) ELSE UNCHANGED store
           /\ sig' = [sig EXCEPT ![Drainer] = item.s]
           /\ base' = [base EXCEPT ![Drainer] = judged]
           /\ todo' = [todo EXCEPT ![Drainer] = @ \ {item}]
  /\ Goto(Drainer, "flushing")
  /\ UNCHANGED <<nudged, reports, locks, inFlight, drain, counters>>

Drained ==
  /\ pc[Drainer] = "resolving" /\ todo[Drainer] = {}
  /\ Goto(Drainer, "drained")
  /\ UNCHANGED <<store, nudged, reports, locks, sig, base, todo, inFlight, drain, counters>>

IncidentsNext ==
  \/ \E t \in Task :
        \/ \E s \in Signature : Fail(t, s) \/ Narrate(t, s)
        \/ \E scope \in {"action", "flow"} : Succeed(t, scope)
        \/ Count(t) \/ Find(t) \/ Merge(t) \/ Open(t) \/ Nudge(t)
        \/ ListOpen(t) \/ Resolve(t) \/ Resolved(t) \/ Account(t)
  \/ \E w \in Worker : SkipFlush(w) \/ FlushFails(w) \/ Deliver(w) \/ MarkFlushed(w)
  \/ StartDrain \/ DrainLists \/ DrainNext \/ Drained

IncidentsSpec == IncidentsInit /\ [][IncidentsNext]_incidentVars

-----------------------------------------------------------------------------
\* A failure the model retries is asked about once (feedback.service.ts:629-631):
\* however many captures of one signature run side by side, with resolutions and
\* narrations between them, one incident is opened and one ISSUE_OPEN journaled.
AskedOnce == \A s \in Signature :
  nudged[s] + Cardinality({t \in Task : pc[t] = "opened" /\ sig[t] = s}) <= 1

\* "Reports every time", not "whenever the model remembered"
\* (feedback.service.ts:881-886): once the drain is over, every incident captured
\* or being captured when it began has been reported, whatever flush failed before
\* and whatever was re-opened, unless the drain's own report of it failed or the
\* index had dropped its signature for newer ones when the drain listed.  The store
\* must not outlive the process: there an open incident is put off.
EveryIncidentShips ==
  pc[Drainer] = "drained" /\ ~StateSurvives =>
    \A s \in due \ (gaveUp \cup unlisted) : reports[s] >= 1

\* The same without the index's limit: "An incident nobody narrated still ships"
\* (feedback.service.ts:884-885).  A session of more failures than the index holds
\* ends with the oldest kept in the store and never reported.
NoIncidentIsDropped ==
  pc[Drainer] = "drained" /\ ~StateSurvives => \A s \in due \ gaveUp : reports[s] >= 1

\* The report is handed "to the sink, exactly once", though "a FLOW_COMPLETE after an
\* INBOUND_ACK both resolve it" (feedback.service.ts:664-668): of two resolutions
\* under way, one at most has handed an incident over.
ShipsOnce ==
  \A t, u \in Task \cap inFlight :
    pc[t] = "delivered" /\ pc[u] = "delivered" /\ sig[t] = sig[u] => t = u

\* drain is to "report what never resolved" (feedback.service.ts:879): what is open
\* when it lists the incidents is on its list, unless the model's account of it was
\* reported already.  The store must not outlive the process.
OpenIsReported ==
  [][pc[Drainer] = "settling" /\ pc'[Drainer] = "resolving" /\ ~StateSurvives =>
       \A s \in Signature \ Dropped : incident[s].state = "OPEN" /\ ~incident[s].narrated =>
         \E item \in todo'[Drainer] : item.s = s]_incidentVars
=============================================================================
