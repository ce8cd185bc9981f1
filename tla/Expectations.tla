---------------------------- MODULE Expectations ----------------------------
(***************************************************************************)
(* The expectations armed on one endpoint, which every session on a build  *)
(* shares: RecordService's bucket and its lock (record.service.ts), the    *)
(* receiver's attribution of a call to a run (receiver.attribute.ts), the  *)
(* refusal that puts an expectation back (receiver.refuse.ts), the ACK     *)
(* that clears a session's, and the runs that arm and restart (flow.turn,  *)
(* flow.restart, flow.identity).                                           *)
(*                                                                         *)
(* The bucket is one list: every operation on it loads it, drops what has  *)
(* expired and writes the rest back whole, under one lock per endpoint     *)
(* (the lock itself is module KeyLock).  A party is a request being        *)
(* served: an inbound call, or a tool call on a run.                       *)
(*                                                                         *)
(* Abstracted: an expectation's armedAt is its place in the order of       *)
(* arming; URLs match or not (the tier of a shared host is left out); a    *)
(* call's signature and its match against the flow are one verdict.        *)
(***************************************************************************)
EXTENDS Integers, FiniteSets

CONSTANTS
  Session, Flow,  \* sessions of the endpoint and their runs
  SessionOf,      \* the session of each run
  Action,         \* actions a participant may send
  Txn, None,      \* transaction ids, and no id
  Party,          \* requests served at a time
  MaxArms,        \* bound: expectations armed in a behaviour
  MaxJobs         \* bound: requests in a behaviour

ASSUME SessionAssumption == SessionOf \in [Flow -> Session]
ASSUME ArmsAssumption == MaxArms \in Nat /\ MaxJobs \in Nat
ASSUME NoneAssumption == None \notin Txn \cup Flow \cup Session \cup Party

Id == 1..MaxArms

VARIABLES
  bucket,    \* the stored expectations
  lapsed,    \* those whose expireAt has passed, by id
  armed,     \* expectations armed so far: the clock of armedAt
  holder,    \* the party that holds the endpoint's lock, or None
  copy,      \* the list each party loaded, without what had expired
  pc,        \* where each party is
  job,       \* what it serves
  won,       \* the expectation a call consumed
  bound,     \* each run's transaction id, or None
  records,   \* for each transaction id, the runs with a record under it
  alive,     \* sessions that have not expired
  admitted,  \* how often each expectation let a call in
  jobs       \* requests so far, for the bound

runs == <<bound, records>>
list == <<bucket, armed, admitted>>
vars == <<bucket, lapsed, armed, holder, copy, pc, job, won, runs, alive, admitted, jobs>>

NoEntry == [id |-> 0, session |-> None, flow |-> None, action |-> None, txn |-> None]
NoJob == [kind |-> "none"]

Init ==
  /\ bucket = {} /\ lapsed = {} /\ armed = 0 /\ holder = None
  /\ copy = [p \in Party |-> {}]
  /\ pc = [p \in Party |-> "idle"]
  /\ job = [p \in Party |-> NoJob]
  /\ won = [p \in Party |-> NoEntry]
  /\ bound = [f \in Flow |-> None]
  /\ records = [x \in Txn |-> {}]
  /\ alive = Session
  /\ admitted = [i \in Id |-> 0]
  /\ jobs = 0

Goto(p, label) == pc' = [pc EXCEPT ![p] = label]

\* The request is answered.
Answered(p) ==
  /\ Goto(p, "idle")
  /\ job' = [job EXCEPT ![p] = NoJob]
  /\ won' = [won EXCEPT ![p] = NoEntry]
  /\ copy' = [copy EXCEPT ![p] = {}]

\* A request comes in.
Begin(p, j, label) ==
  /\ pc[p] = "idle" /\ jobs < MaxJobs
  /\ jobs' = jobs + 1
  /\ job' = [job EXCEPT ![p] = j]
  /\ Goto(p, label)
  /\ UNCHANGED <<bucket, lapsed, armed, holder, copy, won, runs, alive, admitted>>

-----------------------------------------------------------------------------
\* A run whose next step is the participant's arms it: the id it quotes is the
\* binding its runtime was loaded with.
Arm(p, f, a) ==
  /\ SessionOf[f] \in alive
  /\ Begin(p, [kind |-> "arm", flow |-> f, action |-> a, txn |-> bound[f]], "waiting")

\* flow_restart disarms the run ...
Restart(p, f) ==
  /\ SessionOf[f] \in alive
  /\ Begin(p, [kind |-> "clear_flow", flow |-> f], "waiting")

\* ... frees it of its transaction, and arms its first step if that is the
\* participant's.
Unbind(p) ==
  /\ pc[p] = "cleared" /\ job[p].kind = "clear_flow"
  /\ bound' = [bound EXCEPT ![job[p].flow] = None]
  /\ \/ /\ Answered(p)
     \/ \E a \in Action :
          /\ job' = [job EXCEPT ![p] =
                       [kind |-> "arm", flow |-> job[p].flow, action |-> a, txn |-> None]]
          /\ Goto(p, "waiting")
          /\ UNCHANGED <<won, copy>>
  /\ UNCHANGED <<bucket, lapsed, armed, holder, records, alive, admitted, jobs>>

\* A run's own first action fixes its transaction (bindOutbound).
Mint(f, x) ==
  /\ SessionOf[f] \in alive /\ bound[f] = None /\ records[x] = {}
  /\ bound' = [bound EXCEPT ![f] = x]
  /\ records' = [records EXCEPT ![x] = {f}]
  /\ UNCHANGED <<bucket, lapsed, armed, holder, copy, pc, job, won, alive, admitted, jobs>>

\* A call comes in, advertising the URL of some session or another one.
Call(p, a, x, u) ==
  Begin(p, [kind |-> "call", action |-> a, txn |-> x, url |-> u], "locating")

\* Its transaction is known on this endpoint, to a session still there ...
Known(p) ==
  /\ pc[p] = "locating"
  /\ \E f \in records[job[p].txn] :
       /\ SessionOf[f] \in alive
       /\ won' = [won EXCEPT ![p] = [NoEntry EXCEPT !.flow = f, !.session = SessionOf[f]]]
  /\ Goto(p, "attributed")
  /\ UNCHANGED <<list, lapsed, holder, copy, job, runs, alive, jobs>>

\* ... or the call must be one somebody is armed for.
Unknown(p) ==
  /\ pc[p] = "locating"
  /\ \A f \in records[job[p].txn] : SessionOf[f] \notin alive
  /\ Goto(p, "waiting")
  /\ UNCHANGED <<list, lapsed, holder, copy, job, won, runs, alive, jobs>>

-----------------------------------------------------------------------------
\* Mutant: the bucket is loaded and saved with no lock.
NoLock == TRUE

\* #withExpectationLock.
Free == holder = None

\* pruneExpired over the loaded list.
Live == {e \in bucket : e.id \notin lapsed}

\* The lock is taken and the list loaded.
Load(p) ==
  /\ pc[p] = "waiting" /\ Free
  /\ holder' = p
  /\ copy' = [copy EXCEPT ![p] = Live]
  /\ Goto(p, "holding")
  /\ UNCHANGED <<list, lapsed, job, won, runs, alive, jobs>>

\* Mutant: one expectation per action, whichever session it is for.
OneForAll(entries, s, a) == {e \in entries : e.action # a}

\* armExpectation replaces what the session had armed for the action.
Others(entries, s, a) == {e \in entries : ~(e.session = s /\ e.action = a)}

\* The save of armExpectation, for a run or for an expectation put back.
ArmedFor(p, f, a, x) ==
  /\ armed < MaxArms
  /\ armed' = armed + 1
  /\ bucket' = Others(copy[p], SessionOf[f], a) \cup
       {[id |-> armed + 1, session |-> SessionOf[f], flow |-> f, action |-> a, txn |-> x]}
  /\ UNCHANGED admitted

Unlock(p) == holder' = IF holder = p THEN None ELSE holder

SaveArmed(p) ==
  /\ pc[p] = "holding" /\ job[p].kind = "arm"
  /\ ArmedFor(p, job[p].flow, job[p].action, job[p].txn)
  /\ Unlock(p) /\ Answered(p)
  /\ UNCHANGED <<lapsed, runs, alive, jobs>>

\* clearExpectationsForFlow, clearExpectationsForSession.
Disarmed(p) ==
  {e \in copy[p] : IF job[p].kind = "clear_flow"
                   THEN e.flow # job[p].flow
                   ELSE e.session # won[p].session}

SaveCleared(p) ==
  /\ pc[p] = "holding" /\ job[p].kind \in {"clear_flow", "ack"}
  /\ bucket' = Disarmed(p)
  /\ Unlock(p)
  /\ IF job[p].kind = "ack"
     THEN Answered(p)
     ELSE Goto(p, "cleared") /\ UNCHANGED <<job, won, copy>>
  /\ UNCHANGED <<lapsed, armed, admitted, runs, alive, jobs>>

\* rankExpectations: the transaction the call quotes, then the URL it advertises.
Tier(e, call) ==
  IF e.txn # None /\ e.txn = call.txn THEN 0 ELSE IF e.session = call.url THEN 1 ELSE 3

\* The first in that order, oldest armed first, of those armed for the action;
\* NoEntry when there is none.
Winners(entries, call) ==
  LET candidates == {e \in entries : e.action = call.action}
      first == {e \in candidates : \A d \in candidates :
                  \/ Tier(e, call) < Tier(d, call)
                  \/ Tier(e, call) = Tier(d, call) /\ e.id <= d.id}
  IN  IF first = {} THEN {NoEntry} ELSE first

\* Mutant: the expectation a call takes stays armed.
LeaveArmed(entries, e) == entries

Without(entries, e) == entries \ {e}

\* Where a call that took e goes next.
Attributed(e, call) ==
  IF e = NoEntry \/ e.session \notin alive THEN "refused"
  ELSE IF e.txn \in {None, call.txn} THEN "adopting" ELSE "mismatch"

\* The save of consumeExpectation.
SaveConsumed(p) ==
  /\ pc[p] = "holding" /\ job[p].kind = "call"
  /\ \E e \in Winners(copy[p], job[p]) :
       /\ bucket' = Without(copy[p], e)
       /\ won' = [won EXCEPT ![p] = e]
       /\ admitted' = IF Attributed(e, job[p]) = "adopting"
                      THEN [admitted EXCEPT ![e.id] = @ + 1] ELSE admitted
       /\ Goto(p, Attributed(e, job[p]))
  /\ Unlock(p)
  /\ UNCHANGED <<lapsed, armed, copy, job, runs, alive, jobs>>

-----------------------------------------------------------------------------
\* NO_EXPECTATION, WRONG_ENDPOINT or SESSION_EXPIRED: an expectation of a session
\* that is gone is lost with it.
Refuse(p) ==
  /\ pc[p] = "refused"
  /\ Answered(p)
  /\ UNCHANGED <<list, lapsed, holder, runs, alive, jobs>>

\* refuseMismatch puts the expectation back, newly armed.
PutBack(p) ==
  /\ pc[p] = "mismatch"
  /\ job' = [job EXCEPT ![p] = [kind |-> "arm", flow |-> won[p].flow,
                                action |-> won[p].action, txn |-> won[p].txn]]
  /\ Goto(p, "waiting")
  /\ UNCHANGED <<list, lapsed, holder, copy, won, runs, alive, jobs>>

\* adoptTransaction opens the record ...
Adopt(p) ==
  /\ pc[p] = "adopting"
  /\ records' = [records EXCEPT ![job[p].txn] = @ \cup {won[p].flow}]
  /\ Goto(p, "binding")
  /\ UNCHANGED <<list, lapsed, holder, copy, job, won, bound, alive, jobs>>

\* ... and binds the run to it.
Bind(p) ==
  /\ pc[p] = "binding"
  /\ bound' = [bound EXCEPT ![won[p].flow] = job[p].txn]
  /\ Goto(p, "attributed")
  /\ UNCHANGED <<list, lapsed, holder, copy, job, won, records, alive, jobs>>

\* The call is refused on the run it belongs to (its signature, or out of
\* sequence): nothing is disarmed.
Nack(p) ==
  /\ pc[p] = "attributed"
  /\ Answered(p)
  /\ UNCHANGED <<list, lapsed, holder, runs, alive, jobs>>

\* An ACK clears what the session has armed on this endpoint.
Ack(p) ==
  /\ pc[p] = "attributed"
  /\ job' = [job EXCEPT ![p] = [kind |-> "ack"]]
  /\ Goto(p, "waiting")
  /\ UNCHANGED <<list, lapsed, holder, copy, won, runs, alive, jobs>>

\* Time passes: an expectation's window, or a session, runs out.
Lapse(e) ==
  /\ e.id \notin lapsed
  /\ lapsed' = lapsed \cup {e.id}
  /\ UNCHANGED <<list, holder, copy, pc, job, won, runs, alive, jobs>>

SessionExpires(s) ==
  /\ s \in alive
  /\ alive' = alive \ {s}
  /\ UNCHANGED <<list, lapsed, holder, copy, pc, job, won, runs, jobs>>

Next ==
  \/ \E p \in Party :
       \/ \E f \in Flow : Restart(p, f) \/ \E a \in Action : Arm(p, f, a)
       \/ \E a \in Action, x \in Txn, u \in Session \cup {None} : Call(p, a, x, u)
       \/ Known(p) \/ Unknown(p) \/ Load(p)
       \/ SaveArmed(p) \/ SaveCleared(p) \/ SaveConsumed(p)
       \/ Unbind(p) \/ Refuse(p) \/ PutBack(p) \/ Adopt(p) \/ Bind(p) \/ Nack(p) \/ Ack(p)
  \/ \E f \in Flow, x \in Txn : Mint(f, x)
  \/ \E e \in bucket : Lapse(e)
  \/ \E s \in Session : SessionExpires(s)

Spec == Init /\ [][Next]_vars

-----------------------------------------------------------------------------
\* A stored expectation.
Entry == [id : Id, session : Session, flow : Flow, action : Action, txn : Txn \cup {None}]

\* Whose save may take e out of the bucket: one for its own session's arming,
\* restart or ACK, or the call that takes e itself.
Answerable(p, e) ==
  \/ job[p].kind \in {"arm", "clear_flow"} /\ e.session = SessionOf[job[p].flow]
  \/ job[p].kind = "ack" /\ e.session = won[p].session
  \/ job[p].kind = "call" /\ won'[p] = e

\* The sessions on an endpoint do not disarm each other: whatever loads and saves of
\* the one list run side by side, an expectation that has not expired goes only by
\* its own session's doing or by the one call it lets in (record.service.ts:
\* 1020-1178; the lock is the only thing between two whole-list writes).
OnlyTheirOwn ==
  [][\A e \in bucket \ bucket' :
       e.id \in lapsed \/ \E p \in Party : pc[p] = "holding" /\ pc'[p] # "holding"
                                           /\ Answerable(p, e)]_vars

\* "The standing permission to create one" (receiver.attribute.ts:59-61): an armed
\* expectation opens a transaction at most once, whatever is saved from an older
\* copy of the list after it was consumed.
AdmitsOnce == \A i \in Id : admitted[i] <= 1

\* "Taking down a sibling's expectation would leave it waiting for a callback this
\* endpoint has quietly stopped accepting" (record.service.ts:1151-1152): a run's
\* disarming, and the ACK of a call to it, takes no other run's expectation.
SiblingsStayArmed ==
  [][\A e \in bucket \ bucket', p \in Party :
       pc[p] = "holding" /\ pc'[p] # "holding" /\ e.id \notin lapsed =>
         /\ job[p].kind = "ack" => e.flow = won[p].flow
         /\ job[p].kind = "clear_flow" => e.flow = job[p].flow]_vars
=============================================================================
