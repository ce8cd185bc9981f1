------------------------------- MODULE Turns -------------------------------
(***************************************************************************)
(* A run under way: what the flow engine derives from the record (FlowMap) *)
(* between calls of flow_proceed, the participant's calls, and submissions *)
(* of forms.                                                               *)
(*                                                                         *)
(* Nobody keeps the map.  Every call reads the record, derives the map,    *)
(* decides, and acts some awaits later on a run that others have moved in  *)
(* the meantime.  The line moves too: a step's saveData may rewrite the    *)
(* run's MORE_SEQUENCE.  The run is bound; FlowRun has how it came to be   *)
(* and the locks.  Which message id a payload carries is up to the         *)
(* config's generate; a request gets one of its own.                       *)
(***************************************************************************)
EXTENDS FlowMap, SequencesExt

CONSTANTS
    Saves,          \* what a step's saveData may leave as MORE_SEQUENCE, {}: untouched
    MaxTurns,       \* bound: flow_proceed calls under way together
    MaxCalls,       \* bound: inbound calls under way together
    NoKey,          \* no step: the marker of the line, an idle call's
    MaxId,          \* bound: message ids and submission ids handed out
    MaxAsides,      \* bound: extras triggered and calls nobody waits for
    MaxFaults       \* bound: sends that do not cross, replies under a wrong id

ASSUME TurnsAssumption ==
    /\ MaxId \in Nat /\ Id = 1..MaxId
    /\ Saves \in [Key -> SUBSET MoreSequences]

Turn == 1..MaxTurns
Call == 1..MaxCalls

VARIABLES
    apiList,    \* the record's exchanges, in seq order
    flowSequence,   \* the line: flow.sequence and the data's MORE_SEQUENCE
    mapped,     \* what a read of the two derives now
    working,    \* the flow status markers that read WORKING
    turn,       \* turn[t]: a flow_proceed, and a chained one
    call,       \* call[c]: a call at the receiver
    used,       \* ids handed out
    asides, faults

turnsVars == <<apiList, flowSequence, mapped, working, turn, call, used, asides, faults>>

IdleTurn == [pc |-> "idle", x |-> [type |-> NoKey, id |-> 0], key |-> NoKey]
IdleCall == IdleTurn

\* Calls are alike: the first that is free takes what comes.
Free(calls, i) == calls[i].pc = "idle" /\ \A j \in 1..(i - 1) : calls[j].pc # "idle"

TurnsInit ==
    /\ apiList = <<>> /\ flowSequence = Sequence /\ mapped = EmptyMap /\ working = {}
    /\ turn = [t \in Turn |-> IdleTurn] /\ call = [c \in Call |-> IdleCall]
    /\ used = 0 /\ asides = 0 /\ faults = 0

----------------------------------------------------------------------------
(***************************************************************************)
(* The map, and what it asks for.                                          *)
(***************************************************************************)

Recorded(list, x) == \E i \in 1..Len(list) : list[i] = x

\* Mutant: the last writer of an exchange places it.
BuildLastWriter(line, list) ==
    LET after[n \in 0..Len(list)] ==
          IF n = 0 THEN {EmptyMap}
          ELSE {IF Recorded(SubSeq(list, n + 1, Len(list)), list[n]) THEN m
                ELSE Consume(line, m, list[n]) : m \in after[n - 1]}
    IN  CHOOSE m \in after[Len(list)] : TRUE

\* FlowMapBuilder.build: FlowMapBuilder's steps in one, an exchange consumed
\* where it was first recorded.  (One map after n entries; a set of it has TLC
\* evaluate it once.)
Build(line, list) ==
    LET after[n \in 0..Len(list)] ==
          IF n = 0 THEN {EmptyMap}
          ELSE {IF Recorded(SubSeq(list, 1, n - 1), list[n]) THEN m
                ELSE Consume(line, m, list[n]) : m \in after[n - 1]}
    IN  CHOOSE m \in after[Len(list)] : TRUE

\* The record changes, and with it what the next read derives.
Records(list) ==
    /\ apiList' = list
    /\ mapped' = Build(flowSequence, list)
    /\ UNCHANGED flowSequence

\* saveBusinessData for a step, and the line FlowMapBuilder's constructor makes
\* of it: the step's own value of MORE_SEQUENCE, or what a copy read before
\* another's write puts back.
SaveBusinessData(key) ==
    /\ flowSequence' \in {Sequence \o more : more \in Saves[key]}
    /\ mapped' = Build(flowSequence', apiList)
    /\ UNCHANGED apiList

Steps == Extra \cup {flowSequence[i] : i \in 1..Len(flowSequence)}
StepWithKey(key) == CHOOSE s \in Steps : s.key = key

\* A step beside the line has a marker of its own, the line has one.
StatusKey(key) == IF \E e \in Extra : e.key = key THEN key ELSE NoKey
Working(key) == StatusKey(key) \in working

\* buildPendingStep's truth table.
PendingStatus(s) ==
    CASE s.type \in FormType /\ s.ours ->
            IF Working(s.key) THEN "RESPONDING" ELSE "WAITING-SUBMISSION"
      [] s.type \in FormType /\ ~s.ours ->
            IF Working(s.key) THEN "PROCESSING" ELSE "INPUT-REQUIRED"
      [] s.type \notin FormType /\ ~s.ours -> "LISTENING"
      [] s.type \notin FormType /\ s.ours ->
            IF (s.input \/ s.manual \/ s.unsolicited) /\ ~Working(s.key)
            THEN "INPUT-REQUIRED" ELSE "RESPONDING"

Actionable == {"LISTENING", "RESPONDING", "INPUT-REQUIRED", "WAITING-SUBMISSION"}

HasHead(m) == m.cursor < Len(flowSequence)
HeadStep(m) == flowSequence[m.cursor + 1]
OpenExtras(m) == {r \in m.extras : r.status = "OPEN"}

\* What a caller can put in inputs: nothing, the declared values, the name of
\* the manual step.
Input == {"none", "values", "name"}

\* inputGate: a manual step has to be named, whatever it declares; one that is
\* unsolicited and declares nothing goes by itself.
Released(s, input) ==
    IF s.manual THEN input = "name" ELSE s.input => input # "none"

\* An owed reply that is ours and not under way.
Ready(m) == {r \in OpenExtras(m) : /\ PendingStatus(StepWithKey(r.key)) = "RESPONDING"
                                   /\ ~Working(r.key)}

\* selectTarget's last answer: nothing of the line to act on, no reply ready,
\* none that is not being sent already.
AnswersComplete(m) ==
    /\ HasHead(m) => PendingStatus(HeadStep(m)) \notin Actionable
    /\ Ready(m) = {}
    /\ \A r \in OpenExtras(m) : PendingStatus(StepWithKey(r.key)) = "RESPONDING"

\* The run is over: the line is done and no reply is owed.
Over(m) == ~HasHead(m) /\ OpenExtras(m) = {}

----------------------------------------------------------------------------
(***************************************************************************)
(* flow_proceed: the record is read and the target chosen, then acted on.  *)
(***************************************************************************)
TakesUp(t, pc, x, key) == turn' = [turn EXCEPT ![t] = [pc |-> pc, x |-> x, key |-> key]]

\* One id of its own for what is about to be sent or submitted.
NewId == used < MaxId /\ used' = used + 1

\* The line's head is ours to send and released: dispatch.
ProceedDispatch(t) ==
    /\ Free(turn, t) /\ NoKey \notin working
    /\ HasHead(mapped) /\ HeadStep(mapped).type \notin FormType /\ HeadStep(mapped).ours
    /\ \E input \in Input :
          PendingStatus(HeadStep(mapped)) = "INPUT-REQUIRED" => Released(HeadStep(mapped), input)
    /\ NewId
    /\ TakesUp(t, "dispatch", [type |-> HeadStep(mapped).type, id |-> used'], HeadStep(mapped).key)
    /\ UNCHANGED <<apiList, flowSequence, mapped, working, call, asides, faults>>

\* The head is a form and the call brings a submission id.
ProceedForm(t) ==
    /\ Free(turn, t) /\ NoKey \notin working
    /\ HasHead(mapped) /\ HeadStep(mapped).type \in FormType
    /\ NewId
    /\ TakesUp(t, "form", [type |-> HeadStep(mapped).type, id |-> used'], HeadStep(mapped).key)
    /\ UNCHANGED <<apiList, flowSequence, mapped, working, call, asides, faults>>

\* The line is done and a reply of ours is owed.  Its id is the one awaited
\* or, nothing handing that one to generate, another.
ProceedReply(t) ==
    /\ Free(turn, t) /\ ~HasHead(mapped)
    /\ \E r \in Ready(mapped) :
          \/ /\ TakesUp(t, "dispatch", [type |-> StepWithKey(r.key).type, id |-> r.id], r.key)
             /\ UNCHANGED <<used, faults>>
          \/ /\ faults < MaxFaults /\ faults' = faults + 1
             /\ NewId
             /\ TakesUp(t, "dispatch", [type |-> StepWithKey(r.key).type, id |-> used'], r.key)
    /\ UNCHANGED <<apiList, flowSequence, mapped, working, call, asides>>

\* trigger_extra: a step of ours that is not being sent already.
TriggerExtra(t, e) ==
    /\ Free(turn, t)
    /\ e.ours /\ ~Working(e.key)
    /\ asides < MaxAsides /\ asides' = asides + 1
    /\ NewId
    /\ TakesUp(t, "dispatch", [type |-> e.type, id |-> used'], e.key)
    /\ UNCHANGED <<apiList, flowSequence, mapped, working, call, faults>>

\* The marker, before anything else.
Mark(t) ==
    /\ turn[t].pc = "dispatch"
    /\ working' = working \cup {StatusKey(turn[t].key)}
    /\ turn' = [turn EXCEPT ![t].pc = "marked"]
    /\ UNCHANGED <<apiList, flowSequence, mapped, call, used, asides, faults>>

\* Requirements, generate and the gate: recorded before it is sent.
RecordSend(t) ==
    /\ turn[t].pc = "marked"
    /\ Records(Append(apiList, turn[t].x))
    /\ turn' = [turn EXCEPT ![t].pc = IF Saves[turn[t].key] = {} THEN "sending" ELSE "saving"]
    /\ UNCHANGED <<working, call, used, asides, faults>>

\* What the step saves of its payload is there before it is sent, too.
SaveSend(t) ==
    /\ turn[t].pc = "saving"
    /\ SaveBusinessData(turn[t].key)
    /\ turn' = [turn EXCEPT ![t].pc = "sending"]
    /\ UNCHANGED <<working, call, used, asides, faults>>

\* Nothing crossed: its entry is withdrawn (discardApiEntry, by seq; of entries
\* of one exchange any may be its).  What it saved stays.
Withdraw(t) ==
    /\ turn[t].pc = "sending"
    /\ faults < MaxFaults /\ faults' = faults + 1
    /\ \E i \in 1..Len(apiList) : /\ apiList[i] = turn[t].x
                                  /\ Records(RemoveAt(apiList, i))
    /\ turn' = [turn EXCEPT ![t].pc = "withdrawn"]
    /\ UNCHANGED <<working, call, used, asides>>

\* Mutant: only a send that was answered gives the marker back.
UnmarkAnswered(t) ==
    /\ turn[t].pc \in {"sending", "withdrawn"}
    /\ working' = IF Recorded(apiList, turn[t].x)
                  THEN working \ {StatusKey(turn[t].key)} ELSE working
    /\ turn' = [turn EXCEPT ![t] = IdleTurn]
    /\ UNCHANGED <<apiList, flowSequence, mapped, call, used, asides, faults>>

\* The send is answered, or failed: the finally block.
Unmark(t) ==
    /\ turn[t].pc \in {"sending", "withdrawn"}
    /\ working' = working \ {StatusKey(turn[t].key)}
    /\ turn' = [turn EXCEPT ![t] = IdleTurn]
    /\ UNCHANGED <<apiList, flowSequence, mapped, call, used, asides, faults>>

\* formOutcome: the submission is recorded for the form the call read.
RecordForm(t) ==
    /\ turn[t].pc = "form"
    /\ Records(Append(apiList, turn[t].x))
    /\ turn' = [turn EXCEPT ![t] = IdleTurn]
    /\ UNCHANGED <<working, call, used, asides, faults>>

----------------------------------------------------------------------------
(***************************************************************************)
(* The receiver.                                                           *)
(***************************************************************************)

\* matchStep, on the map read as the call comes in: the step it completes.
MatchedKey(x) ==
    IF Fits(flowSequence, mapped, x) THEN HeadStep(mapped).key
    ELSE IF IsExtra(x) THEN ExtraFor(x).key ELSE NoKey

Arrives(c, x) ==
    call' = [call EXCEPT ![c] = [pc |-> "arrived", x |-> x, key |-> MatchedKey(x)]]

\* What a send carries can be answered once it is being sent.
OnTheWire == {x \in Exchange : Recorded(apiList, x)}

\* The participant makes the call the line waits for.
Answer(c) ==
    /\ Free(call, c) /\ ~\E d \in Call : call[d].pc = "arrived"
    /\ HasHead(mapped) /\ PendingStatus(HeadStep(mapped)) = "LISTENING"
    /\ NewId
    /\ Arrives(c, [type |-> HeadStep(mapped).type, id |-> used'])
    /\ UNCHANGED <<apiList, flowSequence, mapped, working, turn, asides, faults>>

\* It answers an extra of ours, under the id that one carried.
Reply(c) ==
    /\ Free(call, c)
    /\ \E r \in OpenExtras(mapped) :
          LET x == [type |-> StepWithKey(r.key).type, id |-> r.id] IN
          /\ ~StepWithKey(r.key).ours
          /\ ~\E d \in Call : call[d].x = x
          /\ Arrives(c, x)
    /\ UNCHANGED <<apiList, flowSequence, mapped, working, turn, used, asides, faults>>

\* It makes a call nobody waits for, or repeats one.
Stray(c) ==
    /\ Free(call, c)
    /\ asides < MaxAsides /\ asides' = asides + 1
    /\ \/ \E x \in OnTheWire : /\ x.type \notin FormType
                               /\ Arrives(c, x)
                               /\ UNCHANGED used
       \/ \E s \in Steps :
             /\ s.type \notin FormType /\ ~s.ours
             /\ NewId
             /\ Arrives(c, [type |-> s.type, id |-> used'])
    /\ UNCHANGED <<apiList, flowSequence, mapped, working, turn, faults>>

\* The call gets an ACK or, matching no step or refused by a validator, none;
\* either way it is recorded, some awaits after the map was read, and the next
\* read places it.  Only after an ACK the step it matched saves.
RecordCall(c) ==
    /\ call[c].pc = "arrived"
    /\ Records(Append(apiList, call[c].x))
    /\ \/ call' = [call EXCEPT ![c] = IdleCall]
       \/ /\ call[c].key # NoKey /\ Saves[call[c].key] # {}
          /\ call' = [call EXCEPT ![c].pc = "saving"]
    /\ UNCHANGED <<working, turn, used, asides, faults>>

SaveCall(c) ==
    /\ call[c].pc = "saving"
    /\ SaveBusinessData(call[c].key)
    /\ call' = [call EXCEPT ![c] = IdleCall]
    /\ UNCHANGED <<working, turn, used, asides, faults>>

----------------------------------------------------------------------------
Dispatching(t) ==
    Mark(t) \/ RecordSend(t) \/ SaveSend(t) \/ Unmark(t) \/ RecordForm(t)
Receiving(c) == RecordCall(c) \/ SaveCall(c)

\* The caller does what the last outcome asked for, the inputs included.
Serve(t) ==
    \/ ProceedDispatch(t) \/ ProceedForm(t)
    \/ ProceedReply(t)

TurnsNext ==
    \/ \E t \in Turn :
          \/ Serve(t) \/ Dispatching(t) \/ Withdraw(t)
          \/ \E e \in Extra : TriggerExtra(t, e)
    \/ \E c \in Call : Answer(c) \/ Reply(c) \/ Stray(c) \/ Receiving(c)

(***************************************************************************)
(* The event loop serves what is ready; a caller that keeps at the run and *)
(* a participant that answers what it is asked.  Both find their turn      *)
(* again and again, not always: another call has the marker or the head.   *)
(***************************************************************************)
TurnsFairness ==
    /\ \A t \in Turn : WF_turnsVars(Dispatching(t))
    /\ \A c \in Call : WF_turnsVars(Receiving(c))
    /\ SF_turnsVars(\E t \in Turn : Serve(t))
    /\ SF_turnsVars(\E c \in Call : Answer(c))
    /\ SF_turnsVars(\E c \in Call : Reply(c))

TurnsSpec == TurnsInit /\ [][TurnsNext]_turnsVars /\ TurnsFairness

----------------------------------------------------------------------------
(***************************************************************************)
(* Properties.                                                             *)
(***************************************************************************)

\* The line's first steps, up to the i-th, are the same after the step.
LineStands(i) == \A j \in 1..i : j <= Len(flowSequence') /\ flowSequence'[j] = flowSequence[j]

\* What one read of the map reports done, filed or found, no later read takes
\* back - not for a repeated call, nor for one that overtook another - except
\* when a send that never crossed is withdrawn.  When the run's data rewrote
\* the line in between, that is so of the steps done up to where the line
\* changed, whatever was added behind them: what was filed or found beside the
\* line may have found its step on the new one.
NothingIsTakenBack ==
    [][\/ faults' > faults
       \/ /\ \A i \in 1..mapped.cursor :
                LineStands(i) => i <= mapped'.cursor /\ mapped'.done[i] = mapped.done[i]
          /\ flowSequence' = flowSequence =>
                /\ mapped.missed \subseteq mapped'.missed
                /\ {r \in mapped.extras : r.status = "COMPLETE"} \subseteq mapped'.extras]_turnsVars

\* No read's finding or filing of an extra is ever revised.
NothingIsRefiled ==
    [][\/ faults' > faults
       \/ /\ mapped.missed \subseteq mapped'.missed
          /\ {r \in mapped.extras : r.status = "COMPLETE"} \subseteq mapped'.extras]_turnsVars

\* With a caller that supplies what is asked of it and a participant that
\* answers, every run ends: no status, marker, gate, withdrawn send, stray
\* call or owed reply leaves it with nothing that moves it.
EveryRunEnds == <>[]Over(mapped)

\* flow.target.ts:158 "Every step of this flow is done.": a call that reads the
\* run at this moment - flow_proceed, flow_get_status, the one that journals
\* FLOW_COMPLETE after an inbound call - is told so only of a run whose line is
\* done and that owes no reply.
CompleteIsDone == AnswersComplete(mapped) => Over(mapped)
=============================================================================
