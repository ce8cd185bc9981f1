------------------------------ MODULE FlowMap ------------------------------
(***************************************************************************)
(* The flow engine's map: where a run has got to, as the operators that    *)
(* FlowMapBuilder.build applies to the recorded exchanges.                 *)
(*                                                                         *)
(* A flow is a line of steps and, beside it, a set of side-channel steps   *)
(* ("extras").  The line is the published sequence and what the run's own  *)
(* data adds to it, so it may differ from one read to the next and is a    *)
(* parameter of what replays on it.  Nothing stores a position: the        *)
(* exchanges are replayed in the order they were recorded, each offered to *)
(* the line, then to the extras, then filed as a finding.  Exchanges match *)
(* steps by type alone.                                                    *)
(* An exchange is known by its type and id (an action and its message id,  *)
(* a form type with its form and submission): what is recorded twice under *)
(* one type and id is one exchange.                                        *)
(***************************************************************************)
EXTENDS Integers, Sequences, FiniteSets

CONSTANTS
    Key,            \* step keys
    Type,           \* actions and form types
    FormType,       \* the form types among them
    Id,             \* message ids and form submissions
    Sequence,       \* flow.sequence
    MoreSequences,  \* what the run's data may hold as MORE_SEQUENCE
    Extra,          \* flow.extraSequence
    NoPair          \* a step with no pair, an exchange that owes to no other

Step == [key : Key, type : Type, ours : BOOLEAN, input : BOOLEAN, manual : BOOLEAN,
         unsolicited : BOOLEAN, pair : Key \cup {NoPair}]

Exchange == [type : Type, id : Id]

\* createExtrasIndex refuses a flow whose extras share a type or are forms.
ASSUME FlowAssumption ==
    /\ FormType \subseteq Type
    /\ NoPair \notin Key
    /\ Sequence \in Seq(Step)
    /\ MoreSequences \subseteq Seq(Step) /\ <<>> \in MoreSequences
    /\ Extra \subseteq Step
    /\ \A e \in Extra : e.type \notin FormType
    /\ \A e, f \in Extra : e.type = f.type \/ e.key = f.key => e = f

(***************************************************************************)
(* A map: the cursor, what completed each step before it, the extras that  *)
(* completed or are owed, and the findings.  An extra that answers another *)
(* one names it in "owes".                                                 *)
(***************************************************************************)
ExtraRow == [key : Key, id : Id, owes : Key \cup {NoPair},
             status : {"COMPLETE", "OPEN"}]
Finding == [exchange : Exchange, kind : {"BEYOND", "OUT_OF_ORDER", "NOT_FOUND"}]

EmptyMap == [cursor |-> 0, done |-> <<>>, extras |-> {}, missed |-> {}]

\* sequenceResolver: the step at the cursor, whoever owns it.
Fits(line, m, x) ==
    /\ m.cursor < Len(line)
    /\ line[m.cursor + 1].type = x.type

Advanced(m, x) ==
    [m EXCEPT !.cursor = @ + 1, !.done = Append(@, x)]

\* extrasResolver.  byType finds the step, pendingPlaceholders the open rows.
IsExtra(x) == \E e \in Extra : e.type = x.type
ExtraFor(x) == CHOOSE e \in Extra : e.type = x.type

Owed(m, x) ==
    {r \in m.extras : r.key = ExtraFor(x).key /\ r.id = x.id /\ r.status = "OPEN"}

Completed(rows) == {[r EXCEPT !.status = "COMPLETE"] : r \in rows}

Resolved(m, x) ==
    [m EXCEPT !.extras = (@ \ Owed(m, x)) \cup Completed(Owed(m, x))]

\* The reply to e(id) was replayed before it.
RepliedAlready(m, key, id) ==
    \E r \in m.extras : r.key = key /\ r.id = id /\ r.status = "COMPLETE"

\* Mutant: one is made whether or not the reply was replayed before.
PlaceholderAlways(m, e, id) ==
    {[key |-> p.key, id |-> id, owes |-> e.key, status |-> "OPEN"] :
        p \in {q \in Extra : q.key = e.pair}}

\* The placeholder of the reply e names, if its pair is an extra too.
Placeholder(m, e, id) ==
    {[key |-> p.key, id |-> id, owes |-> e.key, status |-> "OPEN"] :
        p \in {q \in Extra : q.key = e.pair /\ ~RepliedAlready(m, q.key, id)}}

WithRow(m, row) == [m EXCEPT !.extras = @ \cup {row}]

Added(m, x) ==
    LET e == ExtraFor(x)
        added == WithRow(m, [key |-> e.key, id |-> x.id, owes |-> NoPair,
                             status |-> "COMPLETE"])
    IN  [added EXCEPT !.extras = @ \cup Placeholder(added, e, x.id)]

\* missedResolver, and findStepInFlow's look ahead from the cursor.
Kind(line, m, x) ==
    IF m.cursor >= Len(line) THEN "BEYOND"
    ELSE IF \E i \in (m.cursor + 1)..Len(line) : line[i].type = x.type
         THEN "OUT_OF_ORDER" ELSE "NOT_FOUND"

\* Mutant: a step that was jumped over is left behind.
MissedSkips(line, m, x) ==
    [m EXCEPT !.missed = @ \cup {[exchange |-> x, kind |-> Kind(line, m, x)]},
              !.cursor = IF Kind(line, m, x) = "OUT_OF_ORDER" THEN @ + 1 ELSE @]

Missed(line, m, x) ==
    [m EXCEPT !.missed = @ \cup {[exchange |-> x, kind |-> Kind(line, m, x)]}]

\* The three resolvers in turn: the first that takes the exchange has it.
Consume(line, m, x) ==
    CASE Fits(line, m, x) -> Advanced(m, x)
      [] ~Fits(line, m, x) /\ IsExtra(x) /\ Owed(m, x) # {} -> Resolved(m, x)
      [] ~Fits(line, m, x) /\ IsExtra(x) /\ Owed(m, x) = {} -> Added(m, x)
      [] ~Fits(line, m, x) /\ ~IsExtra(x) -> Missed(line, m, x)
=============================================================================
