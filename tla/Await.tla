-------------------------------- MODULE Await --------------------------------
(***************************************************************************)
(* Waiting for a run or for a session (flow.await-run.ts,                  *)
(* flow.await-session.ts, transaction-events.ts).                          *)
(*                                                                         *)
(* A wait reads the store and parks only if there is nothing new. What     *)
(* wakes it is a hint: it is published after the change is stored, to      *)
(* those parked at that moment, under the transaction and under the run.   *)
(* Between the read and the parking, and between a wake-up by the journal  *)
(* and parking again, there are awaits.                                    *)
(*                                                                         *)
(* One run of one session. Attempt n of the run uses transaction n, and    *)
(* is unbound until somebody's first call. The drain is one step here;     *)
(* Journal.tla is about its steps.                                         *)
(***************************************************************************)
EXTENDS Integers, Sequences, FiniteSets

CONSTANTS
    Caller,         \* who calls flow_await, one call at a time
    MaxAttempts,    \* bound: attempts of the run
    MaxEntries,     \* bound: exchanges, over all transactions
    MaxLines,       \* bound: journal lines
    DeltaLimit      \* EVENTS_DELTA_LIMIT

ASSUME BoundsAssumption ==
    /\ {MaxAttempts, MaxEntries, DeltaLimit} \subseteq Nat \ {0}
    /\ MaxLines \in Nat

Txn == 1..MaxAttempts
RunKey == 0         \* flow_run::{session}::{flow}; n is transaction n's key
Kind == {"dead_end", "ordinary"}
EntryId == Txn \X (1..MaxEntries)
NoEvent == <<>>     \* also what an event without an entry shows the caller

VARIABLES
    \* the stores
    attempt,        \* the run's attempt
    bound,          \* whether that attempt has its transaction
    entries,        \* entries[n]: the states of n's exchanges, by seq
    lines,          \* the kinds of the session's journal lines, by seq
    drained,        \* the delivery cursor
    \* stored, and the notification still to come
    unannounced,    \* exchanges
    unheard,        \* lines
    \* the waits
    run,            \* run[w]: a caller's wait on the run, by flow_id
    session,        \* session[w]: a caller's wait on the session
    \* what the callers know, from the answers
    cursor,         \* cursor[w]: the seq of the last answer, and of which key
    shown,          \* shown[w]: the exchanges answers have reported
    twice           \* twice[w]: those reported again, to an accepted cursor

stores == <<attempt, bound, entries, lines, drained, unannounced, unheard>>
knowledge == <<cursor, shown, twice>>
awaitVars == <<stores, run, session, knowledge>>

RunWait == [pc : {"idle", "deciding", "parked", "woken", "checked", "answer"},
            key : Txn \cup {RunKey}, base : 0..MaxEntries,
            loaded : 0..MaxEntries, own : BOOLEAN, dead : BOOLEAN,
            jseq : 0..MaxLines, wake : 0..MaxLines,
            event : EntryId \cup {NoEvent}, missed : SUBSET EntryId]

SessionWait == [pc : {"idle", "draining", "sweep", "unparked", "parked"},
                filter : SUBSET Kind, cursor : 0..MaxLines, swept : BOOLEAN,
                expired : BOOLEAN, owed : 0..MaxLines,
                timedOut : BOOLEAN]

IdleRun == [pc |-> "idle", key |-> RunKey, base |-> 0, loaded |-> 0, own |-> TRUE,
            dead |-> FALSE, jseq |-> 0, wake |-> 0, event |-> NoEvent, missed |-> {}]
IdleSession == [pc |-> "idle", filter |-> {}, cursor |-> 0, swept |-> FALSE,
                expired |-> FALSE, owed |-> 0, timedOut |-> FALSE]

\* What a load by flow_id gives: the run's key, and its transaction's exchanges
\* or the placeholder record's.
Key == IF bound THEN attempt ELSE RunKey
Current == IF bound THEN entries[attempt] ELSE <<>>
Opened(n) == n < attempt \/ (n = attempt /\ bound)

HighWater == Len(Current)
Exchanges == {e \in EntryId : e[2] <= Len(entries[e[1]])}
Settled == {e \in Exchanges : entries[e[1]][e[2]] = "settled"}
Announced == Settled \ unannounced

Init ==
    /\ attempt = 1 /\ bound = FALSE
    /\ entries = [n \in Txn |-> <<>>]
    /\ lines = <<>> /\ drained = 0
    /\ unannounced = {} /\ unheard = {}
    /\ run = [w \in Caller |-> IdleRun]
    /\ session = [w \in Caller |-> IdleSession]
    /\ cursor = [w \in Caller |-> [of |-> RunKey, seq |-> 0]]
    /\ shown = [w \in Caller |-> {}]
    /\ twice = [w \in Caller |-> {}]

-----------------------------------------------------------------------------
(* The record moves.                                                       *)

Bind ==
    /\ ~bound
    /\ bound' = TRUE
    /\ UNCHANGED <<attempt, entries, lines, drained, unannounced, unheard,
                   run, session, knowledge>>

Restart ==
    /\ attempt < MaxAttempts
    /\ attempt' = attempt + 1
    /\ bound' = FALSE
    /\ UNCHANGED <<entries, lines, drained, unannounced, unheard,
                   run, session, knowledge>>

\* Work on a record is one at a time, and its publishing is part of it.
Unlocked(n) == Opened(n) /\ \A e \in unannounced : e[1] # n

\* A callback is on the list with its verdict; a call of ours is in flight,
\* and silent. An attempt sealed after the callback was attributed gets it.
AppendEntry(n, state) ==
    /\ Unlocked(n) /\ Cardinality(Exchanges) < MaxEntries
    /\ state = "in_flight" => n = attempt
    /\ entries' = [entries EXCEPT ![n] = Append(@, state)]
    /\ unannounced' = IF state = "settled"
                        THEN unannounced \cup {<<n, Len(entries[n]) + 1>>}
                        ELSE unannounced
    /\ UNCHANGED <<attempt, bound, lines, drained, unheard, run, session, knowledge>>

\* The answer to a call in flight, or its withdrawal.
Settle(n, i, state) ==
    /\ Unlocked(n) /\ entries[n][i] = "in_flight"
    /\ entries' = [entries EXCEPT ![n][i] = state]
    /\ unannounced' = IF state = "settled" THEN unannounced \cup {<<n, i>>} ELSE unannounced
    /\ UNCHANGED <<attempt, bound, lines, drained, unheard, run, session, knowledge>>

\* Of a wait that is over, what its answer needs.
Answering(w, event) ==
    [IdleRun EXCEPT !.pc = "answer", !.event = event, !.own = run[w].own,
                    !.key = run[w].key, !.base = run[w].base]

\* Mutant: under the transaction only.
ListeningByTxn(w, n, seq) ==
    run[w].pc = "parked" /\ run[w].key = n /\ seq > run[w].base

\* Whom an event of transaction n reaches: both of its keys.
Listening(w, n, seq) ==
    run[w].pc = "parked" /\ run[w].key \in {n, RunKey} /\ seq > run[w].base

Notify(n, seq, event) ==
    run' = [w \in Caller |->
              IF Listening(w, n, seq)
                THEN Answering(w, event)
                ELSE run[w]]

Publish(e) ==
    /\ e \in unannounced
    /\ unannounced' = unannounced \ {e}
    /\ Notify(e[1], e[2], e)
    /\ UNCHANGED <<attempt, bound, entries, lines, drained, unheard, session, knowledge>>

\* A chain's pause or send, with the high-water mark of the record it loaded
\* some time before.
PublishNoEntry(n, seq) ==
    /\ Opened(n)
    /\ Notify(n, seq, NoEvent)
    /\ UNCHANGED <<attempt, bound, entries, lines, drained, unannounced, unheard,
                   session, knowledge>>

-----------------------------------------------------------------------------
(* The journal moves.                                                      *)

JournalLine(kind) ==
    /\ Len(lines) < MaxLines
    /\ lines' = Append(lines, kind)
    /\ unheard' = unheard \cup {Len(lines) + 1}
    /\ UNCHANGED <<attempt, bound, entries, drained, unannounced,
                   run, session, knowledge>>

NotifyJournal(l) ==
    /\ l \in unheard
    /\ unheard' = unheard \ {l}
    /\ run' = [w \in Caller |->
                 IF run[w].pc = "parked" /\ l > run[w].jseq
                   THEN [run[w] EXCEPT !.pc = "woken", !.wake = l,
                                       !.dead = (lines[l] = "dead_end")]
                   ELSE run[w]]
    /\ session' = [w \in Caller |->
                     IF session[w].pc = "parked" /\ l > session[w].cursor
                       THEN [session[w] EXCEPT !.pc = "draining", !.owed = Len(lines)]
                       ELSE session[w]]
    /\ UNCHANGED <<attempt, bound, entries, lines, drained, unannounced, knowledge>>

\* How far a drain that starts now gets.
DrainsTo == IF Len(lines) - drained > DeltaLimit THEN drained + DeltaLimit ELSE Len(lines)

\* Every tool result takes a delta with it.
Piggyback ==
    /\ drained < Len(lines)
    /\ drained' = DrainsTo
    /\ UNCHANGED <<attempt, bound, entries, lines, unannounced, unheard,
                   run, session, knowledge>>

-----------------------------------------------------------------------------
(* A wait on the run.                                                      *)

Idle(w) == run[w].pc = "idle" /\ session[w].pc = "idle"

\* An answer: the high-water mark of the record loaded under key, and an event.
Answer(w, key, seq, event, own) ==
    /\ run' = [run EXCEPT ![w] = IdleRun]
    /\ cursor' = [cursor EXCEPT ![w] = [of |-> key, seq |-> seq]]
    /\ shown' = IF event = NoEvent THEN shown ELSE [shown EXCEPT ![w] = @ \cup {event}]
    /\ twice' = IF own /\ event \in shown[w] /\ event[1] = key
                  THEN [twice EXCEPT ![w] = @ \cup {event}] ELSE twice
    /\ session' = [session EXCEPT ![w] = IdleSession]
    /\ UNCHANGED stores

\* Mutant: any number is taken at face value.
AcceptedAlways(after) == after >= 0

\* A number above the high-water mark cannot be this run's, and is set aside.
Accepted(after) == after <= HighWater

\* Mutant: what is in flight counts.
CandidatesInFlight(after) == {i \in 1..HighWater : i > after /\ Current[i] # "discarded"}

\* What is on the record above the cursor and no longer in flight.
Candidates(after) == {i \in 1..HighWater : i > after /\ Current[i] = "settled"}

\* The exchanges that answer a wait at once, for the number it was given.
Unseen(after) == Candidates(IF Accepted(after) THEN after ELSE 0)

\* With a cursor the oldest, without one the newest.
Recorded(after) ==
    CHOOSE i \in Unseen(after) :
        \A j \in Unseen(after) : IF Accepted(after) THEN i <= j ELSE i >= j

\* Read the store first. The caller passes the seq of its last answer, or the
\* journal's number by mistake.
AwaitEvent(w, after) ==
    /\ Idle(w)
    /\ IF Unseen(after) # {}
         THEN Answer(w, Key, HighWater, <<attempt, Recorded(after)>>,
                     after = cursor[w].seq /\ Accepted(after))
         ELSE /\ run' = [run EXCEPT ![w] =
                   [IdleRun EXCEPT !.pc = "deciding",
                                   !.key = Key,
                                   !.loaded = HighWater,
                                   !.base = IF Accepted(after) THEN after ELSE HighWater,
                                   !.own = (after = cursor[w].seq /\ Accepted(after))]]
              /\ session' = [session EXCEPT ![w] = IdleSession]
              /\ UNCHANGED <<stores, knowledge>>

\* Not awaitable: the next move is the caller's.
Decline(w) ==
    /\ run[w].pc = "deciding"
    /\ Answer(w, run[w].key, run[w].loaded, NoEvent, FALSE)

\* What has been published already of what would have woken this wait.
Due(w) == {e \in Announced : run[w].key \in {e[1], RunKey} /\ e[2] > run[w].base}

Park(w) ==
    /\ run[w].pc = "deciding"
    /\ run' = [run EXCEPT ![w] = [@ EXCEPT !.pc = "parked", !.loaded = 0,
                                           !.jseq = drained, !.missed = Due(w)]]
    /\ UNCHANGED <<stores, session, knowledge>>

\* Mutant: the position is moved before the lines are read.
CheckLinesAfterMoving(w) ==
    /\ run[w].pc = "woken"
    /\ run' = [run EXCEPT ![w] =
                 IF \E l \in run[w].wake + 1..Len(lines) : lines[l] = "dead_end"
                   THEN Answering(w, NoEvent) ELSE [@ EXCEPT !.pc = "checked"]]
    /\ UNCHANGED <<stores, session, knowledge>>

\* Woken by the journal: look whether a line says that nothing will follow.
\* A read that fails counts as no such line.
CheckLines(w) ==
    /\ run[w].pc = "woken"
    /\ run' = [run EXCEPT ![w] =
                 IF \E l \in run[w].jseq + 1..Len(lines) : lines[l] = "dead_end"
                   THEN Answering(w, NoEvent) ELSE [@ EXCEPT !.pc = "checked"]]
    /\ UNCHANGED <<stores, session, knowledge>>

CheckFails(w) ==
    /\ run[w].pc = "woken"
    /\ run' = [run EXCEPT ![w] = [@ EXCEPT !.pc = "checked", !.dead = FALSE]]
    /\ UNCHANGED <<stores, session, knowledge>>

ParkAgain(w) ==
    /\ run[w].pc = "checked"
    /\ run' = [run EXCEPT ![w] = [@ EXCEPT !.pc = "parked", !.jseq = run[w].wake, !.wake = 0,
                                           !.missed = Due(w)]]
    /\ UNCHANGED <<stores, session, knowledge>>

TimeOut(w) ==
    /\ run[w].pc \in {"parked", "checked"}
    /\ run' = [run EXCEPT ![w] = Answering(w, NoEvent)]
    /\ UNCHANGED <<stores, session, knowledge>>

\* Mutant: the answer carries the seq of before the wait.
ReloadStale(w) ==
    /\ run[w].pc = "answer"
    /\ Answer(w, run[w].key, run[w].base, run[w].event, run[w].own)

\* Load again, and answer from that.
Reload(w) ==
    /\ run[w].pc = "answer"
    /\ Answer(w, Key, HighWater, run[w].event, run[w].own)

-----------------------------------------------------------------------------
(* A wait on the session.                                                  *)

AwaitSession(w, filter) ==
    /\ Idle(w)
    /\ session' = [session EXCEPT ![w] =
         [IdleSession EXCEPT !.pc = "draining", !.filter = filter, !.cursor = drained,
                              !.owed = Len(lines)]]
    /\ UNCHANGED <<stores, run, knowledge>>

\* Mutant: a time-out ends the wait where it is.
DrainUnlessExpired(w) ==
    LET matched == \E l \in drained + 1..DrainsTo : lines[l] \in session[w].filter
    IN /\ session[w].pc = "draining"
       /\ drained' = IF session[w].expired THEN drained ELSE DrainsTo
       /\ session' = [session EXCEPT ![w] =
            [@ EXCEPT !.cursor = DrainsTo,
                      !.timedOut = session[w].expired,
                      !.pc = IF matched \/ session[w].expired THEN "idle"
                             ELSE IF session[w].swept THEN "unparked" ELSE "sweep"]]
       /\ UNCHANGED <<attempt, bound, entries, lines, unannounced, unheard,
                      run, knowledge>>

\* The top of the loop, also after a time-out. The deadline may be past
\* although it was a line that woke the wait.
Drain(w) ==
    LET self == session[w]
        matched == \E l \in drained + 1..DrainsTo : lines[l] \in self.filter
        reached == IF drained < Len(lines) THEN DrainsTo ELSE self.cursor
        result == IF matched THEN IdleSession
                  ELSE [self EXCEPT !.pc = "idle", !.cursor = 0, !.timedOut = TRUE]
        next == IF self.swept THEN "unparked" ELSE "sweep"
    IN /\ self.pc = "draining"
       /\ drained' = DrainsTo
       /\ \/ session' = [session EXCEPT ![w] = result]
          \/ /\ ~matched /\ ~self.expired
             /\ session' = [session EXCEPT ![w] = [self EXCEPT !.pc = next, !.cursor = reached]]
       /\ UNCHANGED <<attempt, bound, entries, lines, unannounced, unheard,
                      run, knowledge>>

\* Re-arm what has lapsed, once per wait, and read the cursor again.
Sweep(w) ==
    /\ session[w].pc = "sweep"
    /\ session' = [session EXCEPT ![w] =
         [@ EXCEPT !.pc = "unparked", !.swept = TRUE, !.cursor = drained]]
    /\ UNCHANGED <<stores, run, knowledge>>

ParkSession(w) ==
    /\ session[w].pc = "unparked"
    /\ session' = [session EXCEPT ![w].pc = "parked"]
    /\ UNCHANGED <<stores, run, knowledge>>

TimeOutSession(w) ==
    /\ session[w].pc = "parked"
    /\ session' = [session EXCEPT ![w] =
         [@ EXCEPT !.pc = "draining", !.expired = TRUE, !.owed = Len(lines)]]
    /\ UNCHANGED <<stores, run, knowledge>>

-----------------------------------------------------------------------------
RunStep(w) ==
    \/ \E after \in {cursor[w].seq, drained} : AwaitEvent(w, after)
    \/ Decline(w)
    \/ Park(w)
    \/ CheckLines(w)
    \/ CheckFails(w)
    \/ ParkAgain(w)
    \/ TimeOut(w)
    \/ Reload(w)

SessionStep(w) ==
    \/ \E filter \in {Kind, {"dead_end"}} : AwaitSession(w, filter)
    \/ Drain(w)
    \/ Sweep(w)
    \/ ParkSession(w)
    \/ TimeOutSession(w)

Next ==
    \/ Bind
    \/ Restart
    \/ \E n \in Txn :
         \/ \E state \in {"in_flight", "settled"} : AppendEntry(n, state)
         \/ \E i \in 1..Len(entries[n]), state \in {"settled", "discarded"} :
              Settle(n, i, state)
         \/ \E seq \in 0..Len(entries[n]) : PublishNoEntry(n, seq)
    \/ \E e \in EntryId : Publish(e)
    \/ \E kind \in Kind : JournalLine(kind)
    \/ \E l \in 1..MaxLines : NotifyJournal(l)
    \/ Piggyback
    \/ \E w \in Caller : RunStep(w) \/ SessionStep(w)

Spec == Init /\ [][Next]_awaitVars

-----------------------------------------------------------------------------
(* Properties.                                                             *)

\* What an answer reports is on the record with its verdict: a hint comes
\* after the change, and a call still in flight is no news.
ReportedIsStored == \A w \in Caller : shown[w] \subseteq Settled

\* The seq of an answer, passed back and not set aside, is one above which
\* nothing is that was reported before. (Of the same attempt: the run's key
\* also carries what arrives late for an attempt restarted since.)
NothingSeenTwice == \A w \in Caller : twice[w] = {}

\* No wait is parked above the high-water mark of what it listens to, whatever
\* number it was given: the next exchange wakes it.
NeverDeaf ==
    \A w \in Caller : run[w].pc = "parked" =>
        run[w].base <= IF run[w].key = RunKey THEN 0 ELSE Len(entries[run[w].key])

\* A wait is not parked with an event above its cursor published since it
\* parked: one parked before the run had a transaction hears the call that
\* binds it. (One published between the read and the parking is not heard.)
EveryHintIsHeard ==
    \A w \in Caller : run[w].pc = "parked" => Due(w) \subseteq run[w].missed

\* An unfiltered wait on the session that timed out left no line behind that
\* was stored when it was called, or last stopped being parked: its loop
\* drains at the top, after a time-out too.
TimedOutIsQuiet ==
    \A w \in Caller :
        session[w].timedOut /\ session[w].filter = Kind =>
            session[w].owed <= drained

\* A wait that a dead-end line woke does not park again: no run event would
\* ever end it. (If the journal cannot be read it does, and the line is passed.)
DeadEndEndsTheWait ==
    \A w \in Caller : run[w].dead => run[w].pc = "woken"

\* "With a cursor, the oldest unseen exchange, so a caller stepping through
\* skips nothing" (flow.await-run.ts:149).
NothingSkipped ==
    \A w \in Caller, e \in Settled :
        e[1] = cursor[w].of /\ e[2] <= cursor[w].seq => e \in shown[w]
=============================================================================
