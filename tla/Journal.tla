------------------------------ MODULE Journal ------------------------------
(***************************************************************************)
(* The session journal: lines that anything happening in a session writes, *)
(* and the drain that hands the model, on its next tool call, what it has  *)
(* not been told.  The journal, its counter and the delivery cursor live   *)
(* in the store; writers and drains interleave at every store call.        *)
(***************************************************************************)
EXTENDS Naturals, Sequences, FiniteSets

CONSTANTS
    Line,           \* the lines written, each by its own call of journal
    Drain,          \* tool calls of one session that may be under way together
    JournalLimit,   \* JOURNAL_LIMIT: lines kept
    DeltaLimit,     \* EVENTS_DELTA_LIMIT: lines handed over by one drain
    MaxFaults       \* bound: rejected store calls and restarts

ASSUME LineAssumption == IsFiniteSet(Line)
ASSUME LimitAssumption ==
    JournalLimit \in Nat \ {0} /\ DeltaLimit \in Nat \ {0} /\ MaxFaults \in Nat

VARIABLES
    counter,    \* journal_seq: the last number reserved
    journal,    \* journal: the lines stored, oldest append first
    cursor,     \* journal_cursor: delivered up to here
    seqOf,      \* seqOf[l]: the number l reserved, 0 before
    writer,     \* writer[l]: where l's journal call is
    drain,      \* drain[d]: where drain d is
    from,       \* from[d]: the cursor d read
    delta,      \* delta[d]: the lines d is going to hand over
    told,       \* the lines handed over (history)
    lost,       \* lines the cursor passed while the call carrying them failed (history)
    highest,    \* the highest number ever appended (history)
    late,       \* lines appended after one with a higher number (history)
    overlapped, \* two drains have been under way together (history)
    faults      \* rejected store calls and restarts so far

stores == <<counter, journal, cursor>>
writers == <<seqOf, writer>>
drains == <<drain, from, delta>>
history == <<told, lost, highest, late, overlapped>>
vars == <<stores, writers, drains, history, faults>>

Stored == {journal[i] : i \in DOMAIN journal}

Init ==
    /\ counter = 0 /\ journal = <<>> /\ cursor = 0
    /\ seqOf = [l \in Line |-> 0]
    /\ writer = [l \in Line |-> "idle"]
    /\ drain = [d \in Drain |-> "idle"]
    /\ from = [d \in Drain |-> 0]
    /\ delta = [d \in Drain |-> {}]
    /\ told = {} /\ lost = {} /\ highest = 0 /\ late = {} /\ overlapped = FALSE
    /\ faults = 0

----------------------------------------------------------------------------
(* RecordService.journal *)

\* nextJournalSeq: one atomic increment.
Reserve(l) ==
    /\ writer[l] = "idle"
    /\ counter' = counter + 1
    /\ seqOf' = [seqOf EXCEPT ![l] = counter + 1]
    /\ writer' = [writer EXCEPT ![l] = "append"]
    /\ UNCHANGED <<journal, cursor, drains, history, faults>>

\* The newest JournalLimit lines.
Trimmed(s) == IF Len(s) <= JournalLimit THEN s ELSE SubSeq(s, Len(s) - JournalLimit + 1, Len(s))

\* appendJournal: one atomic append that trims the oldest.
AppendLine(l) ==
    /\ writer[l] = "append"
    /\ journal' = Trimmed(Append(journal, l))
    /\ writer' = [writer EXCEPT ![l] = "done"]
    /\ highest' = IF highest < seqOf[l] THEN seqOf[l] ELSE highest
    /\ late' = IF seqOf[l] < highest THEN late \cup {l} ELSE late
    /\ UNCHANGED <<counter, cursor, seqOf, drains, told, lost, overlapped, faults>>

\* Either store call rejects and the line is forgotten: journal never throws.
\* (A rejected reservation that took effect is a forgotten append.)
WriteFails(l) ==
    /\ writer[l] \in {"idle", "append"}
    /\ faults < MaxFaults /\ faults' = faults + 1
    /\ writer' = [writer EXCEPT ![l] = "done"]
    /\ UNCHANGED <<stores, seqOf, drains, history>>

----------------------------------------------------------------------------
(* RecordService.drainEvents *)

\* getEventCursor
ReadCursor(d) ==
    /\ drain[d] = "idle"
    /\ drain' = [drain EXCEPT ![d] = "read"]
    /\ from' = [from EXCEPT ![d] = cursor]
    /\ overlapped' = (overlapped \/ \E e \in Drain : drain[e] # "idle")
    /\ UNCHANGED <<stores, writers, delta, told, lost, highest, late, faults>>

\* Mutants: the line at the cursor is pending still; the one after it is not.
SinceInclusive(n) == {l \in Stored : seqOf[l] >= n}
SinceSkipping(n) == {l \in Stored : seqOf[l] > n + 1}

Since(n) == {l \in Stored : seqOf[l] > n}

\* The DeltaLimit lines of S with the lowest numbers.
Oldest(S) == {l \in S : Cardinality({m \in S : seqOf[m] < seqOf[l]}) < DeltaLimit}

\* journalSince: an empty drain adds nothing to the tool result.
ReadJournal(d) ==
    /\ drain[d] = "read"
    /\ drain' = [drain EXCEPT ![d] = IF Since(from[d]) = {} THEN "idle" ELSE "set"]
    /\ delta' = [delta EXCEPT ![d] = Oldest(Since(from[d]))]
    /\ UNCHANGED <<stores, writers, from, history, faults>>

\* Mutant: the cursor moves past everything pending, withheld lines too.
SetCursorPastAll(d) ==
    /\ drain[d] = "set"
    /\ cursor' = highest
    /\ drain' = [drain EXCEPT ![d] = "return"]
    /\ UNCHANGED <<counter, journal, writers, from, delta, history, faults>>

\* setEventCursor: the number of the last line of the delta.
SetCursor(d) ==
    /\ drain[d] = "set"
    /\ \E l \in delta[d] :
         /\ \A m \in delta[d] : seqOf[m] <= seqOf[l]
         /\ cursor' = seqOf[l]
    /\ drain' = [drain EXCEPT ![d] = "return"]
    /\ UNCHANGED <<counter, journal, writers, from, delta, history, faults>>

\* The tool result carries the delta; the next call may drain again.
HandOver(d) ==
    /\ drain[d] = "return"
    /\ told' = told \cup delta[d]
    /\ delta' = [delta EXCEPT ![d] = {}]
    /\ drain' = [drain EXCEPT ![d] = "idle"]
    /\ UNCHANGED <<stores, writers, from, lost, highest, late, overlapped, faults>>

\* A store call rejects: the result carries no events.  At "return" it is the
\* cursor that was written and the answer that was lost.
DrainFails(d) ==
    /\ drain[d] \in {"read", "set", "return"}
    /\ faults < MaxFaults /\ faults' = faults + 1
    /\ lost' = IF drain[d] = "return" THEN lost \cup delta[d] ELSE lost
    /\ delta' = [delta EXCEPT ![d] = {}]
    /\ drain' = [drain EXCEPT ![d] = "idle"]
    /\ UNCHANGED <<stores, writers, from, told, highest, late, overlapped>>

\* The process restarts.  The stores persist; calls under way do not.
Restart ==
    /\ faults < MaxFaults /\ faults' = faults + 1
    /\ writer' = [l \in Line |-> IF writer[l] = "append" THEN "done" ELSE writer[l]]
    /\ lost' = lost \cup UNION {delta[d] : d \in {e \in Drain : drain[e] = "return"}}
    /\ drain' = [d \in Drain |-> "idle"]
    /\ delta' = [d \in Drain |-> {}]
    /\ UNCHANGED <<stores, seqOf, from, told, highest, late, overlapped>>

Next ==
    \/ \E l \in Line : Reserve(l) \/ AppendLine(l) \/ WriteFails(l)
    \/ \E d \in Drain :
         ReadCursor(d) \/ ReadJournal(d) \/ SetCursor(d) \/ HandOver(d) \/ DrainFails(d)
    \/ Restart

Spec == Init /\ [][Next]_vars

\* The model goes on calling tools, and every call it makes drains to its end.
FairSpec ==
    /\ Spec
    /\ \A d \in Drain : WF_vars(ReadCursor(d) \/ ReadJournal(d) \/ SetCursor(d) \/ HandOver(d))

----------------------------------------------------------------------------
JournalTypeOK ==
    /\ counter \in Nat /\ cursor \in Nat /\ highest \in Nat
    /\ journal \in Seq(Line)
    /\ Len(journal) <= JournalLimit
    /\ seqOf \in [Line -> Nat]
    /\ writer \in [Line -> {"idle", "append", "done"}]
    /\ drain \in [Drain -> {"idle", "read", "set", "return"}]
    /\ from \in [Drain -> Nat]
    /\ delta \in [Drain -> SUBSET Line]
    /\ told \subseteq Line /\ lost \subseteq Line /\ late \subseteq Line
    /\ overlapped \in BOOLEAN
    /\ faults \in Nat

\* About to be handed over by a drain that has moved the cursor.
Leaving == UNION {delta[d] : d \in {e \in Drain : drain[e] = "return"}}

\* The cursor moves past what is delivered and never past what is withheld:
\* a stored line behind it was handed over, or is about to be, or went down
\* with the call that carried it, or was appended out of order.
NothingWithheldIsPassed ==
    \A l \in Stored : seqOf[l] <= cursor => l \in told \cup Leaving \cup lost \cup late

\* The same with nothing excused: delivery is unavoidable (ARCHITECTURE.md:943).
NothingIsPassed ==
    \A l \in Stored : seqOf[l] <= cursor => l \in told \cup Leaving \cup lost

\* As long as drains do not overlap, one hands over only lines newer than
\* every line handed over before: nothing twice, nothing out of order.
DeliveredInOrder ==
    \A d \in Drain : drain[d] = "return" /\ ~overlapped
        => \A l \in delta[d], m \in told : seqOf[m] < seqOf[l]

\* Every line that was appended in order is delivered, unless the log's limit
\* pushed it out or the call carrying it failed.
EveryLineIsDelivered ==
    \A l \in Line : l \in Stored \ late ~> l \in told \cup lost \/ l \notin Stored
=============================================================================
