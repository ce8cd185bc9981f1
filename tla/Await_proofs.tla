---------------------------- MODULE Await_proofs ----------------------------
(***************************************************************************)
(* Proofs about waiting, for any number of callers, of attempts, of        *)
(* exchanges and of journal lines.                                         *)
(*                                                                         *)
(* What a caller knows is a number, and what it was shown.  The argument   *)
(* is about what the number is worth while the run moves on: everything    *)
(* shown of the current attempt is at or below it (ShownIsBelow), a wait   *)
(* keeps the number it was called with (OwnBase), only what is above it    *)
(* ends the wait (EventIsNew), and an attempt nobody has opened has no     *)
(* exchanges, so that a restart takes no number with it (Unopened).        *)
(***************************************************************************)
EXTENDS Await, FiniteSetTheorems, WellFoundedInduction, TLAPS

EntryState == {"in_flight", "settled", "discarded"}

AwaitTypeOK ==
    /\ attempt \in Txn /\ bound \in BOOLEAN
    /\ entries \in [Txn -> Seq(EntryState)]
    /\ \A n \in Txn : Len(entries[n]) <= MaxEntries
    /\ lines \in Seq(Kind) /\ Len(lines) <= MaxLines
    /\ drained \in 0..Len(lines)
    /\ unannounced \subseteq Settled
    /\ unheard \subseteq 1..Len(lines)
    /\ run \in [Caller -> RunWait]
    /\ session \in [Caller -> SessionWait]
    /\ cursor \in [Caller -> [of : Txn \cup {RunKey}, seq : Nat]]
    /\ shown \in [Caller -> SUBSET EntryId]
    /\ twice \in [Caller -> SUBSET EntryId]

Waiting(w) == run[w].pc \in {"deciding", "parked", "woken", "checked"}

\* An attempt without a transaction has no exchanges.
Unopened == \A n \in Txn : ~Opened(n) => entries[n] = <<>>

\* What is going to be reported is stored, and above what the wait was given.
EventIsNew ==
    \A w \in Caller : run[w].event # NoEvent =>
        run[w].event \in Settled /\ run[w].event[2] > run[w].base

\* A wait called with the number of the last answer keeps it.
OwnBase ==
    \A w \in Caller : run[w].pc # "idle" /\ run[w].own => run[w].base = cursor[w].seq

\* Of the current attempt, nothing above the caller's number has been shown,
\* nor above the number a declined wait would answer with.
ShownIsBelow ==
    \A w \in Caller : \A e \in shown[w] : e[1] = attempt =>
        /\ e[2] <= cursor[w].seq
        /\ run[w].pc = "deciding" => e[2] <= run[w].loaded

\* Nobody waits above the high-water mark of what it listens to.
WithinReach ==
    \A w \in Caller : Waiting(w) =>
        run[w].base <= IF run[w].key = RunKey THEN 0 ELSE Len(entries[run[w].key])

\* A dead-end line that woke a wait is there to be found.
DeadEndIsThere ==
    \A w \in Caller : run[w].dead =>
        /\ run[w].pc = "woken"
        /\ run[w].wake \in run[w].jseq + 1..Len(lines)
        /\ lines[run[w].wake] = "dead_end"

\* A wait on the session owes no more than there is.
OwedIsThere ==
    \A w \in Caller :
        /\ session[w].owed <= Len(lines)
        /\ session[w].timedOut => session[w].pc = "idle"

RunInv ==
    /\ Unopened
    /\ EventIsNew
    /\ OwnBase
    /\ ShownIsBelow
    /\ ReportedIsStored
    /\ NothingSeenTwice
    /\ WithinReach
    /\ EveryHintIsHeard
    /\ DeadEndIsThere

SessionInv == OwedIsThere /\ TimedOutIsQuiet

AwaitInv == AwaitTypeOK /\ RunInv /\ SessionInv
----------------------------------------------------------------------------
(* Sets of numbers, and of exchanges.                                      *)

LEMMA LeastExists ==
    ASSUME NEW S \in SUBSET Nat, S # {}
    PROVE  \E x \in S : \A y \in S : x <= y
<1> DEFINE R == OpToRel(<, Nat)
<1>1. \A x, y \in Nat : <<x, y>> \in R <=> x < y
    BY DEF OpToRel
<1>2. IsWellFoundedOn(R, Nat)
    BY NatLessThanWellFounded
<1> HIDE DEF R
<1>3. PICK x \in S : \A y \in S : ~(<<y, x>> \in R)
    BY <1>2, WFMin
<1>4. ASSUME NEW y \in S PROVE x <= y
    <2>1. x \in Nat /\ y \in Nat
        OBVIOUS
    <2>2. ~(y < x)
        BY <1>1, <1>3, <2>1
    <2> QED
        BY <2>1, <2>2
<1> QED
    BY <1>4

LEMMA GreatestExists ==
    ASSUME NEW S \in SUBSET Nat, S # {}, NEW n \in Nat, \A x \in S : x <= n
    PROVE  \E x \in S : \A y \in S : y <= x
<1> DEFINE T == {k \in Nat : \E x \in S : k = n - x}
<1>1. T \in SUBSET Nat /\ T # {}
    <2>1. PICK x \in S : TRUE
        OBVIOUS
    <2>2. n - x \in Nat
        OBVIOUS
    <2> QED
        BY <2>2
<1>2. PICK k \in T : \A y \in T : k <= y
    BY <1>1, LeastExists
<1>3. PICK x \in S : k = n - x
    BY <1>2
<1>4. ASSUME NEW y \in S PROVE y <= x
    <2>1. n - y \in T
        OBVIOUS
    <2> QED
        BY <1>2, <1>3, <2>1
<1> QED
    BY <1>4

LEMMA BoundsAre ==
    MaxAttempts \in Nat \ {0} /\ MaxEntries \in Nat \ {0} /\ DeltaLimit \in Nat \ {0} /\ MaxLines \in Nat
<1>1. {MaxAttempts, MaxEntries, DeltaLimit} \subseteq Nat \ {0}
    BY BoundsAssumption
<1> QED
    BY <1>1, BoundsAssumption

USE BoundsAre

\* The exchange that answers a wait at once is one of those that may.
LEMMA RecordedIsUnseen ==
    ASSUME NEW after \in Nat, HighWater \in Nat, Unseen(after) # {}
    PROVE  Recorded(after) \in Unseen(after)
<1> DEFINE S == Unseen(after)
<1>1. S \in SUBSET Nat /\ \A i \in S : i <= HighWater
    BY DEF Unseen, Candidates
<1>2. \E i \in S : \A j \in S : i <= j
    BY <1>1, LeastExists
<1>3. \E i \in S : \A j \in S : i >= j
    <2>1. \E i \in S : \A j \in S : j <= i
        BY <1>1, GreatestExists
    <2> QED
        BY <1>1, <2>1
<1> HIDE DEF S
<1>4. \E i \in S : \A j \in S : IF Accepted(after) THEN i <= j ELSE i >= j
    BY <1>2, <1>3
<1> QED
    BY <1>4 DEF Recorded, S

\* While the bound on exchanges leaves room, it leaves room on every list.
LEMMA RoomOnEveryList ==
    ASSUME NEW n \in Txn, Cardinality(Exchanges) < MaxEntries,
           Len(entries[n]) \in Nat, Len(entries[n]) <= MaxEntries
    PROVE  Len(entries[n]) < MaxEntries
<1> SUFFICES ASSUME Len(entries[n]) = MaxEntries PROVE FALSE
    OBVIOUS
<1> DEFINE S == {n} \X (1..MaxEntries)
<1>1. IsFiniteSet(Txn) /\ IsFiniteSet(1..MaxEntries) /\ Cardinality(1..MaxEntries) = MaxEntries
    BY FS_Interval DEF Txn
<1>2. IsFiniteSet(Exchanges)
    <2>1. IsFiniteSet(EntryId)
        BY <1>1, FS_Product DEF EntryId
    <2> QED
        BY <2>1, FS_Subset DEF Exchanges
<1>3. Cardinality(S) = MaxEntries
    <2>1. IsFiniteSet({n}) /\ Cardinality({n}) = 1
        BY FS_Singleton
    <2>2. Cardinality(S) = Cardinality({n}) * Cardinality(1..MaxEntries)
        BY <1>1, <2>1, FS_Product
    <2> QED
        BY <1>1, <2>1, <2>2
<1>4. S \subseteq Exchanges
    BY DEF Exchanges, EntryId
<1>5. Cardinality(S) <= Cardinality(Exchanges) /\ Cardinality(Exchanges) \in Nat
    BY <1>2, <1>4, FS_Subset, FS_CardinalityType
<1> QED
    BY <1>3, <1>5

\* Of an exchange: whether it is settled.
LEMMA SettledMeans ==
    ASSUME NEW n \in Txn, NEW i \in 1..MaxEntries
    PROVE  /\ <<n, i>> \in Settled <=> i <= Len(entries[n]) /\ entries[n][i] = "settled"
           /\ <<n, i>> \in Settled' <=> i <= Len(entries'[n]) /\ entries'[n][i] = "settled"
BY DEF Settled, Exchanges, EntryId

LEMMA EntryIdIsPair ==
    ASSUME NEW e \in EntryId
    PROVE  e = <<e[1], e[2]>> /\ e[1] \in Txn /\ e[2] \in 1..MaxEntries /\ e # NoEvent
<1>1. e = <<e[1], e[2]>> /\ e[1] \in Txn /\ e[2] \in 1..MaxEntries
    BY DEF EntryId
<1>2. PICK n \in Txn, i \in 1..MaxEntries : e = <<n, i>>
    BY DEF EntryId
<1>3. Len(<<n, i>>) = 2 /\ Len(<<>>) = 0
    OBVIOUS
<1>4. e # NoEvent
    BY <1>2, <1>3 DEF NoEvent
<1> QED
    BY <1>1, <1>4

LEMMA SameExchanges ==
    ASSUME NEW S \in SUBSET EntryId, NEW T \in SUBSET EntryId,
           \A n \in Txn, i \in 1..MaxEntries : <<n, i>> \in S <=> <<n, i>> \in T
    PROVE  S = T
<1>1. \A e \in EntryId : e \in S <=> e \in T
    BY DEF EntryId
<1> QED
    BY <1>1

LEMMA AwaitInvInit == Init => AwaitInv
<1> SUFFICES ASSUME Init PROVE AwaitInv
    OBVIOUS
<1>1. Settled = {}
    BY DEF Init, Settled, Exchanges, EntryId
<1>2. IdleRun \in RunWait /\ IdleSession \in SessionWait
    BY DEF IdleRun, RunWait, IdleSession, SessionWait
<1>3. AwaitTypeOK
    <2>1. attempt \in Txn /\ bound \in BOOLEAN
        <3>1. 1 \in Txn
            BY DEF Txn
        <3>2. attempt = 1 /\ bound = FALSE
            BY DEF Init
        <3> QED
            BY <3>1, <3>2
    <2>2. entries \in [Txn -> Seq(EntryState)] /\ \A n \in Txn : Len(entries[n]) <= MaxEntries
        BY DEF Init
    <2>3. /\ lines \in Seq(Kind) /\ Len(lines) <= MaxLines /\ drained \in 0..Len(lines)
          /\ unheard \subseteq 1..Len(lines) /\ unannounced \subseteq Settled
        BY DEF Init
    <2>4. /\ run \in [Caller -> RunWait] /\ session \in [Caller -> SessionWait]
          /\ cursor \in [Caller -> [of : Txn \cup {RunKey}, seq : Nat]]
          /\ shown \in [Caller -> SUBSET EntryId] /\ twice \in [Caller -> SUBSET EntryId]
        BY <1>2 DEF Init
    <2> QED
        BY <2>1, <2>2, <2>3, <2>4 DEF AwaitTypeOK
<1>4. RunInv
    BY DEF Init, RunInv, Unopened, EventIsNew, OwnBase, ShownIsBelow, ReportedIsStored,
       NothingSeenTwice, WithinReach, Waiting, EveryHintIsHeard, DeadEndIsThere, IdleRun
<1>5. SessionInv
    BY DEF Init, SessionInv, OwedIsThere, TimedOutIsQuiet, IdleSession
<1> QED
    BY <1>3, <1>4, <1>5 DEF AwaitInv
----------------------------------------------------------------------------
(* The record moves.                                                       *)

LEMMA SameEntries ==
    ASSUME entries' = entries
    PROVE  Settled' = Settled
BY DEF Settled, Exchanges

LEMMA TypesAre ==
    ASSUME AwaitTypeOK
    PROVE  /\ attempt \in Nat /\ attempt \in 1..MaxAttempts
           /\ \A n \in Txn : /\ entries[n] \in Seq(EntryState)
                             /\ Len(entries[n]) \in 0..MaxEntries
           /\ Len(lines) \in 0..MaxLines /\ drained \in Nat
           /\ HighWater \in 0..MaxEntries
           /\ Key \in Txn \cup {RunKey}
<1>1. \A n \in Txn : entries[n] \in Seq(EntryState) /\ Len(entries[n]) \in 0..MaxEntries
    BY DEF AwaitTypeOK
<1>2. HighWater \in 0..MaxEntries
    BY <1>1 DEF AwaitTypeOK, HighWater, Current
<1> QED
    BY <1>1, <1>2 DEF AwaitTypeOK, Txn, Key

\* Shown exchanges are of attempts that were opened.
LEMMA ShownIsOpened ==
    ASSUME AwaitInv, NEW e \in Settled
    PROVE  Opened(e[1]) /\ e[1] \in Txn /\ e[2] \in 1..Len(entries[e[1]]) /\ e \in EntryId
<1>1. e \in EntryId /\ e[2] <= Len(entries[e[1]])
    BY DEF Settled, Exchanges
<1>2. e[1] \in Txn /\ e[2] \in 1..MaxEntries
    BY <1>1, EntryIdIsPair
<1>3. Len(entries[e[1]]) \in Nat
    BY <1>2, TypesAre DEF AwaitInv
<1>4. entries[e[1]] # <<>>
    BY <1>1, <1>2, <1>3
<1> QED
    BY <1>1, <1>2, <1>3, <1>4 DEF AwaitInv, RunInv, Unopened

LEMMA RecordMoves ==
    ASSUME AwaitInv, AwaitTypeOK', Unopened', UNCHANGED <<run, session, knowledge, lines, drained>>,
           \A n \in Txn : Len(entries[n]) <= Len(entries'[n]),
           Settled \subseteq Settled', Announced' \subseteq Announced,
           attempt' = attempt \/ attempt' = attempt + 1
    PROVE  AwaitInv'
<1> USE DEF AwaitInv, RunInv, SessionInv, knowledge
<1>1. EventIsNew' /\ OwnBase' /\ ReportedIsStored' /\ NothingSeenTwice' /\ DeadEndIsThere'
    BY DEF EventIsNew, OwnBase, ReportedIsStored, NothingSeenTwice, DeadEndIsThere
<1>2. ShownIsBelow'
    <2>1. CASE attempt' = attempt
        BY <2>1 DEF ShownIsBelow
    <2>2. CASE attempt' = attempt + 1
        <3>1. ASSUME NEW w \in Caller, NEW e \in shown[w] PROVE e[1] # attempt'
            <4>1. Opened(e[1]) /\ e[1] \in Txn
                BY <3>1, ShownIsOpened DEF ReportedIsStored
            <4> QED
                BY <2>2, <4>1, TypesAre DEF Opened, Txn
        <3> QED
            BY <3>1 DEF ShownIsBelow
    <2> QED
        BY <2>1, <2>2
<1>3. WithinReach'
    <2> SUFFICES ASSUME NEW w \in Caller, Waiting(w)
                 PROVE  run[w].base <= IF run[w].key = RunKey THEN 0 ELSE Len(entries'[run[w].key])
        BY DEF WithinReach, Waiting
    <2>1. run[w].base \in Nat /\ run[w].key \in Txn \cup {RunKey}
        BY DEF AwaitTypeOK, RunWait
    <2>2. run[w].base <= IF run[w].key = RunKey THEN 0 ELSE Len(entries[run[w].key])
        BY DEF WithinReach
    <2>3. run[w].key # RunKey => /\ Len(entries[run[w].key]) \in Nat
                                 /\ Len(entries'[run[w].key]) \in Nat
                                 /\ Len(entries[run[w].key]) <= Len(entries'[run[w].key])
        BY <2>1 DEF AwaitTypeOK
    <2> QED
        BY <2>1, <2>2, <2>3
<1>4. EveryHintIsHeard'
    BY DEF EveryHintIsHeard, Due
<1>5. OwedIsThere' /\ TimedOutIsQuiet'
    BY DEF OwedIsThere, TimedOutIsQuiet
<1> QED
    BY <1>1, <1>2, <1>3, <1>4, <1>5

LEMMA BindStep == AwaitInv /\ Bind => AwaitInv'
<1> SUFFICES ASSUME AwaitInv, Bind PROVE AwaitInv'
    OBVIOUS
<1>1. /\ bound' = TRUE
      /\ UNCHANGED <<attempt, entries, lines, drained, unannounced, unheard, run, session, knowledge>>
    BY DEF Bind
<1>2. Settled' = Settled /\ Announced' = Announced
    BY <1>1, SameEntries DEF Announced
<1>3. AwaitTypeOK'
    BY <1>1, <1>2 DEF AwaitInv, AwaitTypeOK, knowledge
<1>4. Unopened'
    BY <1>1 DEF AwaitInv, RunInv, Unopened, Opened
<1>5. \A n \in Txn : Len(entries[n]) <= Len(entries'[n])
    BY <1>1, TypesAre DEF AwaitInv
<1> QED
    BY <1>1, <1>2, <1>3, <1>4, <1>5, RecordMoves

LEMMA RestartStep == AwaitInv /\ Restart => AwaitInv'
<1> SUFFICES ASSUME AwaitInv, Restart PROVE AwaitInv'
    OBVIOUS
<1>1. /\ attempt < MaxAttempts /\ attempt' = attempt + 1 /\ bound' = FALSE
      /\ UNCHANGED <<entries, lines, drained, unannounced, unheard, run, session, knowledge>>
    BY DEF Restart
<1>2. Settled' = Settled /\ Announced' = Announced
    BY <1>1, SameEntries DEF Announced
<1>3. attempt' \in Txn
    BY <1>1, TypesAre DEF AwaitInv, Txn
<1>4. AwaitTypeOK'
    BY <1>1, <1>2, <1>3 DEF AwaitInv, AwaitTypeOK, knowledge
<1>5. Unopened'
    BY <1>1, TypesAre DEF AwaitInv, RunInv, Unopened, Opened, Txn
<1>6. \A n \in Txn : Len(entries[n]) <= Len(entries'[n])
    BY <1>1, TypesAre DEF AwaitInv
<1> QED
    BY <1>1, <1>2, <1>4, <1>5, <1>6, RecordMoves

LEMMA AppendStep ==
    ASSUME AwaitInv, NEW n \in Txn, NEW state \in {"in_flight", "settled"}, AppendEntry(n, state)
    PROVE  AwaitInv'
<1> DEFINE new == <<n, Len(entries[n]) + 1>>
<1>1. /\ Opened(n)
      /\ entries' = [entries EXCEPT ![n] = Append(@, state)]
      /\ unannounced' = IF state = "settled" THEN unannounced \cup {new} ELSE unannounced
      /\ UNCHANGED <<attempt, bound, lines, drained, unheard, run, session, knowledge>>
    BY DEF AppendEntry, Unlocked
<1>2. Len(entries[n]) < MaxEntries /\ Len(entries[n]) \in Nat /\ entries[n] \in Seq(EntryState)
    BY TypesAre, RoomOnEveryList DEF AppendEntry, AwaitInv
<1>3. state \in EntryState
    BY DEF EntryState
<1>4. /\ entries' \in [Txn -> Seq(EntryState)]
      /\ entries'[n] = Append(entries[n], state)
      /\ Len(entries'[n]) = Len(entries[n]) + 1
      /\ entries'[n][Len(entries[n]) + 1] = state
      /\ \A i \in 1..Len(entries[n]) : entries'[n][i] = entries[n][i]
      /\ \A m \in Txn : m # n => entries'[m] = entries[m]
    BY <1>1, <1>2, <1>3 DEF AwaitInv, AwaitTypeOK
<1>5. new \in EntryId
    BY <1>2 DEF EntryId
<1>6. Settled' = IF state = "settled" THEN Settled \cup {new} ELSE Settled
    <2>1. ASSUME NEW m \in Txn, NEW i \in 1..MaxEntries
          PROVE  <<m, i>> \in Settled' <=> <<m, i>> \in Settled \/ (state = "settled" /\ <<m, i>> = new)
        <3>1. CASE m # n
            BY <1>4, <3>1, SettledMeans
        <3>2. CASE m = n
            <4>1. <<m, i>> = new <=> i = Len(entries[n]) + 1
                BY <3>2
            <4>2. CASE i = Len(entries[n]) + 1
                BY <1>2, <1>4, <3>2, <4>1, <4>2, SettledMeans
            <4>3. CASE i # Len(entries[n]) + 1
                <5>1. CASE i \in 1..Len(entries[n])
                    <6>1. /\ i <= Len(entries[n]) /\ i <= Len(entries'[n])
                          /\ entries'[n][i] = entries[n][i]
                        BY <1>2, <1>4, <5>1
                    <6> QED
                        BY <3>2, <4>1, <4>3, <6>1, SettledMeans
                <5>2. CASE i \notin 1..Len(entries[n])
                    <6>1. ~(i <= Len(entries[n])) /\ ~(i <= Len(entries'[n]))
                        BY <1>2, <1>4, <4>3, <5>2
                    <6> QED
                        BY <3>2, <4>1, <4>3, <6>1, SettledMeans
                <5> QED
                    BY <5>1, <5>2
            <4> QED
                BY <4>2, <4>3
        <3> QED
            BY <3>1, <3>2
    <2>2. Settled \subseteq EntryId /\ Settled' \subseteq EntryId
        BY DEF Settled, Exchanges
    <2>3. CASE state = "settled"
        <3>1. \A m \in Txn, j \in 1..MaxEntries : <<m, j>> \in Settled' <=> <<m, j>> \in Settled \cup {new}
            BY <2>1, <2>3
        <3> HIDE DEF new
        <3>2. PICK both : both = Settled \cup {new}
            OBVIOUS
        <3>3. both \in SUBSET EntryId /\ Settled' \in SUBSET EntryId
            BY <1>5, <2>2, <3>2
        <3>4. Settled' = both
            BY <3>1, <3>2, <3>3, SameExchanges
        <3> QED
            BY <2>3, <3>2, <3>4
    <2>4. CASE state # "settled"
        <3>1. Settled' = Settled
            BY <2>1, <2>2, <2>4, SameExchanges
        <3> QED
            BY <2>4, <3>1
    <2> QED
        BY <2>3, <2>4
<1> HIDE DEF new
<1>7. Settled \subseteq Settled' /\ Announced' \subseteq Announced
    BY <1>1, <1>6 DEF Announced
<1>8. AwaitTypeOK'
    <2>1. unannounced' \subseteq Settled'
        BY <1>1, <1>6 DEF AwaitInv, AwaitTypeOK
    <2>2. ASSUME NEW m \in Txn PROVE Len(entries'[m]) <= MaxEntries
        <3>1. CASE m = n
            BY <1>2, <1>4, <3>1
        <3>2. CASE m # n
            BY <1>4, <3>2 DEF AwaitInv, AwaitTypeOK
        <3> QED
            BY <3>1, <3>2
    <2> QED
        BY <1>1, <1>4, <2>1, <2>2 DEF AwaitInv, AwaitTypeOK, knowledge
<1>9. Unopened'
    BY <1>1, <1>4 DEF AwaitInv, RunInv, Unopened, Opened
<1>10. ASSUME NEW m \in Txn PROVE Len(entries[m]) <= Len(entries'[m])
    <2>1. CASE m = n
        BY <1>2, <1>4, <2>1
    <2>2. CASE m # n
        BY <1>4, <2>2, TypesAre DEF AwaitInv
    <2> QED
        BY <2>1, <2>2
<1> QED
    BY <1>1, <1>7, <1>8, <1>9, <1>10, RecordMoves

LEMMA SettleStep ==
    ASSUME AwaitInv, NEW n \in Txn, NEW i \in 1..Len(entries[n]),
           NEW state \in {"settled", "discarded"}, Settle(n, i, state)
    PROVE  AwaitInv'
<1> DEFINE new == <<n, i>>
<1>1. /\ Opened(n) /\ entries[n][i] = "in_flight"
      /\ entries' = [entries EXCEPT ![n][i] = state]
      /\ unannounced' = IF state = "settled" THEN unannounced \cup {new} ELSE unannounced
      /\ UNCHANGED <<attempt, bound, lines, drained, unheard, run, session, knowledge>>
    BY DEF Settle, Unlocked
<1>2. Len(entries[n]) <= MaxEntries /\ Len(entries[n]) \in Nat /\ entries[n] \in Seq(EntryState)
    BY TypesAre DEF AwaitInv
<1>3. state \in EntryState
    BY DEF EntryState
<1>4. /\ entries' \in [Txn -> Seq(EntryState)]
      /\ Len(entries'[n]) = Len(entries[n])
      /\ entries'[n][i] = state
      /\ \A j \in 1..Len(entries[n]) : j # i => entries'[n][j] = entries[n][j]
      /\ \A m \in Txn : m # n => entries'[m] = entries[m]
    <2>1. entries'[n] = [entries[n] EXCEPT ![i] = state] /\ DOMAIN entries' = Txn
        BY <1>1 DEF AwaitInv, AwaitTypeOK
    <2>2. [entries[n] EXCEPT ![i] = state] \in Seq(EntryState)
        BY <1>2, <1>3
    <2>3. \A m \in Txn : m # n => entries'[m] = entries[m]
        BY <1>1 DEF AwaitInv, AwaitTypeOK
    <2>4. entries' \in [Txn -> Seq(EntryState)]
        BY <1>1, <1>2, <2>1, <2>2, <2>3 DEF AwaitInv, AwaitTypeOK
    <2> QED
        BY <1>2, <2>1, <2>2, <2>3, <2>4
<1>5. new \in EntryId
    BY <1>2 DEF EntryId
<1>6. Settled' = IF state = "settled" THEN Settled \cup {new} ELSE Settled
    <2>1. ASSUME NEW m \in Txn, NEW j \in 1..MaxEntries
          PROVE  <<m, j>> \in Settled' <=> <<m, j>> \in Settled \/ (state = "settled" /\ <<m, j>> = new)
        <3>1. CASE m # n
            BY <1>4, <3>1, SettledMeans
        <3>2. CASE m = n
            BY <1>1, <1>2, <1>4, <3>2, SettledMeans
        <3> QED
            BY <3>1, <3>2
    <2>2. Settled \subseteq EntryId /\ Settled' \subseteq EntryId
        BY DEF Settled, Exchanges
    <2>3. CASE state = "settled"
        <3>1. \A m \in Txn, j \in 1..MaxEntries : <<m, j>> \in Settled' <=> <<m, j>> \in Settled \cup {new}
            BY <2>1, <2>3
        <3> HIDE DEF new
        <3>2. PICK both : both = Settled \cup {new}
            OBVIOUS
        <3>3. both \in SUBSET EntryId /\ Settled' \in SUBSET EntryId
            BY <1>5, <2>2, <3>2
        <3>4. Settled' = both
            BY <3>1, <3>2, <3>3, SameExchanges
        <3> QED
            BY <2>3, <3>2, <3>4
    <2>4. CASE state # "settled"
        <3>1. Settled' = Settled
            BY <2>1, <2>2, <2>4, SameExchanges
        <3> QED
            BY <2>4, <3>1
    <2> QED
        BY <2>3, <2>4
<1> HIDE DEF new
<1>7. Settled \subseteq Settled' /\ Announced' \subseteq Announced
    BY <1>1, <1>6 DEF Announced
<1>8. AwaitTypeOK'
    <2>1. unannounced' \subseteq Settled'
        BY <1>1, <1>6 DEF AwaitInv, AwaitTypeOK
    <2>2. ASSUME NEW m \in Txn PROVE Len(entries'[m]) <= MaxEntries
        <3>1. CASE m = n
            BY <1>2, <1>4, <3>1
        <3>2. CASE m # n
            BY <1>4, <3>2 DEF AwaitInv, AwaitTypeOK
        <3> QED
            BY <3>1, <3>2
    <2> QED
        BY <1>1, <1>4, <2>1, <2>2 DEF AwaitInv, AwaitTypeOK, knowledge
<1>9. Unopened'
    BY <1>1, <1>4 DEF AwaitInv, RunInv, Unopened, Opened
<1>10. ASSUME NEW m \in Txn PROVE Len(entries[m]) <= Len(entries'[m])
    <2>1. CASE m = n
        BY <1>2, <1>4, <2>1
    <2>2. CASE m # n
        BY <1>4, <2>2, TypesAre DEF AwaitInv
    <2> QED
        BY <2>1, <2>2
<1> QED
    BY <1>1, <1>7, <1>8, <1>9, <1>10, RecordMoves
----------------------------------------------------------------------------
(* The waits on the run.                                                   *)

\* The invariant of one caller's wait.
RunOK(w) ==
    /\ run[w].event # NoEvent => run[w].event \in Settled /\ run[w].event[2] > run[w].base
    /\ run[w].pc # "idle" /\ run[w].own => run[w].base = cursor[w].seq
    /\ \A e \in shown[w] : e[1] = attempt =>
         /\ e[2] <= cursor[w].seq
         /\ run[w].pc = "deciding" => e[2] <= run[w].loaded
    /\ shown[w] \subseteq Settled
    /\ twice[w] = {}
    /\ Waiting(w) => run[w].base <= IF run[w].key = RunKey THEN 0 ELSE Len(entries[run[w].key])
    /\ run[w].pc = "parked" => Due(w) \subseteq run[w].missed
    /\ run[w].dead =>
         /\ run[w].pc = "woken"
         /\ run[w].wake \in run[w].jseq + 1..Len(lines)
         /\ lines[run[w].wake] = "dead_end"

LEMMA RunOKs == RunInv <=> Unopened /\ \A w \in Caller : RunOK(w)
BY DEF RunInv, RunOK, EventIsNew, OwnBase, ShownIsBelow, ReportedIsStored, NothingSeenTwice,
   WithinReach, EveryHintIsHeard, DeadEndIsThere

LEMMA RunOKsNext == RunInv' <=> Unopened' /\ \A w \in Caller : RunOK(w)'
BY DEF RunInv, RunOK, EventIsNew, OwnBase, ShownIsBelow, ReportedIsStored, NothingSeenTwice,
   WithinReach, EveryHintIsHeard, DeadEndIsThere

\* What does not touch a caller's wait, nor what it depends on, leaves it be.
LEMMA OthersKept ==
    ASSUME NEW w \in Caller, RunOK(w), UNCHANGED stores,
           run'[w] = run[w], cursor'[w] = cursor[w], shown'[w] = shown[w], twice'[w] = twice[w]
    PROVE  RunOK(w)'
<1>1. Settled' = Settled /\ Announced' = Announced /\ attempt' = attempt /\ entries' = entries
      /\ lines' = lines
    BY SameEntries DEF stores, Announced
<1>2. Due(w)' = Due(w) /\ (Waiting(w)' <=> Waiting(w))
    BY <1>1 DEF Due, Waiting
<1> QED
    BY <1>1, <1>2 DEF RunOK

Ended(r, event, own, key, base) ==
    [r EXCEPT !.pc = "answer", !.event = event, !.own = own, !.key = key, !.base = base]

LEMMA EndedIs ==
    ASSUME NEW r \in RunWait, NEW event \in EntryId \cup {NoEvent}, NEW own \in BOOLEAN,
           NEW key \in Txn \cup {RunKey}, NEW base \in 0..MaxEntries
    PROVE  /\ Ended(r, event, own, key, base) \in RunWait
           /\ Ended(r, event, own, key, base).pc = "answer"
           /\ Ended(r, event, own, key, base).event = event
           /\ Ended(r, event, own, key, base).own = own
           /\ Ended(r, event, own, key, base).key = key
           /\ Ended(r, event, own, key, base).base = base
           /\ Ended(r, event, own, key, base).dead = r.dead
BY DEF Ended, RunWait

LEMMA AnsweringIs ==
    ASSUME AwaitTypeOK, NEW w \in Caller, NEW event \in EntryId \cup {NoEvent}
    PROVE  /\ Answering(w, event) \in RunWait
           /\ Answering(w, event).pc = "answer" /\ Answering(w, event).event = event
           /\ Answering(w, event).own = run[w].own /\ Answering(w, event).key = run[w].key
           /\ Answering(w, event).base = run[w].base /\ Answering(w, event).dead = FALSE
<1>1. /\ run[w].own \in BOOLEAN /\ run[w].key \in Txn \cup {RunKey}
      /\ run[w].base \in 0..MaxEntries
    BY DEF AwaitTypeOK, RunWait
<1>2. IdleRun \in RunWait /\ IdleRun.dead = FALSE
    BY DEF IdleRun, RunWait
<1>3. PICK own \in BOOLEAN, key \in Txn \cup {RunKey}, base \in 0..MaxEntries :
          own = run[w].own /\ key = run[w].key /\ base = run[w].base
    BY <1>1
<1>4. PICK a : a = Ended(IdleRun, event, own, key, base)
    OBVIOUS
<1>5. Answering(w, event) = a
    BY <1>3, <1>4 DEF Answering, Ended
<1>6. /\ a \in RunWait
      /\ a.pc = "answer" /\ a.event = event /\ a.own = own /\ a.key = key
      /\ a.base = base /\ a.dead = FALSE
    <2>1. a \in RunWait
        BY <1>2, <1>3, <1>4, EndedIs
    <2>2. a.pc = "answer" /\ a.event = event /\ a.key = key /\ a.base = base
        BY <1>2, <1>3, <1>4, EndedIs
    <2>3. a.own = own
        BY <1>4 DEF Ended, IdleRun
    <2>4. a.dead = IdleRun.dead
        BY <1>2, <1>3, <1>4, EndedIs
    <2> QED
        BY <1>2, <2>1, <2>2, <2>3, <2>4
<1> QED
    BY <1>3, <1>5, <1>6

\* One wait moves on, the stores and what the callers know staying.
LEMMA RunMoves ==
    ASSUME AwaitInv, NEW w \in Caller, NEW r \in RunWait, run' = [run EXCEPT ![w] = r],
           UNCHANGED <<stores, knowledge>>, session' \in [Caller -> SessionWait], SessionInv',
           RunOK(w)'
    PROVE  AwaitInv'
<1>1. Settled' = Settled /\ UNCHANGED <<attempt, bound, entries, lines, drained, unannounced, unheard>>
    BY SameEntries DEF stores
<1>2. AwaitTypeOK'
    BY <1>1 DEF AwaitInv, AwaitTypeOK, knowledge
<1>3. Unopened'
    BY <1>1 DEF AwaitInv, RunInv, Unopened, Opened
<1>4. ASSUME NEW v \in Caller, v # w PROVE RunOK(v)'
    <2>1. run'[v] = run[v] /\ cursor' = cursor /\ shown' = shown /\ twice' = twice
        BY <1>4 DEF AwaitInv, AwaitTypeOK, knowledge
    <2>2. RunOK(v)
        BY RunOKs DEF AwaitInv
    <2> QED
        BY <2>1, <2>2, OthersKept
<1>5. RunInv'
    BY <1>3, <1>4, RunOKsNext
<1> QED
    BY <1>2, <1>5 DEF AwaitInv

\* The same when the wait on the session is as it was.
LEMMA RunMovesAlone ==
    ASSUME AwaitInv, NEW w \in Caller, NEW r \in RunWait, run' = [run EXCEPT ![w] = r],
           UNCHANGED <<stores, session, knowledge>>, RunOK(w)'
    PROVE  AwaitInv'
<1>1. SessionInv' /\ session' \in [Caller -> SessionWait]
    BY DEF AwaitInv, AwaitTypeOK, SessionInv, OwedIsThere, TimedOutIsQuiet, stores
<1> QED
    BY <1>1, RunMoves DEF stores, knowledge
\* What is published reaches those who wait below it, and is new to them.
LEMMA NotifyStep ==
    ASSUME AwaitInv, NEW n \in Txn, NEW seq \in Nat, NEW event \in EntryId \cup {NoEvent},
           event # NoEvent => event \in Settled /\ event = <<n, seq>>,
           Notify(n, seq, event), unannounced' \subseteq unannounced,
           \A e \in Announced' : e \in Announced \/ e = <<n, seq>>,
           UNCHANGED <<attempt, bound, entries, lines, drained, unheard, session, knowledge>>
    PROVE  AwaitInv'
<1>1. AwaitTypeOK /\ RunInv /\ SessionInv /\ \A w \in Caller : RunOK(w)
    BY RunOKs DEF AwaitInv
<1>2. Settled' = Settled /\ UNCHANGED <<cursor, shown, twice>>
    BY SameEntries DEF knowledge
<1>3. ASSUME NEW w \in Caller
      PROVE  /\ Listening(w, n, seq) => run'[w] = Answering(w, event)
             /\ ~Listening(w, n, seq) => run'[w] = run[w]
    BY DEF Notify
<1>4. ASSUME NEW w \in Caller PROVE run'[w] \in RunWait
    <2>1. Answering(w, event) \in RunWait
        BY <1>1, AnsweringIs
    <2> QED
        BY <1>1, <1>3, <2>1 DEF AwaitTypeOK
<1>5. run' \in [Caller -> RunWait]
    <2>1. run' = [w \in Caller |-> run'[w]]
        BY DEF Notify
    <2> QED
        BY <1>4, <2>1
<1>6. AwaitTypeOK'
    BY <1>1, <1>2, <1>5 DEF AwaitTypeOK
<1>7. Unopened' /\ SessionInv'
    BY <1>1 DEF RunInv, Unopened, Opened, SessionInv, OwedIsThere, TimedOutIsQuiet
<1>8. ASSUME NEW w \in Caller, Listening(w, n, seq) PROVE RunOK(w)'
    <2>1. PICK r : r = Answering(w, event)
        OBVIOUS
    <2>2. /\ run'[w] = r /\ r.pc = "answer" /\ r.event = event /\ r.own = run[w].own
          /\ r.base = run[w].base /\ r.dead = FALSE
        BY <1>1, <1>3, <1>8, <2>1, AnsweringIs
    <2>3. run[w].pc = "parked" /\ seq > run[w].base
        BY <1>8 DEF Listening
    <2>4. event # NoEvent => event[2] = seq
        OBVIOUS
    <2>5. ~Waiting(w)'
        BY <2>2 DEF Waiting
    <2>6. RunOK(w)
        BY <1>1
    <2> QED
        BY <1>2, <2>2, <2>3, <2>4, <2>5, <2>6 DEF RunOK
<1>9. ASSUME NEW w \in Caller, ~Listening(w, n, seq) PROVE RunOK(w)'
    <2>1. run'[w] = run[w] /\ RunOK(w)
        BY <1>1, <1>3, <1>9
    <2>2. run[w].pc = "parked" => Due(w)' \subseteq Due(w)
        <3> SUFFICES ASSUME run[w].pc = "parked", NEW e \in Announced',
                            run[w].key \in {e[1], RunKey}, e[2] > run[w].base
                     PROVE  e \in Announced
            BY <2>1 DEF Due
        <3>1. e = <<n, seq>> => Listening(w, n, seq)
            BY DEF Listening
        <3> QED
            BY <1>9, <3>1
    <2>3. Waiting(w)' <=> Waiting(w)
        BY <2>1 DEF Waiting
    <2> QED
        BY <1>2, <2>1, <2>2, <2>3 DEF RunOK
<1>10. RunInv'
    BY <1>7, <1>8, <1>9, RunOKsNext
<1> QED
    BY <1>6, <1>7, <1>10 DEF AwaitInv

LEMMA PublishStep ==
    ASSUME AwaitInv, NEW e \in EntryId, Publish(e)
    PROVE  AwaitInv'
<1>1. /\ e \in unannounced /\ unannounced' = unannounced \ {e} /\ Notify(e[1], e[2], e)
      /\ UNCHANGED <<attempt, bound, entries, lines, drained, unheard, session, knowledge>>
    BY DEF Publish
<1>2. e \in Settled /\ Settled' = Settled
    BY <1>1, SameEntries DEF AwaitInv, AwaitTypeOK
<1>3. e = <<e[1], e[2]>> /\ e[1] \in Txn /\ e[2] \in Nat
    BY EntryIdIsPair
<1>4. \A f \in Announced' : f \in Announced \/ f = e
    BY <1>1, <1>2 DEF Announced
<1>5. PICK n \in Txn, i \in Nat : n = e[1] /\ i = e[2]
    BY <1>3
<1>6. e = <<n, i>> /\ Notify(n, i, e)
    BY <1>1, <1>3, <1>5
<1> QED
    BY <1>1, <1>2, <1>4, <1>5, <1>6, NotifyStep

LEMMA PublishNoEntryStep ==
    ASSUME AwaitInv, NEW n \in Txn, NEW seq \in 0..Len(entries[n]), PublishNoEntry(n, seq)
    PROVE  AwaitInv'
<1>1. /\ Notify(n, seq, NoEvent)
      /\ UNCHANGED <<attempt, bound, entries, lines, drained, unannounced, unheard, session, knowledge>>
    BY DEF PublishNoEntry
<1>2. Announced' = Announced
    BY <1>1, SameEntries DEF Announced
<1>3. seq \in Nat
    OBVIOUS
<1> QED
    BY <1>1, <1>2, <1>3, NotifyStep
\* The store as it was, and what a caller knows.
LEMMA StoresKept ==
    ASSUME UNCHANGED <<stores, knowledge>>
    PROVE  /\ Settled' = Settled /\ Announced' = Announced
           /\ UNCHANGED <<attempt, bound, entries, lines, drained, unannounced, unheard,
                          cursor, shown, twice>>
BY SameEntries DEF stores, knowledge, Announced

\* A wait that parks: what is due was due when it parked.
LEMMA ParkingStep ==
    ASSUME AwaitInv, NEW w \in Caller, run[w].pc \in {"deciding", "checked"},
           NEW r \in RunWait, run' = [run EXCEPT ![w] = r], UNCHANGED <<stores, session, knowledge>>,
           r.pc = "parked", r.key = run[w].key, r.base = run[w].base, r.own = run[w].own,
           r.event = run[w].event, r.dead = run[w].dead, r.missed = Due(w)
    PROVE  AwaitInv'
<1>1. run'[w] = r /\ RunOK(w)
    BY RunOKs DEF AwaitInv, AwaitTypeOK
<1>2. Due(w)' = Due(w)
    BY <1>1, StoresKept DEF Due
<1>3. Waiting(w) /\ run[w].pc # "idle" /\ ~run[w].dead
    BY <1>1 DEF Waiting, RunOK
<1>4. RunOK(w)'
    BY <1>1, <1>2, <1>3, StoresKept DEF RunOK
<1> QED
    BY <1>4, RunMovesAlone

LEMMA ParkedTyped ==
    ASSUME NEW r \in RunWait, NEW j \in 0..MaxLines, NEW m \in SUBSET EntryId
    PROVE  /\ [r EXCEPT !.pc = "parked", !.loaded = 0, !.jseq = j, !.missed = m] \in RunWait
           /\ [r EXCEPT !.pc = "parked", !.jseq = j, !.wake = 0, !.missed = m] \in RunWait
<1>1. 0 \in 0..MaxEntries /\ 0 \in 0..MaxLines
    OBVIOUS
<1>2. [r EXCEPT !.pc = "parked", !.loaded = 0, !.jseq = j, !.missed = m] \in RunWait
    BY <1>1 DEF RunWait
<1>3. [r EXCEPT !.pc = "parked", !.jseq = j, !.wake = 0, !.missed = m] \in RunWait
    BY <1>1 DEF RunWait
<1> QED
    BY <1>2, <1>3

LEMMA ParkStep ==
    ASSUME AwaitInv, NEW w \in Caller, Park(w)
    PROVE  AwaitInv'
<1>1. run[w] \in RunWait /\ Due(w) \in SUBSET EntryId /\ drained \in 0..MaxLines
    BY TypesAre DEF AwaitInv, AwaitTypeOK, Due, Announced, Settled, Exchanges
<1>2. PICK r : r = [run[w] EXCEPT !.pc = "parked", !.loaded = 0, !.jseq = drained, !.missed = Due(w)]
    OBVIOUS
<1>3. /\ r \in RunWait /\ r.pc = "parked" /\ r.key = run[w].key /\ r.base = run[w].base
      /\ r.own = run[w].own /\ r.event = run[w].event /\ r.dead = run[w].dead
      /\ r.missed = Due(w)
    <2>1. r \in RunWait
        <3>1. run[w].wake \in 0..MaxLines
            BY <1>1 DEF RunWait
        <3> QED
            BY <1>1, <1>2, <3>1, ParkedTyped
    <2>2. r.pc = "parked" /\ r.key = run[w].key /\ r.base = run[w].base /\ r.event = run[w].event
        BY <1>1, <1>2 DEF RunWait
    <2>3. r.own = run[w].own /\ r.dead = run[w].dead
        BY <1>1, <1>2 DEF RunWait
    <2>4. r.missed = Due(w)
        BY <1>1, <1>2 DEF RunWait
    <2> QED
        BY <2>1, <2>2, <2>3, <2>4
<1>4. /\ run[w].pc = "deciding" /\ run' = [run EXCEPT ![w] = r]
      /\ UNCHANGED <<stores, session, knowledge>>
    BY <1>2 DEF Park
<1> QED
    BY <1>3, <1>4, ParkingStep

LEMMA ParkAgainStep ==
    ASSUME AwaitInv, NEW w \in Caller, ParkAgain(w)
    PROVE  AwaitInv'
<1>1. run[w] \in RunWait /\ Due(w) \in SUBSET EntryId
    BY DEF AwaitInv, AwaitTypeOK, Due, Announced, Settled, Exchanges
<1>2. PICK r : r = [run[w] EXCEPT !.pc = "parked", !.jseq = run[w].wake, !.wake = 0, !.missed = Due(w)]
    OBVIOUS
<1>3. /\ r \in RunWait /\ r.pc = "parked" /\ r.key = run[w].key /\ r.base = run[w].base
      /\ r.own = run[w].own /\ r.event = run[w].event /\ r.dead = run[w].dead
      /\ r.missed = Due(w)
    <2>1. r \in RunWait
        <3>1. run[w].wake \in 0..MaxLines
            BY <1>1 DEF RunWait
        <3> QED
            BY <1>1, <1>2, <3>1, ParkedTyped
    <2>2. r.pc = "parked" /\ r.key = run[w].key /\ r.base = run[w].base /\ r.event = run[w].event
        BY <1>1, <1>2 DEF RunWait
    <2>3. r.own = run[w].own /\ r.dead = run[w].dead
        BY <1>1, <1>2 DEF RunWait
    <2>4. r.missed = Due(w)
        BY <1>1, <1>2 DEF RunWait
    <2> QED
        BY <2>1, <2>2, <2>3, <2>4
<1>4. /\ run[w].pc = "checked" /\ run' = [run EXCEPT ![w] = r]
      /\ UNCHANGED <<stores, session, knowledge>>
    BY <1>2 DEF ParkAgain
<1> QED
    BY <1>3, <1>4, ParkingStep

\* A wait that ends, without an event.
LEMMA EndingStep ==
    ASSUME AwaitInv, NEW w \in Caller, run[w].pc # "idle",
           run' = [run EXCEPT ![w] = Answering(w, NoEvent)], UNCHANGED <<stores, session, knowledge>>
    PROVE  AwaitInv'
<1>1. PICK r : r = Answering(w, NoEvent)
    OBVIOUS
<1>2. /\ r \in RunWait /\ r.pc = "answer" /\ r.event = NoEvent /\ r.own = run[w].own
      /\ r.base = run[w].base /\ r.dead = FALSE
    <2>1. AwaitTypeOK /\ NoEvent \in EntryId \cup {NoEvent}
        BY DEF AwaitInv
    <2> QED
        BY <1>1, <2>1, AnsweringIs
<1>3. run'[w] = r /\ RunOK(w) /\ run' = [run EXCEPT ![w] = r]
    BY <1>1, RunOKs DEF AwaitInv, AwaitTypeOK
<1>4. ~Waiting(w)'
    BY <1>2, <1>3 DEF Waiting
<1>5. RunOK(w)'
    BY <1>2, <1>3, <1>4, StoresKept DEF RunOK
<1> QED
    BY <1>2, <1>3, <1>5, RunMovesAlone

\* A wait that was woken and goes on.
LEMMA CheckedStep ==
    ASSUME AwaitInv, NEW w \in Caller, run[w].pc = "woken",
           NEW r \in RunWait, run' = [run EXCEPT ![w] = r], UNCHANGED <<stores, session, knowledge>>,
           r.pc = "checked", r.key = run[w].key, r.base = run[w].base, r.own = run[w].own,
           r.event = run[w].event, r.dead = FALSE
    PROVE  AwaitInv'
<1>1. run'[w] = r /\ RunOK(w)
    BY RunOKs DEF AwaitInv, AwaitTypeOK
<1>2. Waiting(w) /\ run[w].pc # "idle"
    BY DEF Waiting
<1>3. RunOK(w)'
    BY <1>1, <1>2, StoresKept DEF RunOK
<1> QED
    BY <1>3, RunMovesAlone

\* The line that woke the wait is among those it reads.
LEMMA CheckLinesStep ==
    ASSUME AwaitInv, NEW w \in Caller, CheckLines(w)
    PROVE  AwaitInv'
<1>1. run[w] \in RunWait /\ RunOK(w)
    BY RunOKs DEF AwaitInv, AwaitTypeOK
<1>2. CASE \E l \in run[w].jseq + 1..Len(lines) : lines[l] = "dead_end"
    BY <1>2, EndingStep DEF CheckLines
<1>3. CASE ~\E l \in run[w].jseq + 1..Len(lines) : lines[l] = "dead_end"
    <2>1. ~run[w].dead
        BY <1>1, <1>3 DEF RunOK
    <2>2. PICK r : r = [run[w] EXCEPT !.pc = "checked"]
        OBVIOUS
    <2>3. /\ r \in RunWait /\ r.pc = "checked" /\ r.key = run[w].key /\ r.base = run[w].base
          /\ r.own = run[w].own /\ r.event = run[w].event /\ r.dead = run[w].dead
        BY <1>1, <2>2 DEF RunWait
    <2>4. /\ run[w].pc = "woken" /\ run' = [run EXCEPT ![w] = r]
          /\ UNCHANGED <<stores, session, knowledge>>
        BY <1>3, <2>2 DEF CheckLines
    <2>5. r.dead = FALSE
        BY <1>1, <2>1, <2>3 DEF RunWait
    <2> QED
        BY <2>3, <2>4, <2>5, CheckedStep
<1> QED
    BY <1>2, <1>3

LEMMA CheckFailsStep ==
    ASSUME AwaitInv, NEW w \in Caller, CheckFails(w)
    PROVE  AwaitInv'
<1>1. run[w] \in RunWait
    BY DEF AwaitInv, AwaitTypeOK
<1>2. PICK r : r = [run[w] EXCEPT !.pc = "checked", !.dead = FALSE]
    OBVIOUS
<1>3. /\ r \in RunWait /\ r.pc = "checked" /\ r.key = run[w].key /\ r.base = run[w].base
      /\ r.own = run[w].own /\ r.event = run[w].event /\ r.dead = FALSE
    BY <1>1, <1>2 DEF RunWait
<1>4. /\ run[w].pc = "woken" /\ run' = [run EXCEPT ![w] = r]
      /\ UNCHANGED <<stores, session, knowledge>>
    BY <1>2 DEF CheckFails
<1> QED
    BY <1>3, <1>4, CheckedStep

LEMMA TimeOutStep ==
    ASSUME AwaitInv, NEW w \in Caller, TimeOut(w)
    PROVE  AwaitInv'
BY EndingStep DEF TimeOut
----------------------------------------------------------------------------
(* The answers.                                                            *)

LEMMA IdlesAre ==
    /\ IdleRun \in RunWait /\ IdleRun.pc = "idle" /\ IdleRun.event = NoEvent /\ ~IdleRun.dead
    /\ IdleRun.own /\ IdleRun.base = 0
    /\ IdleSession \in SessionWait /\ IdleSession.owed = 0 /\ ~IdleSession.timedOut
BY DEF IdleRun, RunWait, IdleSession, SessionWait

\* A caller has no wait on the session while it is answered.
LEMMA SessionReset ==
    ASSUME AwaitInv, NEW w \in Caller, session' = [session EXCEPT ![w] = IdleSession],
           UNCHANGED <<lines, drained>>
    PROVE  session' \in [Caller -> SessionWait] /\ SessionInv'
<1>1. session' \in [Caller -> SessionWait] /\ session'[w] = IdleSession
    BY IdlesAre DEF AwaitInv, AwaitTypeOK
<1>2. Len(lines) \in Nat
    BY TypesAre DEF AwaitInv
<1>3. \A v \in Caller : v # w => session'[v] = session[v]
    BY DEF AwaitInv, AwaitTypeOK
<1>4. OwedIsThere'
    BY <1>1, <1>2, <1>3, IdlesAre DEF AwaitInv, SessionInv, OwedIsThere
<1>5. TimedOutIsQuiet'
    BY <1>1, <1>3, IdlesAre DEF AwaitInv, SessionInv, TimedOutIsQuiet
<1> QED
    BY <1>1, <1>4, <1>5 DEF SessionInv

\* An answer whose number is at least what it and the ones before it showed of
\* the attempt, and whose event, if its number was the caller's own, is new.
LEMMA AnswerStep ==
    ASSUME AwaitInv, NEW w \in Caller, NEW key \in Txn \cup {RunKey}, NEW seq \in Nat,
           NEW event \in EntryId \cup {NoEvent}, NEW own, Answer(w, key, seq, event, own),
           event # NoEvent => event \in Settled,
           \A e \in shown[w] : e[1] = attempt => e[2] <= seq,
           event # NoEvent /\ event[1] = attempt => event[2] <= seq,
           ~(own /\ event \in shown[w] /\ event[1] = key)
    PROVE  AwaitInv'
<1>1. /\ run' = [run EXCEPT ![w] = IdleRun]
      /\ cursor' = [cursor EXCEPT ![w] = [of |-> key, seq |-> seq]]
      /\ shown' = IF event = NoEvent THEN shown ELSE [shown EXCEPT ![w] = @ \cup {event}]
      /\ twice' = twice
      /\ session' = [session EXCEPT ![w] = IdleSession]
      /\ UNCHANGED stores
    BY DEF Answer
<1>2. Settled' = Settled /\ UNCHANGED <<attempt, bound, entries, lines, drained, unannounced, unheard>>
    BY <1>1, SameEntries DEF stores
<1>3. session' \in [Caller -> SessionWait] /\ SessionInv'
    BY <1>1, <1>2, SessionReset
<1>4. /\ run' \in [Caller -> RunWait] /\ run'[w] = IdleRun
      /\ cursor' \in [Caller -> [of : Txn \cup {RunKey}, seq : Nat]] /\ cursor'[w].seq = seq
      /\ \A v \in Caller : v # w => run'[v] = run[v] /\ cursor'[v] = cursor[v]
    BY <1>1, IdlesAre DEF AwaitInv, AwaitTypeOK
<1>5. /\ shown' \in [Caller -> SUBSET EntryId]
      /\ shown'[w] = IF event = NoEvent THEN shown[w] ELSE shown[w] \cup {event}
      /\ \A v \in Caller : v # w => shown'[v] = shown[v]
    BY <1>1 DEF AwaitInv, AwaitTypeOK
<1>6. AwaitTypeOK'
    BY <1>1, <1>2, <1>3, <1>4, <1>5 DEF AwaitInv, AwaitTypeOK
<1>7. Unopened'
    BY <1>2 DEF AwaitInv, RunInv, Unopened, Opened
<1>8. RunOK(w)'
    <2>1. run'[w].pc = "idle" /\ run'[w].event = NoEvent /\ ~run'[w].dead
        BY <1>4, IdlesAre
    <2>2. ~Waiting(w)'
        BY <2>1 DEF Waiting
    <2>3. RunOK(w)
        BY RunOKs DEF AwaitInv
    <2>4. \A e \in shown'[w] : e[1] = attempt => e[2] <= seq
        BY <1>5
    <2>5. shown'[w] \subseteq Settled /\ twice'[w] = {}
        BY <1>1, <1>5, <2>3 DEF RunOK
    <2> QED
        BY <1>2, <1>4, <2>1, <2>2, <2>4, <2>5 DEF RunOK
<1>9. ASSUME NEW v \in Caller, v # w PROVE RunOK(v)'
    <2>1. RunOK(v)
        BY RunOKs DEF AwaitInv
    <2> QED
        BY <1>1, <1>4, <1>5, <1>9, <2>1, OthersKept
<1>10. RunInv'
    BY <1>7, <1>8, <1>9, RunOKsNext
<1> QED
    BY <1>3, <1>6, <1>10 DEF AwaitInv

LEMMA DeclineStep ==
    ASSUME AwaitInv, NEW w \in Caller, Decline(w)
    PROVE  AwaitInv'
<1>1. run[w] \in RunWait /\ RunOK(w)
    BY RunOKs DEF AwaitInv, AwaitTypeOK
<1>2. run[w].key \in Txn \cup {RunKey} /\ run[w].loaded \in Nat
    BY <1>1 DEF RunWait
<1>3. run[w].pc = "deciding" /\ Answer(w, run[w].key, run[w].loaded, NoEvent, FALSE)
    BY DEF Decline
<1>4. \A e \in shown[w] : e[1] = attempt => e[2] <= run[w].loaded
    BY <1>1, <1>3 DEF RunOK
<1>5. PICK key \in Txn \cup {RunKey}, seq \in Nat : key = run[w].key /\ seq = run[w].loaded
    BY <1>2
<1>6. Answer(w, key, seq, NoEvent, FALSE)
    BY <1>3, <1>5
<1>7. NoEvent \in EntryId \cup {NoEvent} /\ \A e \in shown[w] : e[1] = attempt => e[2] <= seq
    BY <1>4, <1>5
<1> QED
    BY <1>5, <1>6, <1>7, AnswerStep

\* Of the attempt, nothing settled is above the high-water mark that is loaded.
LEMMA BelowHighWater ==
    ASSUME AwaitInv, NEW e \in Settled, e[1] = attempt
    PROVE  bound /\ Key = attempt /\ e[2] <= HighWater
<1>1. Opened(e[1]) /\ e[2] \in 1..Len(entries[e[1]])
    BY ShownIsOpened
<1>2. bound
    BY <1>1, TypesAre DEF AwaitInv, Opened
<1> QED
    BY <1>1, <1>2, TypesAre DEF AwaitInv, Key, HighWater, Current

LEMMA ReloadStep ==
    ASSUME AwaitInv, NEW w \in Caller, Reload(w)
    PROVE  AwaitInv'
<1>1. run[w] \in RunWait /\ RunOK(w)
    BY RunOKs DEF AwaitInv, AwaitTypeOK
<1>2. run[w].pc = "answer" /\ Answer(w, Key, HighWater, run[w].event, run[w].own)
    BY DEF Reload
<1>3. Key \in Txn \cup {RunKey} /\ HighWater \in Nat
    BY TypesAre DEF AwaitInv
<1>4. run[w].event \in EntryId \cup {NoEvent} /\ (run[w].event # NoEvent => run[w].event \in Settled)
    BY <1>1 DEF RunWait, RunOK
<1>5. \A e \in shown[w] : e[1] = attempt => e[2] <= HighWater
    BY <1>1, BelowHighWater DEF RunOK
<1>6. run[w].event # NoEvent /\ run[w].event[1] = attempt => run[w].event[2] <= HighWater
    BY <1>4, BelowHighWater
<1>7. ~(run[w].own /\ run[w].event \in shown[w] /\ run[w].event[1] = Key)
    <2> SUFFICES ASSUME run[w].own, run[w].event \in shown[w], run[w].event[1] = Key PROVE FALSE
        OBVIOUS
    <2>1. run[w].event \in Settled /\ run[w].event \in EntryId /\ run[w].event # NoEvent
        BY <1>1, EntryIdIsPair DEF RunOK, Settled, Exchanges
    <2>2. run[w].event[1] \in Txn /\ run[w].event[2] \in Nat
        BY <2>1, EntryIdIsPair
    <2>3. run[w].event[1] = attempt
        BY <2>2, TypesAre DEF Key, Txn, RunKey
    <2>4. run[w].event[2] <= cursor[w].seq /\ run[w].base = cursor[w].seq
        BY <1>1, <1>2, <2>3 DEF RunOK
    <2>5. run[w].event[2] > run[w].base /\ run[w].base \in Nat
        BY <1>1, <2>1 DEF RunOK, RunWait
    <2> QED
        BY <2>2, <2>4, <2>5
<1>8. PICK key \in Txn \cup {RunKey}, seq \in Nat, event \in EntryId \cup {NoEvent}, own \in BOOLEAN :
          key = Key /\ seq = HighWater /\ event = run[w].event /\ own = run[w].own
    BY <1>1, <1>3, <1>4 DEF RunWait
<1>9. Answer(w, key, seq, event, own)
    BY <1>2, <1>8
<1> HIDE DEF Key, HighWater
<1>10. /\ event # NoEvent => event \in Settled
       /\ \A e \in shown[w] : e[1] = attempt => e[2] <= seq
       /\ event # NoEvent /\ event[1] = attempt => event[2] <= seq
       /\ ~(own /\ event \in shown[w] /\ event[1] = key)
    BY <1>4, <1>5, <1>6, <1>7, <1>8
<1> QED
    BY <1>8, <1>9, <1>10, AnswerStep
\* A wait that the record answers at once.
LEMMA AnsweredAtOnce ==
    ASSUME AwaitInv, NEW w \in Caller, NEW after \in Nat, AwaitEvent(w, after), Unseen(after) # {}
    PROVE  AwaitInv'
<1> DEFINE mine == after = cursor[w].seq /\ Accepted(after)
<1>1. RunOK(w) /\ HighWater \in 0..MaxEntries /\ Key \in Txn \cup {RunKey} /\ attempt \in Txn
    BY RunOKs, TypesAre DEF AwaitInv, Txn
<1>2. PICK i : i = Recorded(after)
    OBVIOUS
<1>3. i \in Unseen(after)
    BY <1>1, <1>2, RecordedIsUnseen
<1>4. /\ i \in 1..HighWater /\ Current[i] = "settled"
      /\ Accepted(after) => i > after
    BY <1>3 DEF Unseen, Candidates
<1>5. bound
    BY <1>1, <1>4 DEF HighWater, Current
<1>6. Key = attempt /\ Current = entries[attempt] /\ HighWater = Len(entries[attempt])
    BY <1>5 DEF Key, Current, HighWater
<1>7. <<attempt, i>> \in Settled /\ <<attempt, i>> \in EntryId
    <2>1. i \in 1..MaxEntries
        BY <1>1, <1>4
    <2> QED
        BY <1>1, <1>4, <1>6, <2>1, SettledMeans DEF EntryId
<1>8. PICK event \in EntryId \cup {NoEvent}, own \in BOOLEAN :
          event = <<attempt, i>> /\ own = mine
    <2>1. mine \in BOOLEAN
        OBVIOUS
    <2> HIDE DEF mine
    <2> QED
        BY <1>7, <2>1
<1>9. Answer(w, Key, HighWater, event, own)
    BY <1>2, <1>8 DEF AwaitEvent
<1>10. \A e \in shown[w] : e[1] = attempt => e[2] <= HighWater
    BY <1>1, BelowHighWater DEF RunOK
<1>11. ~(own /\ event \in shown[w] /\ event[1] = Key)
    <2> SUFFICES ASSUME mine, <<attempt, i>> \in shown[w] PROVE FALSE
        BY <1>8
    <2>1. i <= cursor[w].seq
        BY <1>1 DEF RunOK
    <2> QED
        BY <1>4, <2>1
<1> HIDE DEF mine
<1>12. PICK seq \in Nat, key \in Txn \cup {RunKey} : seq = HighWater /\ key = Key
    BY <1>1
<1>13. event # NoEvent /\ event[1] = attempt => event[2] <= seq
    BY <1>4, <1>8, <1>12
<1>14. event \in Settled /\ Answer(w, key, seq, event, own) /\ ~(own /\ event \in shown[w] /\ event[1] = key)
       /\ \A e \in shown[w] : e[1] = attempt => e[2] <= seq
    BY <1>7, <1>8, <1>9, <1>10, <1>11, <1>12
<1> QED
    BY <1>12, <1>13, <1>14, AnswerStep

\* A wait for which the record has no answer yet.
LEMMA StartsToWait ==
    ASSUME AwaitInv, NEW w \in Caller, NEW after \in Nat, AwaitEvent(w, after), Unseen(after) = {}
    PROVE  AwaitInv'
<1>1. /\ RunOK(w) /\ HighWater \in 0..MaxEntries /\ Key \in Txn \cup {RunKey}
      /\ cursor[w].seq \in Nat
    BY RunOKs, TypesAre DEF AwaitInv, AwaitTypeOK
<1>2. PICK key \in Txn \cup {RunKey}, loaded \in 0..MaxEntries, base \in 0..MaxEntries, own \in BOOLEAN :
          /\ key = Key /\ loaded = HighWater
          /\ base = IF Accepted(after) THEN after ELSE HighWater
          /\ own = (after = cursor[w].seq /\ Accepted(after))
    <2>1. (IF Accepted(after) THEN after ELSE HighWater) \in 0..MaxEntries
        BY <1>1 DEF Accepted
    <2> QED
        BY <1>1, <2>1
<1>3. PICK r : r = [IdleRun EXCEPT !.pc = "deciding", !.key = key, !.loaded = loaded,
                                   !.base = base, !.own = own]
    OBVIOUS
<1>4. r \in RunWait
    BY <1>2, <1>3, IdlesAre DEF RunWait
<1>5. /\ r.pc = "deciding" /\ r.key = key /\ r.loaded = loaded /\ r.base = base
      /\ r.event = NoEvent
    BY <1>3, IdlesAre DEF RunWait
<1>6. r.own = own /\ ~r.dead
    BY <1>2, <1>3, IdlesAre DEF RunWait
<1>7. /\ run' = [run EXCEPT ![w] = r]
      /\ session' = [session EXCEPT ![w] = IdleSession]
      /\ UNCHANGED <<stores, knowledge>>
    BY <1>2, <1>3 DEF AwaitEvent
<1>8. session' \in [Caller -> SessionWait] /\ SessionInv'
    BY <1>7, StoresKept, SessionReset
<1>9. run'[w] = r
    BY <1>7 DEF AwaitInv, AwaitTypeOK
<1>10. base <= IF key = RunKey THEN 0 ELSE Len(entries[key])
    BY <1>1, <1>2, TypesAre DEF Accepted, HighWater, Current, Key, AwaitInv, RunKey
<1>11. own => base = cursor[w].seq
    BY <1>2
<1>12. \A e \in shown[w] : e[1] = attempt => e[2] <= loaded
    BY <1>1, <1>2, BelowHighWater DEF RunOK
<1>13. RunOK(w)'
    BY <1>1, <1>5, <1>6, <1>7, <1>9, <1>10, <1>11, <1>12, StoresKept DEF RunOK, Waiting
<1> QED
    BY <1>4, <1>7, <1>8, <1>13, RunMoves
----------------------------------------------------------------------------
(* The journal moves, and the waits on the session.                        *)

\* The rest of the invariant does not depend on the journal's end, nor on the
\* cursor.
LEMMA LinesKept ==
    ASSUME NEW w \in Caller, RunOK(w), UNCHANGED <<attempt, entries, unannounced, knowledge>>,
           run'[w] = run[w], run[w] \in RunWait, Len(lines) \in Nat, Len(lines') \in Nat,
           Len(lines) <= Len(lines'), \A l \in 1..Len(lines) : lines'[l] = lines[l]
    PROVE  RunOK(w)'
<1>1. Settled' = Settled /\ Announced' = Announced
    BY SameEntries DEF Announced
<1>2. Due(w)' = Due(w) /\ (Waiting(w)' <=> Waiting(w))
    BY <1>1 DEF Due, Waiting
<1>3. run[w].jseq \in Nat /\ run[w].wake \in Nat
    BY DEF RunWait
<1>4. run[w].dead =>
         /\ run[w].wake \in run[w].jseq + 1..Len(lines')
         /\ lines'[run[w].wake] = "dead_end"
    <2> SUFFICES ASSUME run[w].dead
                 PROVE  run[w].wake \in run[w].jseq + 1..Len(lines') /\ lines'[run[w].wake] = "dead_end"
        OBVIOUS
    <2>1. run[w].wake \in run[w].jseq + 1..Len(lines) /\ lines[run[w].wake] = "dead_end"
        BY DEF RunOK
    <2>2. run[w].wake \in 1..Len(lines)
        BY <1>3, <2>1
    <2> QED
        BY <1>3, <2>1, <2>2
<1> QED
    BY <1>1, <1>2, <1>4 DEF RunOK, knowledge

LEMMA JournalLineStep ==
    ASSUME AwaitInv, NEW kind \in Kind, JournalLine(kind)
    PROVE  AwaitInv'
<1>1. /\ Len(lines) < MaxLines /\ lines' = Append(lines, kind)
      /\ unheard' = unheard \cup {Len(lines) + 1}
      /\ UNCHANGED <<attempt, bound, entries, drained, unannounced, run, session, knowledge>>
    BY DEF JournalLine
<1>2. lines \in Seq(Kind) /\ Len(lines) \in Nat
    BY DEF AwaitInv, AwaitTypeOK
<1>3. /\ lines' \in Seq(Kind) /\ Len(lines') = Len(lines) + 1
      /\ \A l \in 1..Len(lines) : lines'[l] = lines[l]
    BY <1>1, <1>2
<1>4. AwaitTypeOK'
    <2>1. Settled' = Settled
        BY <1>1, SameEntries
    <2>2. Len(lines') <= MaxLines
        BY <1>1, <1>2, <1>3
    <2>3. drained' \in 0..Len(lines')
        BY <1>1, <1>2, <1>3 DEF AwaitInv, AwaitTypeOK
    <2>4. unheard' \subseteq 1..Len(lines')
        <3>1. unheard \subseteq 1..Len(lines)
            BY DEF AwaitInv, AwaitTypeOK
        <3>2. \A x \in 1..Len(lines) : x \in 1..Len(lines')
            BY <1>2, <1>3
        <3>3. Len(lines) + 1 \in 1..Len(lines')
            BY <1>2, <1>3
        <3> QED
            BY <1>1, <3>1, <3>2, <3>3
    <2> QED
        BY <1>1, <1>3, <2>1, <2>2, <2>3, <2>4 DEF AwaitInv, AwaitTypeOK, knowledge
<1>5. Unopened'
    BY <1>1 DEF AwaitInv, RunInv, Unopened, Opened
<1>6. ASSUME NEW w \in Caller PROVE RunOK(w)'
    <2>1. RunOK(w) /\ run[w] \in RunWait
        BY RunOKs DEF AwaitInv, AwaitTypeOK
    <2>2. Len(lines') \in Nat /\ Len(lines) <= Len(lines')
        BY <1>2, <1>3
    <2> QED
        BY <1>1, <1>2, <1>3, <2>1, <2>2, LinesKept
<1>7. SessionInv'
    <2>1. ASSUME NEW w \in Caller PROVE session[w].owed <= Len(lines')
        <3>1. session[w].owed \in Nat /\ session[w].owed <= Len(lines)
            BY DEF AwaitInv, AwaitTypeOK, SessionInv, OwedIsThere, SessionWait
        <3> QED
            BY <1>2, <1>3, <3>1
    <2> QED
        BY <1>1, <2>1 DEF AwaitInv, SessionInv, OwedIsThere, TimedOutIsQuiet
<1>8. RunInv'
    BY <1>5, <1>6, RunOKsNext
<1> QED
    BY <1>4, <1>7, <1>8 DEF AwaitInv

Woken(r, l, dead) == [r EXCEPT !.pc = "woken", !.wake = l, !.dead = dead]

LEMMA WokenIs ==
    ASSUME NEW r \in RunWait, NEW l \in 1..MaxLines, NEW dead \in BOOLEAN
    PROVE  /\ Woken(r, l, dead) \in RunWait
           /\ Woken(r, l, dead).pc = "woken"
           /\ Woken(r, l, dead).key = r.key
           /\ Woken(r, l, dead).base = r.base
           /\ Woken(r, l, dead).event = r.event
           /\ Woken(r, l, dead).wake = l
           /\ Woken(r, l, dead).jseq = r.jseq
           /\ Woken(r, l, dead).own = r.own
           /\ Woken(r, l, dead).dead = dead
<1>1. l \in 0..MaxLines
    OBVIOUS
<1> QED
    BY <1>1 DEF Woken, RunWait

\* A line wakes the waits parked below it.
LEMMA NotifyJournalStep ==
    ASSUME AwaitInv, NEW l \in 1..MaxLines, NotifyJournal(l)
    PROVE  AwaitInv'
<1>1. /\ l \in unheard /\ unheard' = unheard \ {l}
      /\ UNCHANGED <<attempt, bound, entries, lines, drained, unannounced, knowledge>>
    BY DEF NotifyJournal
<1>2. l \in 1..Len(lines) /\ Len(lines) \in 0..MaxLines /\ Settled' = Settled /\ Announced' = Announced
    BY <1>1, TypesAre, SameEntries DEF AwaitInv, AwaitTypeOK, Announced
<1> DEFINE Wakes(w) == run[w].pc = "parked" /\ l > run[w].jseq
           Drains(w) == session[w].pc = "parked" /\ l > session[w].cursor
<1>3. ASSUME NEW w \in Caller
      PROVE  /\ run[w] \in RunWait /\ session[w] \in SessionWait /\ RunOK(w)
             /\ Wakes(w) => run'[w] = [run[w] EXCEPT !.pc = "woken", !.wake = l, !.dead = (lines[l] = "dead_end")]
             /\ ~Wakes(w) => run'[w] = run[w]
             /\ Drains(w) => session'[w] = [session[w] EXCEPT !.pc = "draining", !.owed = Len(lines)]
             /\ ~Drains(w) => session'[w] = session[w]
    BY RunOKs DEF AwaitInv, AwaitTypeOK, NotifyJournal
<1>4. ASSUME NEW w \in Caller, Wakes(w) PROVE run'[w] \in RunWait /\ RunOK(w)'
    <2>1. PICK dead \in BOOLEAN : dead = (lines[l] = "dead_end")
        OBVIOUS
    <2>2. PICK r : r = Woken(run[w], l, dead)
        OBVIOUS
    <2>3. run'[w] = r
        BY <1>3, <1>4, <2>1, <2>2 DEF Woken
    <2>4. run[w].pc = "parked" /\ l > run[w].jseq /\ run[w] \in RunWait /\ RunOK(w)
        BY <1>3, <1>4
    <2> HIDE DEF Wakes
    <2>5. /\ r \in RunWait /\ r.pc = "woken" /\ r.key = run[w].key /\ r.base = run[w].base
          /\ r.event = run[w].event /\ r.wake = l /\ r.jseq = run[w].jseq
          /\ r.own = run[w].own /\ r.dead = dead
        <3>1. CASE dead = TRUE
            <4>1. r = Woken(run[w], l, TRUE) /\ TRUE \in BOOLEAN
                BY <2>2, <3>1
            <4>2. /\ r \in RunWait /\ r.pc = "woken" /\ r.key = run[w].key /\ r.base = run[w].base
                  /\ r.event = run[w].event /\ r.wake = l /\ r.jseq = run[w].jseq
                BY <2>4, <4>1, WokenIs
            <4>3. r.own = run[w].own
                BY <2>4, <4>1, WokenIs
            <4>4. r.dead = TRUE
                BY <2>4, <4>1, WokenIs
            <4> QED
                BY <3>1, <4>2, <4>3, <4>4
        <3>2. CASE dead = FALSE
            BY <2>2, <2>4, <3>2, WokenIs
        <3> QED
            BY <2>1, <3>1, <3>2
    <2>6. Waiting(w) /\ run[w].pc # "idle"
        BY <2>4 DEF Waiting
    <2>7. l \in run[w].jseq + 1..Len(lines)
        <3>1. run[w].jseq \in Nat
            BY <2>4 DEF RunWait
        <3> QED
            BY <1>2, <2>4, <3>1
    <2>8. run'[w].base <= IF run'[w].key = RunKey THEN 0 ELSE Len(entries[run'[w].key])
        BY <2>3, <2>4, <2>5, <2>6 DEF RunOK
    <2>9. dead => r.wake \in r.jseq + 1..Len(lines) /\ lines[r.wake] = "dead_end"
        BY <2>1, <2>5, <2>7
    <2> QED
        BY <1>1, <1>2, <2>3, <2>4, <2>5, <2>6, <2>8, <2>9 DEF RunOK, knowledge
<1>5. ASSUME NEW w \in Caller, ~Wakes(w) PROVE run'[w] \in RunWait /\ RunOK(w)'
    <2>1. RunOK(w) /\ run'[w] = run[w] /\ run[w] \in RunWait
        BY <1>3, <1>5
    <2>2. Len(lines) \in Nat /\ Len(lines') \in Nat /\ Len(lines) <= Len(lines')
          /\ \A k \in 1..Len(lines) : lines'[k] = lines[k]
        BY <1>1, <1>2
    <2> QED
        BY <1>1, <2>1, <2>2, LinesKept
<1>6. ASSUME NEW w \in Caller
      PROVE  /\ session'[w] \in SessionWait /\ session'[w].owed <= Len(lines)
             /\ session'[w].timedOut => session'[w].pc = "idle"
             /\ session'[w].timedOut => session'[w] = session[w]
    <2>1. /\ session[w].owed <= Len(lines)
          /\ session[w].timedOut => session[w].pc = "idle"
        BY DEF AwaitInv, SessionInv, OwedIsThere
    <2>2. CASE Drains(w)
        <3>1. ~session[w].timedOut
            BY <2>1, <2>2
        <3>2. PICK s : s = [session[w] EXCEPT !.pc = "draining", !.owed = Len(lines)]
            OBVIOUS
        <3>3. session'[w] = s
            BY <1>3, <2>2, <3>2
        <3>4. s \in SessionWait /\ s.owed = Len(lines) /\ s.timedOut = session[w].timedOut
            BY <1>2, <1>3, <3>2 DEF SessionWait
        <3> QED
            BY <1>2, <3>1, <3>3, <3>4
    <2>3. CASE ~Drains(w)
        BY <1>3, <2>1, <2>3
    <2> QED
        BY <2>2, <2>3
<1>7. run' \in [Caller -> RunWait] /\ session' \in [Caller -> SessionWait]
    <2>1. run' = [w \in Caller |-> run'[w]] /\ session' = [w \in Caller |-> session'[w]]
        BY DEF NotifyJournal
    <2>2. \A w \in Caller : run'[w] \in RunWait /\ session'[w] \in SessionWait
        BY <1>4, <1>5, <1>6
    <2> QED
        BY <2>1, <2>2
<1> HIDE DEF Wakes, Drains
<1>8. AwaitTypeOK'
    BY <1>1, <1>2, <1>7 DEF AwaitInv, AwaitTypeOK, knowledge
<1>9. Unopened'
    BY <1>1 DEF AwaitInv, RunInv, Unopened, Opened
<1>10. RunInv'
    BY <1>4, <1>5, <1>9, RunOKsNext
<1>11. SessionInv'
    BY <1>1, <1>6 DEF AwaitInv, SessionInv, OwedIsThere, TimedOutIsQuiet
<1> QED
    BY <1>8, <1>10, <1>11 DEF AwaitInv
\* A drain never goes back, and stops short of the end only at the limit.
LEMMA DrainsForward ==
    ASSUME AwaitTypeOK
    PROVE  /\ DrainsTo \in 0..Len(lines) /\ drained <= DrainsTo
           /\ DrainsTo = drained => drained = Len(lines)
<1>1. Len(lines) \in Nat /\ drained \in 0..Len(lines)
    BY DEF AwaitTypeOK
<1> QED
    BY <1>1 DEF DrainsTo

\* One wait on the session moves on, and the cursor forward.
LEMMA SessionMoves ==
    ASSUME AwaitInv, session' \in [Caller -> SessionWait],
           UNCHANGED <<attempt, bound, entries, lines, unannounced, unheard, run, knowledge>>,
           drained' \in 0..Len(lines), drained <= drained',
           \A w \in Caller :
               \/ session'[w] = session[w]
               \/ /\ session'[w].owed <= Len(lines)
                  /\ session'[w].timedOut => session'[w].pc = "idle"
                  /\ session'[w].timedOut /\ session'[w].filter = Kind => session'[w].owed <= drained'
    PROVE  AwaitInv'
<1>1. Settled' = Settled
    BY SameEntries
<1>2. AwaitTypeOK'
    BY <1>1 DEF AwaitInv, AwaitTypeOK, knowledge
<1>3. Unopened'
    BY DEF AwaitInv, RunInv, Unopened, Opened
<1>4. ASSUME NEW w \in Caller PROVE RunOK(w)'
    <2>1. RunOK(w) /\ run[w] \in RunWait /\ Len(lines) \in Nat
        BY RunOKs, TypesAre DEF AwaitInv, AwaitTypeOK
    <2> QED
        BY <2>1, LinesKept
<1>5. ASSUME NEW w \in Caller
      PROVE  /\ session'[w].owed <= Len(lines)
             /\ session'[w].timedOut => session'[w].pc = "idle"
             /\ session'[w].timedOut /\ session'[w].filter = Kind => session'[w].owed <= drained'
    <2>1. CASE session'[w] = session[w]
        <3>1. session[w].owed \in Nat /\ drained \in Nat /\ drained' \in Nat
            BY DEF AwaitInv, AwaitTypeOK, SessionWait
        <3>2. /\ session[w].owed <= Len(lines)
              /\ session[w].timedOut => session[w].pc = "idle"
              /\ session[w].timedOut /\ session[w].filter = Kind => session[w].owed <= drained
            BY DEF AwaitInv, SessionInv, OwedIsThere, TimedOutIsQuiet
        <3> QED
            BY <2>1, <3>1, <3>2
    <2>2. CASE session'[w] # session[w]
        BY <2>2
    <2> QED
        BY <2>1, <2>2
<1>6. RunInv'
    BY <1>3, <1>4, RunOKsNext
<1>7. SessionInv'
    BY <1>5 DEF SessionInv, OwedIsThere, TimedOutIsQuiet
<1> QED
    BY <1>2, <1>6, <1>7 DEF AwaitInv

LEMMA PiggybackStep == AwaitInv /\ Piggyback => AwaitInv'
<1> SUFFICES ASSUME AwaitInv, Piggyback PROVE AwaitInv'
    OBVIOUS
<1>1. drained' \in 0..Len(lines) /\ drained <= drained'
    BY DrainsForward DEF Piggyback, AwaitInv
<1>2. session' = session /\ session' \in [Caller -> SessionWait]
    BY DEF Piggyback, AwaitInv, AwaitTypeOK
<1> QED
    BY <1>1, <1>2, SessionMoves DEF Piggyback

\* One caller's wait on the session becomes s.
LEMMA OneSessionMoves ==
    ASSUME AwaitInv, NEW w \in Caller, NEW s \in SessionWait, session' = [session EXCEPT ![w] = s],
           UNCHANGED <<attempt, bound, entries, lines, unannounced, unheard, run, knowledge>>,
           drained' \in 0..Len(lines), drained <= drained', s.owed <= Len(lines),
           s.timedOut => s.pc = "idle", s.timedOut /\ s.filter = Kind => s.owed <= drained'
    PROVE  AwaitInv'
<1>1. session' \in [Caller -> SessionWait] /\ session'[w] = s
      /\ \A v \in Caller : v # w => session'[v] = session[v]
    BY DEF AwaitInv, AwaitTypeOK
<1>2. \A v \in Caller :
          \/ session'[v] = session[v]
          \/ /\ session'[v].owed <= Len(lines)
             /\ session'[v].timedOut => session'[v].pc = "idle"
             /\ session'[v].timedOut /\ session'[v].filter = Kind => session'[v].owed <= drained'
    BY <1>1
<1> QED
    BY <1>1, <1>2, SessionMoves

\* A wait under way becomes another one that has not timed out.
LEMMA SessionGoesOn ==
    ASSUME AwaitInv, NEW w \in Caller, NEW s \in SessionWait, session' = [session EXCEPT ![w] = s],
           UNCHANGED <<stores, run, knowledge>>, s.owed <= Len(lines), s.timedOut = FALSE
    PROVE  AwaitInv'
<1>1. UNCHANGED <<attempt, bound, entries, lines, drained, unannounced, unheard>>
      /\ drained \in 0..Len(lines) /\ drained <= drained
    BY DEF stores, AwaitInv, AwaitTypeOK
<1> QED
    BY <1>1, OneSessionMoves

LEMMA AwaitSessionStep ==
    ASSUME AwaitInv, NEW w \in Caller, NEW filter \in SUBSET Kind, AwaitSession(w, filter)
    PROVE  AwaitInv'
<1>1. Len(lines) \in 0..MaxLines /\ drained \in 0..MaxLines
    BY TypesAre DEF AwaitInv, AwaitTypeOK
<1>2. PICK s : s = [IdleSession EXCEPT !.pc = "draining", !.filter = filter, !.cursor = drained,
                                       !.owed = Len(lines)]
    OBVIOUS
<1>3. s \in SessionWait /\ s.owed = Len(lines) /\ s.timedOut = FALSE
    BY <1>1, <1>2, IdlesAre DEF SessionWait
<1>4. session' = [session EXCEPT ![w] = s] /\ UNCHANGED <<stores, run, knowledge>>
    BY <1>2 DEF AwaitSession
<1>5. s.owed <= Len(lines)
    BY <1>1, <1>3
<1> QED
    BY <1>3, <1>4, <1>5, SessionGoesOn

LEMMA UnderWay ==
    ASSUME AwaitInv, NEW w \in Caller, session[w].pc # "idle"
    PROVE  session[w] \in SessionWait /\ session[w].owed <= Len(lines) /\ session[w].timedOut = FALSE
<1>1. session[w] \in SessionWait /\ session[w].owed <= Len(lines) /\ ~session[w].timedOut
    BY DEF AwaitInv, AwaitTypeOK, SessionInv, OwedIsThere
<1> QED
    BY <1>1 DEF SessionWait

LEMMA SweepStep ==
    ASSUME AwaitInv, NEW w \in Caller, Sweep(w)
    PROVE  AwaitInv'
<1>1. session[w].pc = "sweep" /\ drained \in 0..MaxLines
    BY TypesAre DEF Sweep, AwaitInv, AwaitTypeOK
<1>2. session[w] \in SessionWait /\ session[w].owed <= Len(lines) /\ session[w].timedOut = FALSE
    BY <1>1, UnderWay
<1>3. PICK s : s = [session[w] EXCEPT !.pc = "unparked", !.swept = TRUE, !.cursor = drained]
    OBVIOUS
<1>4. s \in SessionWait /\ s.owed = session[w].owed /\ s.timedOut = session[w].timedOut
    BY <1>1, <1>2, <1>3 DEF SessionWait
<1>5. session' = [session EXCEPT ![w] = s] /\ UNCHANGED <<stores, run, knowledge>>
    BY <1>3 DEF Sweep
<1> QED
    BY <1>2, <1>4, <1>5, SessionGoesOn

LEMMA ParkSessionStep ==
    ASSUME AwaitInv, NEW w \in Caller, ParkSession(w)
    PROVE  AwaitInv'
<1>1. session[w].pc = "unparked"
    BY DEF ParkSession
<1>2. session[w] \in SessionWait /\ session[w].owed <= Len(lines) /\ session[w].timedOut = FALSE
    BY <1>1, UnderWay
<1>3. PICK s : s = [session[w] EXCEPT !.pc = "parked"]
    OBVIOUS
<1>4. s \in SessionWait /\ s.owed = session[w].owed /\ s.timedOut = session[w].timedOut
    BY <1>2, <1>3 DEF SessionWait
<1>5. session' = [session EXCEPT ![w] = s] /\ UNCHANGED <<stores, run, knowledge>>
    BY <1>3 DEF ParkSession
<1> QED
    BY <1>2, <1>4, <1>5, SessionGoesOn

LEMMA TimeOutSessionStep ==
    ASSUME AwaitInv, NEW w \in Caller, TimeOutSession(w)
    PROVE  AwaitInv'
<1>1. session[w].pc = "parked" /\ Len(lines) \in 0..MaxLines
    BY TypesAre DEF TimeOutSession, AwaitInv
<1>2. session[w] \in SessionWait /\ session[w].owed <= Len(lines) /\ session[w].timedOut = FALSE
    BY <1>1, UnderWay
<1>3. PICK s : s = [session[w] EXCEPT !.pc = "draining", !.expired = TRUE, !.owed = Len(lines)]
    OBVIOUS
<1>4. s \in SessionWait /\ s.owed = Len(lines) /\ s.timedOut = session[w].timedOut
    BY <1>1, <1>2, <1>3 DEF SessionWait
<1>5. session' = [session EXCEPT ![w] = s] /\ UNCHANGED <<stores, run, knowledge>>
    BY <1>3 DEF TimeOutSession
<1>6. s.owed <= Len(lines) /\ s.timedOut = FALSE
    BY <1>1, <1>2, <1>4
<1> QED
    BY <1>4, <1>5, <1>6, SessionGoesOn

\* A wait that times out with nothing matched has drained everything, if it
\* takes any line: a line that was not drained would have matched.
LEMMA DrainStep ==
    ASSUME AwaitInv, NEW w \in Caller, Drain(w)
    PROVE  AwaitInv'
<1> DEFINE self == session[w]
           matched == \E l \in drained + 1..DrainsTo : lines[l] \in self.filter
           reached == IF drained < Len(lines) THEN DrainsTo ELSE self.cursor
           next == IF self.swept THEN "unparked" ELSE "sweep"
<1>1. /\ Len(lines) \in 0..MaxLines /\ drained \in 0..Len(lines) /\ lines \in Seq(Kind)
      /\ DrainsTo \in 0..Len(lines) /\ drained <= DrainsTo
      /\ DrainsTo = drained => drained = Len(lines)
    BY TypesAre, DrainsForward DEF AwaitInv, AwaitTypeOK
<1>2. /\ self.pc = "draining" /\ drained' = DrainsTo
      /\ UNCHANGED <<attempt, bound, entries, lines, unannounced, unheard, run, knowledge>>
    BY DEF Drain
<1>3. self \in SessionWait /\ self.owed <= Len(lines) /\ self.timedOut = FALSE
    BY <1>2, UnderWay
<1>4. CASE matched /\ session' = [session EXCEPT ![w] = IdleSession]
    <2>1. IdleSession \in SessionWait /\ IdleSession.owed <= Len(lines) /\ IdleSession.timedOut = FALSE
        BY <1>1, IdlesAre DEF SessionWait
    <2> QED
        BY <1>1, <1>2, <1>4, <2>1, OneSessionMoves
<1>5. CASE ~matched /\ session' = [session EXCEPT ![w] =
                  [self EXCEPT !.pc = "idle", !.cursor = 0, !.timedOut = TRUE]]
    <2>1. PICK s : s = [self EXCEPT !.pc = "idle", !.cursor = 0, !.timedOut = TRUE]
        OBVIOUS
    <2>2. s \in SessionWait /\ s.pc = "idle" /\ s.owed = self.owed /\ s.filter = self.filter
        <3>1. PICK was \in SessionWait : was = self
            BY <1>3
        <3>2. s = [was EXCEPT !.pc = "idle", !.cursor = 0, !.timedOut = TRUE]
            BY <2>1, <3>1
        <3>3. 0 \in 0..MaxLines /\ was \in SessionWait
            BY <3>1
        <3> HIDE DEF self, matched
        <3>4. s \in SessionWait /\ s.pc = "idle" /\ s.owed = was.owed /\ s.filter = was.filter
            BY <3>2, <3>3 DEF SessionWait
        <3> QED
            BY <3>1, <3>4
    <2>3. s.filter = Kind => s.owed <= drained'
        <3> SUFFICES ASSUME self.filter = Kind PROVE self.owed <= DrainsTo
            BY <1>2, <2>2
        <3>1. \A l \in drained + 1..DrainsTo : lines[l] \in Kind
            BY <1>1
        <3>2. DrainsTo = drained
            BY <1>1, <1>5, <3>1
        <3> QED
            BY <1>1, <1>3, <3>2
    <2>4. session' = [session EXCEPT ![w] = s]
        BY <1>5, <2>1
    <2> HIDE DEF self, matched
    <2>5. s.owed <= Len(lines)
        BY <1>3, <2>2 DEF self
    <2> QED
        BY <1>1, <1>2, <2>2, <2>3, <2>4, <2>5, OneSessionMoves
<1>6. CASE session' = [session EXCEPT ![w] = [self EXCEPT !.pc = next, !.cursor = reached]]
    <2>1. reached \in 0..MaxLines /\ next \in {"unparked", "sweep"}
        BY <1>1, <1>3 DEF SessionWait
    <2>2. PICK s : s = [self EXCEPT !.pc = next, !.cursor = reached]
        OBVIOUS
    <2> HIDE DEF next, reached
    <2>3. s \in SessionWait /\ s.owed = self.owed /\ s.timedOut = self.timedOut
        BY <1>3, <2>1, <2>2 DEF SessionWait
    <2>4. session' = [session EXCEPT ![w] = s]
        BY <1>6, <2>2
    <2>5. s.timedOut = FALSE /\ s.owed <= Len(lines)
        BY <1>3, <2>3
    <2> HIDE DEF self, matched
    <2> QED
        BY <1>1, <1>2, <2>3, <2>4, <2>5, OneSessionMoves
<1> QED
    BY <1>4, <1>5, <1>6 DEF Drain

----------------------------------------------------------------------------
LEMMA AwaitInvStep == AwaitInv /\ [Next]_awaitVars => AwaitInv'
<1> SUFFICES ASSUME AwaitInv, [Next]_awaitVars PROVE AwaitInv'
    OBVIOUS
<1>1. ASSUME NEW n \in Txn,
             \/ \E state \in {"in_flight", "settled"} : AppendEntry(n, state)
             \/ \E i \in 1..Len(entries[n]), state \in {"settled", "discarded"} : Settle(n, i, state)
             \/ \E seq \in 0..Len(entries[n]) : PublishNoEntry(n, seq)
      PROVE  AwaitInv'
    BY <1>1, AppendStep, SettleStep, PublishNoEntryStep
<1>2. ASSUME NEW w \in Caller, RunStep(w) PROVE AwaitInv'
    <2>1. ASSUME NEW after \in {cursor[w].seq, drained}, AwaitEvent(w, after) PROVE AwaitInv'
        <3>1. after \in Nat
            BY DEF AwaitInv, AwaitTypeOK
        <3> QED
            BY <2>1, <3>1, AnsweredAtOnce, StartsToWait
    <2> QED
        BY <1>2, <2>1, DeclineStep, ParkStep, CheckLinesStep, CheckFailsStep, ParkAgainStep,
           TimeOutStep, ReloadStep DEF RunStep
<1>3. ASSUME NEW w \in Caller, SessionStep(w) PROVE AwaitInv'
    <2>1. ASSUME NEW filter \in {Kind, {"dead_end"}}, AwaitSession(w, filter) PROVE AwaitInv'
        <3>1. filter \in SUBSET Kind
            BY DEF Kind
        <3> QED
            BY <2>1, <3>1, AwaitSessionStep
    <2> QED
        BY <1>3, <2>1, DrainStep, SweepStep, ParkSessionStep, TimeOutSessionStep DEF SessionStep
<1>4. ASSUME NEW kind \in Kind, JournalLine(kind) PROVE AwaitInv'
    BY <1>4, JournalLineStep
<1>5. ASSUME NEW l \in 1..MaxLines, NotifyJournal(l) PROVE AwaitInv'
    BY <1>5, NotifyJournalStep
<1>6. ASSUME NEW e \in EntryId, Publish(e) PROVE AwaitInv'
    BY <1>6, PublishStep
<1>7. CASE UNCHANGED awaitVars
    <2>1. UNCHANGED <<attempt, bound, entries, lines, unannounced, unheard, drained, run, session, knowledge>>
        BY <1>7 DEF awaitVars, stores
    <2>2. drained \in 0..Len(lines) /\ drained <= drained /\ session' \in [Caller -> SessionWait]
        BY <2>1 DEF AwaitInv, AwaitTypeOK
    <2> QED
        BY <2>1, <2>2, SessionMoves
<1> QED
    BY <1>1, <1>2, <1>3, <1>4, <1>5, <1>6, <1>7, BindStep, RestartStep, PiggybackStep DEF Next

\* The inductive invariant of the waits and of what they rest on.
THEOREM AwaitInvariant == Spec => []AwaitInv
BY AwaitInvInit, AwaitInvStep, PTL DEF Spec

\* Nothing is reported that is not on the record with its verdict.
THEOREM ReportsAreStored == Spec => []ReportedIsStored
<1>1. AwaitInv => ReportedIsStored
    BY DEF AwaitInv, RunInv
<1> QED
    BY <1>1, AwaitInvariant, PTL

\* A caller that passes back the number it was given sees no exchange of the
\* attempt twice.
THEOREM NothingIsSeenTwice == Spec => []NothingSeenTwice
<1>1. AwaitInv => NothingSeenTwice
    BY DEF AwaitInv, RunInv
<1> QED
    BY <1>1, AwaitInvariant, PTL

\* Whatever number it is given, a wait is parked where the next exchange of
\* what it listens to reaches it.
THEOREM NoWaitIsDeaf == Spec => []NeverDeaf
<1>1. AwaitInv => NeverDeaf
    BY DEF AwaitInv, RunInv, WithinReach, Waiting, NeverDeaf
<1> QED
    BY <1>1, AwaitInvariant, PTL

\* What is published while a wait is parked below it ends the wait, under the
\* transaction or under the run.
THEOREM HintsAreHeard == Spec => []EveryHintIsHeard
<1>1. AwaitInv => EveryHintIsHeard
    BY DEF AwaitInv, RunInv
<1> QED
    BY <1>1, AwaitInvariant, PTL

\* A wait on the session that timed out has drained what it owed.
THEOREM TimeOutsAreQuiet == Spec => []TimedOutIsQuiet
<1>1. AwaitInv => TimedOutIsQuiet
    BY DEF AwaitInv, SessionInv
<1> QED
    BY <1>1, AwaitInvariant, PTL

\* A wait that a dead-end line woke ends, however many lines came after it.
THEOREM DeadEndsEndTheWait == Spec => []DeadEndEndsTheWait
<1>1. AwaitInv => DeadEndEndsTheWait
    BY DEF AwaitInv, RunInv, DeadEndIsThere, DeadEndEndsTheWait
<1> QED
    BY <1>1, AwaitInvariant, PTL
=============================================================================
