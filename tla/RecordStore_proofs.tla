------------------------- MODULE RecordStore_proofs -------------------------
(***************************************************************************)
(* Proofs about withKeyLock and the transaction records under it, for any  *)
(* number of calls and of keys, any rejections of the store and any        *)
(* crashes.                                                                *)
(*                                                                         *)
(* The lock serves the calls on a key one at a time and in order: the slot *)
(* of a key always holds the promise of the newest call that is not over   *)
(* (SlotHoldsTail), so a new call is chained behind every call before it   *)
(* that is not over (ChainedBehind), and by induction along the chain all  *)
(* of those are over when its predecessor is.                              *)
(*                                                                         *)
(* A call changes a copy it loaded some awaits earlier.  What makes that   *)
(* one step is the lock: a call is alone on its key (LockIsExclusive), so  *)
(* the copy is still what is stored when it is written back (CopyIsFresh). *)
(* The rest of the invariant is about the entries: each has a number and   *)
(* an author of its own (Listed), and the number an append gave its caller *)
(* is that of the caller's own entry or of none (Numbered), so what a      *)
(* later call settles or discards is what its caller appended (Finishing,  *)
(* InHand).                                                                *)
(***************************************************************************)
EXTENDS RecordStore, WellFoundedInduction, TLAPS

----------------------------------------------------------------------------
(* withKeyLock.                                                            *)

\* Calls are made in the order of their numbers.
AskedInOrder == \A c, d \in Call : d < c /\ Asked(c) => Asked(d)

SlotHoldsTail ==
    \A c \in Call : Asked(c) =>
        IsOver(c) \/ (slot[KeyOf[c]] # Resolved /\ c <= slot[KeyOf[c]][1])

SlotIsOfItsKey ==
    \A k \in Key : slot[k] # Resolved =>
        \E p \in Call : slot[k] = Caught(p) /\ KeyOf[p] = k /\ Asked(p)

ChainedBehind ==
    \A c, d \in Call : d < c /\ KeyOf[d] = KeyOf[c] /\ Asked(c) =>
        IsOver(d) \/ (previous[c] # Resolved /\ d <= previous[c][1])

ChainedOnItsKey ==
    \A c \in Call : previous[c] # Resolved =>
        \E p \in Call : previous[c] = Caught(p) /\ KeyOf[p] = KeyOf[c] /\ Asked(p)

LockInv ==
    /\ LockTypeOK
    /\ AskedInOrder
    /\ SlotHoldsTail
    /\ SlotIsOfItsKey
    /\ ChainedBehind
    /\ ChainedOnItsKey
    /\ FirstComeFirstServed

USE CallAssumption, KeyAssumption

\* Type correctness of every step.
LEMMA LockTypeStep ==
    LockTypeOK /\ [LockNext]_lockVars => LockTypeOK'
<1> SUFFICES ASSUME LockTypeOK, [LockNext]_lockVars PROVE LockTypeOK'
    OBVIOUS
<1> USE DEF LockTypeOK, Promise, Phase, Over, Settling, Resolved
<1>1. CASE UNCHANGED lockVars
    BY <1>1 DEF lockVars
<1>2. ASSUME NEW c \in Call, Request(c) PROVE LockTypeOK'
    <2>1. Caught(c) \in Promise
        BY DEF Caught
    <2>2. KeyOf[c] \in Key
        OBVIOUS
    <2> QED
        BY <1>2, <2>1, <2>2 DEF Request
<1>3. ASSUME NEW c \in Call, Start(c) PROVE LockTypeOK'
    BY <1>3 DEF Start
<1>4. ASSUME NEW c \in Call, NEW o \in Settling, Settle(c, o) PROVE LockTypeOK'
    BY <1>4 DEF Settle
<1>5. ASSUME NEW c \in Call, Release(c) PROVE LockTypeOK'
    BY <1>5 DEF Release
<1>6. CASE Crash
    BY <1>6 DEF Crash
<1> QED
    BY <1>1, <1>2, <1>3, <1>4, <1>5, <1>6 DEF LockNext

\* Two asked calls' phases change only by getting further: what is asked stays
\* asked and what is over stays over.
LEMMA PhasesAdvance ==
    ASSUME LockTypeOK, [LockNext]_lockVars, NEW c \in Call
    PROVE  (Asked(c) => Asked(c)') /\ (IsOver(c) => IsOver(c)')
<1> USE DEF LockTypeOK, Phase, Over, Settling, Asked, IsOver
<1>1. CASE UNCHANGED lockVars
    BY <1>1 DEF lockVars
<1>2. ASSUME NEW d \in Call, Request(d) PROVE (Asked(c) => Asked(c)') /\ (IsOver(c) => IsOver(c)')
    BY <1>2 DEF Request
<1>3. ASSUME NEW d \in Call, Start(d) PROVE (Asked(c) => Asked(c)') /\ (IsOver(c) => IsOver(c)')
    BY <1>3 DEF Start
<1>4. ASSUME NEW d \in Call, NEW o \in Settling, Settle(d, o)
      PROVE (Asked(c) => Asked(c)') /\ (IsOver(c) => IsOver(c)')
    BY <1>4 DEF Settle
<1>5. ASSUME NEW d \in Call, Release(d) PROVE (Asked(c) => Asked(c)') /\ (IsOver(c) => IsOver(c)')
    BY <1>5 DEF Release
<1>6. CASE Crash
    BY <1>6 DEF Crash
<1> QED
    BY <1>1, <1>2, <1>3, <1>4, <1>5, <1>6 DEF LockNext

LEMMA RequestStep ==
    ASSUME LockInv, NEW r \in Call, Request(r), LockTypeOK'
    PROVE  LockInv'
<1> USE DEF LockInv
<1>1. /\ KeyOf[r] \in Key
      /\ slot' = [slot EXCEPT ![KeyOf[r]] = Caught(r)]
      /\ previous' = [previous EXCEPT ![r] = slot[KeyOf[r]]]
      /\ phase' = [phase EXCEPT ![r] = "queued"]
      /\ phase[r] = "idle"
      /\ \A d \in Call : d < r => Asked(d)
    BY DEF Request
<1>2. \A c \in Call : (Asked(c)' <=> Asked(c) \/ c = r) /\ (IsOver(c)' <=> IsOver(c))
    BY <1>1 DEF LockTypeOK, Asked, IsOver, Over
<1>3. \A c \in Call : Asked(c)' => c <= r
    BY <1>1, <1>2 DEF AskedInOrder, Asked
<1>4. AskedInOrder'
    BY <1>1, <1>2, <1>3 DEF AskedInOrder
<1>5. Caught(r) # Resolved /\ Caught(r)[1] = r
    BY DEF Caught, Resolved
<1>6. SlotHoldsTail'
    BY <1>1, <1>2, <1>3, <1>5 DEF SlotHoldsTail, LockTypeOK
<1>7. SlotIsOfItsKey'
    BY <1>1, <1>2 DEF SlotIsOfItsKey, LockTypeOK, Caught
<1>8. ChainedBehind'
    <2> SUFFICES ASSUME NEW c \in Call, NEW d \in Call,
                        d < c, KeyOf[d] = KeyOf[c], Asked(c)'
                 PROVE  IsOver(d)' \/ (previous'[c] # Resolved /\ d <= previous'[c][1])
        BY DEF ChainedBehind
    <2>1. CASE c = r
        BY <2>1, <1>1, <1>2 DEF SlotHoldsTail, LockTypeOK
    <2>2. CASE c # r
        BY <2>2, <1>1, <1>2 DEF ChainedBehind, LockTypeOK
    <2> QED
        BY <2>1, <2>2
<1>9. ChainedOnItsKey'
    BY <1>1, <1>2 DEF ChainedOnItsKey, SlotIsOfItsKey, LockTypeOK
<1>10. FirstComeFirstServed'
    BY <1>1, <1>2 DEF FirstComeFirstServed, Started, Asked, LockTypeOK
<1> QED
    BY <1>4, <1>6, <1>7, <1>8, <1>9, <1>10

\* A call starts when its predecessor is over; everything before the
\* predecessor is over then, and nothing between the two is not.
LEMMA StartStep ==
    ASSUME LockInv, NEW r \in Call, Start(r), LockTypeOK'
    PROVE  LockInv'
<1> USE DEF LockInv
<1>1. /\ phase' = [phase EXCEPT ![r] = "running"]
      /\ phase[r] = "queued"
      /\ Settled(previous[r])
      /\ UNCHANGED <<slot, previous>>
    BY DEF Start
<1>2. \A c \in Call : (Asked(c)' <=> Asked(c)) /\ (IsOver(c)' <=> IsOver(c))
    BY <1>1 DEF LockTypeOK, Asked, IsOver, Over
<1>3. \A d \in Call : d < r /\ KeyOf[d] = KeyOf[r] => IsOver(d)
    <2> SUFFICES ASSUME NEW d \in Call, d < r, KeyOf[d] = KeyOf[r], ~IsOver(d)
                 PROVE  FALSE
        OBVIOUS
    <2>1. previous[r] # Resolved /\ d <= previous[r][1]
        BY <1>1 DEF ChainedBehind, Asked
    <2>2. PICK p \in Call : previous[r] = Caught(p) /\ KeyOf[p] = KeyOf[r]
        BY <2>1 DEF ChainedOnItsKey
    <2>3. IsOver(p) /\ d <= p
        BY <2>1, <2>2, <1>1 DEF Settled, Caught, IsOver
    <2>4. Started(p)
        BY <2>3 DEF IsOver, Over, Started
    <2> QED
        BY <2>2, <2>3, <2>4 DEF FirstComeFirstServed
<1>4. AskedInOrder'
    BY <1>2 DEF AskedInOrder
<1>5. SlotHoldsTail'
    BY <1>1, <1>2 DEF SlotHoldsTail
<1>6. SlotIsOfItsKey'
    BY <1>1, <1>2 DEF SlotIsOfItsKey
<1>7. ChainedBehind'
    BY <1>1, <1>2 DEF ChainedBehind
<1>8. ChainedOnItsKey'
    BY <1>1, <1>2 DEF ChainedOnItsKey
<1>9. FirstComeFirstServed'
    BY <1>1, <1>2, <1>3 DEF FirstComeFirstServed, Started, LockTypeOK
<1> QED
    BY <1>4, <1>5, <1>6, <1>7, <1>8, <1>9

\* Settling and releasing move one started call to over; the slot is as it
\* was, because the promise in it is never the one the call compares it with.
LEMMA EndStep ==
    ASSUME LockInv, NEW r \in Call, LockTypeOK',
           Release(r) \/ \E o \in Settling : Settle(r, o)
    PROVE  LockInv'
<1> USE DEF LockInv
<1>1. slot' = slot
    <2>1. CASE Release(r)
        <3>1. slot[KeyOf[r]] # Current(r)
            <4>1. slot[KeyOf[r]] = Resolved \/ \E p \in Call : slot[KeyOf[r]] = Caught(p)
                BY DEF SlotIsOfItsKey
            <4> QED
                BY <4>1 DEF Caught, Current, Resolved
        <3> QED
            BY <2>1, <3>1 DEF Release, LockTypeOK
    <2> QED
        BY <2>1 DEF Settle
<1>2. /\ previous' = previous
      /\ \E q \in Over : phase' = [phase EXCEPT ![r] = q]
      /\ Started(r)
    BY DEF Release, Settle, Settling, Over, Started
<1>3. \A c \in Call : (Asked(c)' <=> Asked(c)) /\ (IsOver(c) => IsOver(c)') /\ (Started(c)' <=> Started(c))
    BY <1>2 DEF LockTypeOK, Asked, IsOver, Over, Started
<1>4. AskedInOrder'
    BY <1>3 DEF AskedInOrder
<1>5. SlotHoldsTail'
    BY <1>1, <1>3 DEF SlotHoldsTail
<1>6. SlotIsOfItsKey'
    BY <1>1, <1>3 DEF SlotIsOfItsKey
<1>7. ChainedBehind'
    BY <1>2, <1>3 DEF ChainedBehind
<1>8. ChainedOnItsKey'
    BY <1>2, <1>3 DEF ChainedOnItsKey
<1>9. FirstComeFirstServed'
    BY <1>3 DEF FirstComeFirstServed
<1> QED
    BY <1>4, <1>5, <1>6, <1>7, <1>8, <1>9

\* A crash ends every call that was asked for and empties the map.
LEMMA CrashStep ==
    ASSUME LockInv, Crash, LockTypeOK'
    PROVE  LockInv'
<1> USE DEF LockInv
<1>1. /\ slot' = [k \in Key |-> Resolved]
      /\ previous' = previous
      /\ \A c \in Call : (Asked(c)' <=> Asked(c)) /\ (Asked(c) => IsOver(c)')
    BY DEF Crash, LockTypeOK, Phase, Over, Settling, Asked, IsOver
<1>2. \A c \in Call : Started(c)' => Asked(c)
    BY <1>1 DEF Started, Asked
<1>3. AskedInOrder'
    BY <1>1 DEF AskedInOrder
<1>4. SlotHoldsTail'
    BY <1>1 DEF SlotHoldsTail
<1>5. SlotIsOfItsKey'
    BY <1>1 DEF SlotIsOfItsKey
<1>6. ChainedBehind'
    BY <1>1 DEF ChainedBehind, AskedInOrder
<1>7. ChainedOnItsKey'
    BY <1>1 DEF ChainedOnItsKey
<1>8. FirstComeFirstServed'
    BY <1>1, <1>2 DEF FirstComeFirstServed, AskedInOrder
<1> QED
    BY <1>3, <1>4, <1>5, <1>6, <1>7, <1>8

LEMMA LockInvInit == LockInit => LockInv
BY DEF LockInit, LockInv, LockTypeOK, AskedInOrder, SlotHoldsTail, SlotIsOfItsKey,
       ChainedBehind, ChainedOnItsKey, FirstComeFirstServed, Asked, Started, Promise, Phase,
       Resolved

LEMMA LockInvStep == LockInv /\ [LockNext]_lockVars => LockInv'
<1> SUFFICES ASSUME LockInv, [LockNext]_lockVars PROVE LockInv'
    OBVIOUS
<1>1. LockTypeOK'
    BY LockTypeStep DEF LockInv
<1>2. CASE UNCHANGED lockVars
    BY <1>2 DEF lockVars, LockInv, LockTypeOK, AskedInOrder, SlotHoldsTail, SlotIsOfItsKey,
                ChainedBehind, ChainedOnItsKey, FirstComeFirstServed, Asked, Started, IsOver
<1>3. CASE \E c \in Call : Request(c)
    BY <1>1, <1>3, RequestStep
<1>4. CASE \E c \in Call : Start(c)
    BY <1>1, <1>4, StartStep
<1>5. CASE \E c \in Call : Release(c) \/ \E o \in Settling : Settle(c, o)
    BY <1>1, <1>5, EndStep
<1>6. CASE Crash
    BY <1>1, <1>6, CrashStep
<1> QED
    BY <1>2, <1>3, <1>4, <1>5, <1>6 DEF LockNext

THEOREM LockInvariant == LockSpec => []LockInv
BY LockInvInit, LockInvStep, PTL DEF LockSpec

\* withKeyLock runs the work on a key in the order it was asked for.
THEOREM LockIsFair == LockSpec => []FirstComeFirstServed
<1>1. LockInv => FirstComeFirstServed
    BY DEF LockInv
<1> QED
    BY <1>1, LockInvariant, PTL

\* First come, first served leaves one call at a time in its critical section.
LEMMA FairIsExclusive == LockTypeOK /\ FirstComeFirstServed => OneAtATime
<1> SUFFICES ASSUME LockTypeOK, FirstComeFirstServed, NEW c \in Call, NEW d \in Call,
                    phase[c] = "running", phase[d] = "running", KeyOf[c] = KeyOf[d]
             PROVE  c = d
    BY DEF OneAtATime
<1>1. Started(c) /\ Started(d) /\ ~IsOver(c) /\ ~IsOver(d)
    BY DEF Started, IsOver, Over
<1>2. ~(c < d) /\ ~(d < c)
    BY <1>1 DEF FirstComeFirstServed
<1>3. c \in Nat /\ d \in Nat
    OBVIOUS
<1> QED
    BY <1>2, <1>3

\* No two calls on one key are in their critical section together.
THEOREM LockIsExclusive == LockSpec => []OneAtATime
<1>1. LockInv => OneAtATime
    BY FairIsExclusive DEF LockInv
<1> QED
    BY <1>1, LockInvariant, PTL

----------------------------------------------------------------------------
USE AbsentAssumption

----------------------------------------------------------------------------
(* Sets of numbers.                                                        *)

LEMMA LeastExists ==
    ASSUME NEW S \in SUBSET Nat, S # {}
    PROVE  \E x \in S : \A y \in S : x <= y
<1> DEFINE R == OpToRel(<, Nat)
<1>1. \A x, y \in Nat : <<x, y>> \in R <=> x < y
    BY DEF OpToRel
<1>2. IsWellFoundedOn(R, Nat)
    BY NatLessThanWellFounded
<1> HIDE DEF R
<1>3. PICK x \in S : \A y \in S : ~(<<y, x>> \in R)
    BY <1>2, WFMin
<1>4. ASSUME NEW y \in S PROVE x <= y
    <2>1. x \in Nat /\ y \in Nat
        OBVIOUS
    <2>2. ~(y < x)
        BY <1>1, <1>3, <2>1
    <2> QED
        BY <2>1, <2>2
<1> QED
    BY <1>4

LEMMA GreatestExists ==
    ASSUME NEW S \in SUBSET Nat, S # {}, NEW n \in Nat, \A x \in S : x <= n
    PROVE  \E x \in S : \A y \in S : y <= x
<1> DEFINE T == {k \in Nat : \E x \in S : k = n - x}
<1>1. T \in SUBSET Nat /\ T # {}
    <2>1. PICK x \in S : TRUE
        OBVIOUS
    <2>2. n - x \in Nat
        OBVIOUS
    <2> QED
        BY <2>2
<1>2. PICK k \in T : \A y \in T : k <= y
    BY <1>1, LeastExists
<1>3. PICK x \in S : k = n - x
    BY <1>2
<1>4. ASSUME NEW y \in S PROVE y <= x
    <2>1. n - y \in T
        OBVIOUS
    <2> QED
        BY <1>2, <1>3, <2>1
<1> QED
    BY <1>4

----------------------------------------------------------------------------
(* What the three changes to an exchange list do.                          *)

Entry == [seq : Nat \ {0}, from : Call, state : State]

NewEntry(r, c) ==
    [seq |-> r.seq + 1, from |-> c, state |-> IF op[c] = "send" THEN "in_flight" ELSE "settled"]

LEMMA EntryAdded ==
    ASSUME NEW r \in Record, NEW c \in Call
    PROVE  /\ WithEntry(r, c) \in Record
           /\ WithEntry(r, c).seq = r.seq + 1
           /\ WithEntry(r, c).entries = r.entries \cup {NewEntry(r, c)}
           /\ NewEntry(r, c) \in Entry
<1>1. NewEntry(r, c) \in Entry
    BY DEF NewEntry, Entry, Record, State
<1>2. r.entries \cup {NewEntry(r, c)} \in SUBSET Entry
    BY <1>1 DEF Record, Entry
<1> QED
    BY <1>1, <1>2 DEF WithEntry, NewEntry, Record, Entry

AnsweredEntries(E, n, s) == {IF e.seq = n THEN [e EXCEPT !.state = s] ELSE e : e \in E}
WithEntries(r, E) == [r EXCEPT !.entries = E]

LEMMA EntryAnswered ==
    ASSUME NEW r \in Record, NEW n \in Nat, NEW s \in State
    PROVE  /\ WithAnswer(r, n, s) \in Record
           /\ WithAnswer(r, n, s) = WithEntries(r, AnsweredEntries(r.entries, n, s))
           /\ WithAnswer(r, n, s).seq = r.seq
           /\ WithAnswer(r, n, s).entries = AnsweredEntries(r.entries, n, s)
<1> DEFINE E == AnsweredEntries(r.entries, n, s)
<1>1. E \in SUBSET Entry
    BY DEF Record, Entry, AnsweredEntries
<1>2. WithAnswer(r, n, s) = WithEntries(r, E)
    BY DEF WithAnswer, AnsweredEntries, WithEntries
<1> HIDE DEF E
<1>3. /\ WithEntries(r, E) \in Record
      /\ WithEntries(r, E).seq = r.seq
      /\ WithEntries(r, E).entries = E
    BY <1>1 DEF Record, Entry, WithEntries
<1> QED
    BY <1>2, <1>3 DEF E

\* Each entry keeps its number and author, and only the answered one's state
\* changes.
LEMMA AnsweredEntriesEffect ==
    ASSUME NEW E \in SUBSET Entry, NEW n \in Nat, NEW s \in State
    PROVE  /\ \A e \in AnsweredEntries(E, n, s) : \E f \in E :
                /\ e.seq = f.seq /\ e.from = f.from
                /\ e = [seq |-> f.seq, from |-> f.from, state |-> IF f.seq = n THEN s ELSE f.state]
           /\ \A f \in E : \E e \in AnsweredEntries(E, n, s) :
                e = [seq |-> f.seq, from |-> f.from, state |-> IF f.seq = n THEN s ELSE f.state]
<1> DEFINE Now(f) == [seq |-> f.seq, from |-> f.from, state |-> IF f.seq = n THEN s ELSE f.state]
<1>1. ASSUME NEW f \in E
      PROVE  (IF f.seq = n THEN [f EXCEPT !.state = s] ELSE f) = Now(f)
    BY DEF Entry
<1>2. \A f : Now(f).seq = f.seq /\ Now(f).from = f.from
    OBVIOUS
<1> HIDE DEF Now
<1>3. \A e \in AnsweredEntries(E, n, s) : \E f \in E : e = Now(f)
    BY <1>1 DEF AnsweredEntries
<1>4. \A f \in E : \E e \in AnsweredEntries(E, n, s) : e = Now(f)
    BY <1>1 DEF AnsweredEntries
<1>5. \A e \in AnsweredEntries(E, n, s) : \E f \in E :
          e.seq = f.seq /\ e.from = f.from /\ e = Now(f)
    BY <1>2, <1>3
<1> QED
    BY <1>4, <1>5 DEF Now

LEMMA NewestExists ==
    ASSUME NEW r \in Record, \A e \in r.entries : e.seq <= r.seq,
           NEW S \in SUBSET r.entries, S # {}
    PROVE  \E e \in S : \A f \in S : f.seq <= e.seq
<1> DEFINE T == {n \in Nat : \E e \in S : n = e.seq}
<1>1. \A e \in S : e.seq \in Nat /\ e.seq <= r.seq
    BY DEF Record
<1>2. PICK e \in S : TRUE
    OBVIOUS
<1>3. T \in SUBSET Nat /\ T # {} /\ \A x \in T : x <= r.seq
    BY <1>1, <1>2
<1>4. PICK n \in T : \A m \in T : m <= n
    BY <1>3, GreatestExists DEF Record
<1>5. PICK g \in S : g.seq = n
    BY <1>4
<1>6. \A f \in S : f.seq \in T
    BY <1>1
<1> QED
    BY <1>4, <1>5, <1>6

LEMMA EntryRemoved ==
    ASSUME NEW r \in Record, NEW n \in Nat, \A e \in r.entries : e.seq <= r.seq
    PROVE  /\ Without(r, n) \in Record
           /\ Without(r, n).seq = r.seq
           /\ Without(r, n).entries = {e \in r.entries : e.seq # n}
<1> DEFINE left == {e \in r.entries : e.seq # n}
           newest == IF left = {} THEN NoCall
                     ELSE (CHOOSE e \in left : \A f \in left : f.seq <= e.seq).from
<1>1. newest \in Call \cup {NoCall}
    <2>1. CASE left = {}
        BY <2>1
    <2>2. CASE left # {}
        <3>1. \E e \in left : \A f \in left : f.seq <= e.seq
            BY <2>2, NewestExists
        <3>2. (CHOOSE e \in left : \A f \in left : f.seq <= e.seq) \in left
            BY <3>1
        <3> QED
            BY <2>2, <3>2 DEF Record
    <2> QED
        BY <2>1, <2>2
<1>2. Without(r, n) = [r EXCEPT !.entries = left, !.latest = newest]
    BY DEF Without
<1>3. left \in SUBSET r.entries
    OBVIOUS
<1> HIDE DEF newest, left
<1>4. /\ [r EXCEPT !.entries = left, !.latest = newest] \in Record
      /\ [r EXCEPT !.entries = left, !.latest = newest].seq = r.seq
      /\ [r EXCEPT !.entries = left, !.latest = newest].entries = left
    BY <1>1, <1>3 DEF Record
<1> QED
    BY <1>2, <1>4 DEF left

----------------------------------------------------------------------------
(* The inductive invariant.                                                *)

\* A call is at a store call, or publishes, exactly while its work runs.
Places ==
    \A c \in Call :
        /\ Working(c) <=> at[c] \in AtStore \cup {"publish"}
        /\ at[c] = "end" => IsOver(c)
        /\ Asked(c) <=> op[c] # "none"
        /\ at[c] = "payload" => op[c] \in {"send", "receive"}
        /\ at[c] = "refresh" => op[c] \in Answers
        /\ at[c] = "drop" => op[c] = "discard"
        /\ at[c] = "publish" => op[c] # "discard"

\* An append that fulfilled has its number, and nobody has one that the record
\* has not handed out.
Numbered ==
    \A c \in Call :
        /\ at[c] = "end" /\ op[c] \in Appends => got[c] # 0
        /\ got[c] # 0 =>
             /\ op[c] \in Appends /\ IsOver(c)
             /\ record[KeyOf[c]] # Absent => got[c] <= record[KeyOf[c]].seq

\* What settles or discards an entry does so for a send that has its number.
Finishing ==
    \A c \in Call :
        /\ op[c] \in Finishers <=> of[c] # NoCall
        /\ of[c] # NoCall => /\ op[of[c]] = "send" /\ got[of[c]] # 0
                             /\ KeyOf[of[c]] = KeyOf[c]

\* The entries of the record r of transaction t: each has a number and an
\* author of its own, and the author's number, if it has one, is the entry's.
Listed(t, r) ==
    \A e \in r.entries :
        /\ e.seq <= r.seq
        /\ KeyOf[e.from] = t /\ op[e.from] \in Appends
        /\ IsOver(e.from) \/ at[e.from] = "publish"
        /\ e.state = "in_flight" => op[e.from] = "send"
        /\ got[e.from] \in {0, e.seq}
        /\ \A c \in Call : KeyOf[c] = t /\ got[c] = e.seq => c = e.from
        /\ \A f \in r.entries : e.seq = f.seq \/ e.from = f.from => e = f

AllListed == \A t \in Key : record[t] # Absent => Listed(t, record[t])

\* A copy is what is stored until it is written back.
CopyIsFresh ==
    \A c \in Call :
        /\ at[c] \in {"payload", "save"} => loaded[c] = MyRecord(c)
        /\ at[c] \in {"payload", "save", "refresh", "drop", "publish"} =>
             MyRecord(c) # Absent
        /\ at[c] = "save" /\ op[c] \in {"send", "receive"} => c \in payloads

\* What has lapsed belongs to a call that is over, and so is what finished it:
\* no call has lost, or will lose, a payload it still works on.
LapsedIsDone ==
    \A c \in Call :
        /\ c \in lapsed => IsOver(c)
        /\ of[c] \in lapsed => IsOver(c)

\* The entry a call settles or discards, and the entry it made.
InHand ==
    \A c \in Call :
        /\ at[c] = "save" /\ op[c] \in Finishers =>
             \E e \in MyRecord(c).entries : e.seq = got[of[c]]
        /\ at[c] = "drop" => \A e \in MyRecord(c).entries : e.from # of[c]
        /\ at[c] \in {"refresh", "publish"} /\ op[c] \in Answers =>
             \E e \in MyRecord(c).entries : e.seq = got[of[c]] /\ e.state # "in_flight"
        /\ at[c] = "publish" /\ op[c] \in Answers => of[c] \in answered
        /\ at[c] = "publish" /\ op[c] \in Appends =>
             /\ loaded[c] # Absent /\ MyRecord(c).seq = loaded[c].seq + 1
             /\ \E e \in MyRecord(c).entries :
                  /\ e.from = c /\ e.seq = MyRecord(c).seq
                  /\ op[c] # "send" => e.state # "in_flight"

StoreInv ==
    /\ RTypeOK
    /\ Places
    /\ Numbered
    /\ Finishing
    /\ AllListed
    /\ CopyIsFresh
    /\ InHand
    /\ EntriesHavePayloads

RInv == LockInv /\ StoreInv /\ LapsedIsDone

LEMMA RInvInit == RInit => RInv
<1> SUFFICES ASSUME RInit PROVE RInv
    OBVIOUS
<1>1. LockInv
    BY LockInvInit DEF RInit
<1>2. RTypeOK
    BY DEF RInit, RTypeOK
<1>3. Places /\ Numbered /\ Finishing
    BY DEF RInit, LockInit, Places, Numbered, Finishing, Asked, Working, AtStore, Finishers,
           Answers, NoCall
<1>4. AllListed /\ CopyIsFresh /\ InHand /\ EntriesHavePayloads
    BY DEF RInit, AllListed, CopyIsFresh, InHand, EntriesHavePayloads
<1>5. LapsedIsDone
    BY DEF RInit, LapsedIsDone
<1> QED
    BY <1>1, <1>2, <1>3, <1>4, <1>5 DEF RInv, StoreInv

\* Every step is a step of the lock, or leaves it alone.
LEMMA LockStep == [RNext]_vars => [LockNext]_lockVars
<1> SUFFICES ASSUME [RNext]_vars PROVE [LockNext]_lockVars
    OBVIOUS
<1>1. ASSUME NEW c \in Call, NEW outcome \in Settling, Finish(c, outcome) PROVE LockNext
    BY <1>1 DEF Finish, LockNext
<1>2. ASSUME NEW c \in Call, Work(c) PROVE [LockNext]_lockVars
    BY <1>1, <1>2 DEF Work, Begin, Load, SavePayload, SaveTransaction, RefreshPayload, DropPayload,
       Publish, StoreRejects, Return, AnsweredOrLost, Keep, GoTo, LockNext, lockVars, Settling
<1>3. ASSUME NEW c \in Call, NEW o, NEW a, Ask(c, o, a) PROVE LockNext
    BY <1>3 DEF Ask, LockNext
<1>4. CASE Restart
    BY <1>4 DEF Restart, LockNext
<1>5. CASE UNCHANGED vars
    BY <1>5 DEF vars
<1>6. ASSUME NEW t \in Key, CreateTransaction(t) \/ ExpireRecord(t) PROVE UNCHANGED lockVars
    BY <1>6 DEF CreateTransaction, ExpireRecord
<1>7. ASSUME NEW c \in Call, ExpirePayload(c) PROVE UNCHANGED lockVars
    BY <1>7 DEF ExpirePayload
<1> QED
    BY <1>2, <1>3, <1>4, <1>5, <1>6, <1>7 DEF RNext

\* The lock keeps two calls on one record from working together.
LEMMA AloneOnItsRecord ==
    ASSUME RInv, NEW c \in Call, NEW d \in Call, Working(c), Working(d), KeyOf[c] = KeyOf[d]
    PROVE  c = d
BY FairIsExclusive DEF RInv, LockInv, OneAtATime, Working

\* A step that leaves the lists and the numbers alone, and takes no author of
\* an entry back, leaves AllListed.
LEMMA ListsKept ==
    ASSUME AllListed, record' = record, got' = got, RTypeOK,
           \A d \in Call : /\ op[d] # "none" => op'[d] = op[d]
                           /\ IsOver(d) \/ at[d] = "publish" => IsOver(d)' \/ at'[d] = "publish"
    PROVE  AllListed'
<1> SUFFICES ASSUME NEW t \in Key, record[t] # Absent
             PROVE  Listed(t, record[t])'
    BY DEF AllListed
<1>1. Listed(t, record[t])
    BY DEF AllListed
<1>2. ASSUME NEW e \in record[t].entries
      PROVE  /\ IsOver(e.from)' \/ at'[e.from] = "publish"
             /\ op'[e.from] = op[e.from]
    <2>1. e.from \in Call /\ op[e.from] # "none"
        BY <1>1, <1>2 DEF RTypeOK, Record, Listed, Appends
    <2> QED
        BY <1>1, <1>2, <2>1 DEF Listed
<1> QED
    BY <1>1, <1>2 DEF Listed

\* A call is asked for, or enters its critical section, or leaves the lock.
LEMMA AskStep ==
    ASSUME RInv, NEW c \in Call, NEW o \in Op, NEW a \in Call \cup {NoCall}, Ask(c, o, a)
    PROVE  StoreInv'
<1> USE DEF RInv, StoreInv, Op, Appends, Answers, Finishers, Marks, AtStore
<1>1. /\ phase[c] = "idle" /\ phase' = [phase EXCEPT ![c] = "queued"]
      /\ op' = [op EXCEPT ![c] = o] /\ of' = [of EXCEPT ![c] = a]
      /\ UNCHANGED <<storeVars, at, loaded, got>>
      /\ op[c] = "none"
    BY DEF Ask, Request, Places, Asked
<1>2. /\ o \in Finishers => a # NoCall /\ KeyOf[a] = KeyOf[c] /\ op[a] = "send" /\ at[a] = "end"
      /\ o \notin Finishers => a = NoCall
    BY DEF Ask, MayFinish
<1>3. RTypeOK'
    BY <1>1 DEF RTypeOK, storeVars
<1>4. Places'
    BY <1>1 DEF Places, Working, Asked, IsOver, Over, RTypeOK, LockInv, LockTypeOK
<1>5. got[c] = 0
    BY <1>1 DEF Numbered, IsOver, Over, RTypeOK
<1>6. \A d \in Call : d # c => op'[d] = op[d] /\ of'[d] = of[d] /\ (IsOver(d)' <=> IsOver(d))
    BY <1>1 DEF RTypeOK, LockInv, LockTypeOK, IsOver
<1>7. at[c] \notin AtStore \cup {"publish"}
    BY <1>1 DEF Places, Working
<1>8. Numbered'
    BY <1>1, <1>5, <1>6 DEF Numbered, Places, IsOver, Over, RTypeOK, storeVars
<1>9. Finishing'
    <2> SUFFICES ASSUME NEW d \in Call
                 PROVE  /\ op'[d] \in Finishers <=> of'[d] # NoCall
                        /\ of'[d] # NoCall => /\ op'[of'[d]] = "send" /\ got'[of'[d]] # 0
                                              /\ KeyOf[of'[d]] = KeyOf[d]
        BY DEF Finishing
    <2>1. CASE d = c
        BY <2>1, <1>1, <1>2 DEF Numbered, RTypeOK
    <2>2. CASE d # c
        BY <2>2, <1>1, <1>6 DEF Finishing, RTypeOK
    <2> QED
        BY <2>1, <2>2
<1>10. AllListed'
    <2>1. \A d \in Call : /\ op[d] # "none" => op'[d] = op[d]
                          /\ IsOver(d) \/ at[d] = "publish" => IsOver(d)' \/ at'[d] = "publish"
        BY <1>1, <1>6, <1>7 DEF IsOver, Over
    <2> QED
        BY <2>1, <1>1, ListsKept DEF storeVars
<1>11. CopyIsFresh'
    BY <1>1, <1>6, <1>7 DEF CopyIsFresh, MyRecord, storeVars
<1>12. InHand'
    BY <1>1, <1>6, <1>7 DEF InHand, MyRecord, storeVars
<1>13. EntriesHavePayloads'
    BY <1>1, <1>6 DEF EntriesHavePayloads, AllListed, Listed, Record, RTypeOK, storeVars
<1> QED
    BY <1>3, <1>4, <1>8, <1>9, <1>10, <1>11, <1>12, <1>13

LEMMA BeginStep ==
    ASSUME RInv, NEW c \in Call, Begin(c)
    PROVE  StoreInv'
<1> USE DEF RInv, StoreInv, Op, Appends, Answers, Finishers, Marks, AtStore
<1>1. /\ phase[c] = "queued" /\ phase' = [phase EXCEPT ![c] = "running"]
      /\ at' = [at EXCEPT ![c] = "load"]
      /\ UNCHANGED <<storeVars, op, of, loaded, got>>
    BY DEF Begin, Start
<1>2. at[c] # "publish"
    BY <1>1 DEF Places, Working
<1>3. \A d \in Call : d # c => at'[d] = at[d]
    BY <1>1 DEF RTypeOK
<1>4. \A d \in Call : IsOver(d) => IsOver(d)'
    BY <1>1 DEF IsOver, Over, LockInv, LockTypeOK
<1>5. at'[c] = "load"
    BY <1>1 DEF RTypeOK
<1>6. RTypeOK'
    BY <1>1 DEF RTypeOK, storeVars
<1>7. Places'
    BY <1>1, <1>3, <1>4, <1>5 DEF Places, Working, Asked, IsOver, RTypeOK, LockInv, LockTypeOK
<1>8. Numbered' /\ Finishing'
    BY <1>1, <1>3, <1>4, <1>5 DEF Numbered, Finishing, storeVars
<1>9. AllListed'
    BY <1>1, <1>2, <1>3, <1>4, ListsKept DEF storeVars
<1>10. CopyIsFresh' /\ InHand'
    BY <1>1, <1>3, <1>5 DEF CopyIsFresh, InHand, MyRecord, storeVars
<1>11. EntriesHavePayloads'
    BY <1>1 DEF EntriesHavePayloads, storeVars
<1> QED
    BY <1>6, <1>7, <1>8, <1>9, <1>10, <1>11

LEMMA ReturnStep ==
    ASSUME RInv, NEW c \in Call, Return(c)
    PROVE  StoreInv'
<1> USE DEF RInv, StoreInv
<1>1. /\ phase[c] \in Settling /\ phase' = [phase EXCEPT ![c] = "returned"]
      /\ UNCHANGED <<storeVars, workVars>>
    BY DEF Return, Release
<1>2. \A d \in Call : /\ (IsOver(d)' <=> IsOver(d)) /\ (Working(d)' <=> Working(d))
                      /\ (Asked(d)' <=> Asked(d))
    BY <1>1 DEF IsOver, Over, Settling, Working, Asked, LockInv, LockTypeOK
<1>3. RTypeOK'
    BY <1>1 DEF RTypeOK, storeVars, workVars
<1>4. Places' /\ Numbered' /\ Finishing'
    BY <1>1, <1>2 DEF Places, Numbered, Finishing, storeVars, workVars
<1>5. AllListed'
    BY <1>1, <1>2, ListsKept DEF storeVars, workVars
<1>6. CopyIsFresh' /\ InHand' /\ EntriesHavePayloads'
    BY <1>1 DEF CopyIsFresh, InHand, EntriesHavePayloads, MyRecord, storeVars, workVars
<1> QED
    BY <1>3, <1>4, <1>5, <1>6

LEMMA MyRecordType ==
    ASSUME RTypeOK, NEW c \in Call, MyRecord(c) # Absent
    PROVE  MyRecord(c) \in Record
<1>1. KeyOf[c] \in Key
    OBVIOUS
<1> QED
    BY <1>1 DEF RTypeOK, MyRecord

\* A call goes on to another place; the lock and the other calls stay.
LEMMA KeepEffect ==
    ASSUME RInv, NEW c \in Call, NEW p, GoTo(c, p)
    PROVE  /\ at'[c] = p /\ \A d \in Call : d # c => at'[d] = at[d]
           /\ phase' = phase
BY DEF GoTo, RInv, StoreInv, RTypeOK, lockVars

\* A call's promise settles; the other calls stay.
LEMMA FinishEffect ==
    ASSUME RInv, NEW c \in Call, NEW outcome \in Settling, Finish(c, outcome)
    PROVE  /\ at'[c] = IF outcome = "fulfilled" THEN "end" ELSE "broken"
           /\ at' = [at EXCEPT ![c] = IF outcome = "fulfilled" THEN "end" ELSE "broken"]
           /\ loaded' = [loaded EXCEPT ![c] = Absent]
           /\ \A d \in Call : d # c => at'[d] = at[d] /\ loaded'[d] = loaded[d] /\ phase'[d] = phase[d]
           /\ phase'[c] \in Settling
<1> USE DEF RInv, StoreInv, RTypeOK, LockInv, LockTypeOK
<1>1. /\ at' = [at EXCEPT ![c] = IF outcome = "fulfilled" THEN "end" ELSE "broken"]
      /\ loaded' = [loaded EXCEPT ![c] = Absent]
      /\ phase' = [phase EXCEPT ![c] = outcome]
    BY DEF Finish, Settle
<1> QED
    BY <1>1

\* The stores stay as they are and a call that is not publishing, or has no
\* number to take, settles.
LEMMA SettlesQuietly ==
    ASSUME RInv, NEW c \in Call, NEW outcome \in Settling, Finish(c, outcome),
           UNCHANGED <<storeVars, op, of, got>>, at[c] \in AtStore,
           outcome = "fulfilled" => op[c] \in Finishers
    PROVE  StoreInv'
<1> USE DEF RInv, StoreInv
<1>1. /\ at' = [at EXCEPT ![c] = IF outcome = "fulfilled" THEN "end" ELSE "broken"]
      /\ loaded' = [loaded EXCEPT ![c] = Absent]
      /\ at'[c] \in {"end", "broken"} /\ (at'[c] = "end" => op[c] \in Finishers)
      /\ \A d \in Call : d # c => at'[d] = at[d] /\ loaded'[d] = loaded[d] /\ phase'[d] = phase[d]
      /\ phase'[c] \in Settling
    BY FinishEffect
<1>2. phase[c] = "running"
    BY DEF Places, Working
<1>3. /\ ~Working(c)' /\ IsOver(c)' /\ Asked(c)' /\ Asked(c)
      /\ \A d \in Call : IsOver(d) => IsOver(d)'
    BY <1>1, <1>2 DEF Working, Settling, IsOver, Over, Asked
<1>4. RTypeOK'
    BY <1>1 DEF RTypeOK, storeVars
<1>5. Places'
    BY <1>1, <1>3 DEF Places, Working, Asked, IsOver, AtStore
<1>6. Numbered' /\ Finishing'
    BY <1>1, <1>3 DEF Numbered, Finishing, storeVars, Finishers, Appends, Answers
<1>7. AllListed'
    <2>1. \A d \in Call : IsOver(d) \/ at[d] = "publish" => IsOver(d)' \/ at'[d] = "publish"
        BY <1>1, <1>3
    <2> QED
        BY <2>1, ListsKept DEF storeVars
<1>8. CopyIsFresh' /\ InHand'
    BY <1>1 DEF CopyIsFresh, InHand, MyRecord, storeVars
<1>9. EntriesHavePayloads'
    BY DEF EntriesHavePayloads, storeVars
<1> QED
    BY <1>4, <1>5, <1>6, <1>7, <1>8, <1>9

LEMMA LoadStep ==
    ASSUME RInv, NEW c \in Call, Load(c)
    PROVE  StoreInv'
<1> USE DEF RInv, StoreInv
<1>1. /\ Working(c) /\ at[c] = "load"
      /\ UNCHANGED <<storeVars, op, of, got>>
    BY DEF Load
<1>2. CASE ~HasWork(c)
    <2>1. Finish(c, IF op[c] \in Finishers THEN "fulfilled" ELSE "rejected")
        BY <1>2 DEF Load
    <2> QED
        BY <1>1, <2>1, SettlesQuietly DEF AtStore, Settling
<1>3. CASE HasWork(c)
    <2> DEFINE p == IF op[c] \in {"send", "receive"} THEN "payload" ELSE "save"
    <2>1. /\ loaded' = [loaded EXCEPT ![c] = MyRecord(c)] /\ GoTo(c, p)
          /\ MyRecord(c) # Absent
          /\ op[c] \in Finishers => \E e \in MyRecord(c).entries : e.seq = got[of[c]]
        BY <1>3 DEF Load, HasWork
    <2>2. /\ at' = [at EXCEPT ![c] = p] /\ at'[c] = p /\ p \in {"payload", "save"}
          /\ \A d \in Call : d # c => at'[d] = at[d] /\ loaded'[d] = loaded[d]
          /\ phase' = phase /\ loaded'[c] = MyRecord(c)
        BY <2>1, KeepEffect DEF RTypeOK, GoTo
    <2>3. RTypeOK'
        <3>1. MyRecord(c) \in Record
            BY <2>1, MyRecordType
        <3> QED
            BY <1>1, <2>1, <2>2, <3>1 DEF RTypeOK, AtStore, storeVars
    <2>4. Places'
        BY <1>1, <2>2 DEF Places, Working, Asked, IsOver, AtStore
    <2>5. Numbered' /\ Finishing'
        BY <1>1, <2>2 DEF Numbered, Finishing, storeVars, IsOver
    <2>6. AllListed'
        BY <1>1, <2>2, ListsKept DEF storeVars, IsOver
    <2>7. CopyIsFresh'
        BY <1>1, <2>1, <2>2 DEF CopyIsFresh, MyRecord, storeVars
    <2>8. InHand'
        BY <1>1, <2>1, <2>2 DEF InHand, MyRecord, storeVars
    <2>9. EntriesHavePayloads'
        BY <1>1 DEF EntriesHavePayloads, storeVars
    <2> QED
        BY <2>3, <2>4, <2>5, <2>6, <2>7, <2>8, <2>9
<1> QED
    BY <1>2, <1>3

LEMMA RejectStep ==
    ASSUME RInv, NEW c \in Call, StoreRejects(c)
    PROVE  StoreInv'
BY SettlesQuietly DEF StoreRejects, Settling

\* A store operation that took effect: the call goes on, or it is broken off.
LEMMA AnsweredEffect ==
    ASSUME RInv, NEW c \in Call, NEW p \in {"save", "refresh", "drop", "publish"},
           Working(c), AnsweredOrLost(c, p), op' = op,
           p = "refresh" => op[c] \in Answers,
           p = "drop" => op[c] = "discard",
           p = "publish" => op[c] # "discard"
    PROVE  /\ at' \in [Call -> AtStore \cup {"none", "publish", "end", "broken"}]
           /\ loaded' \in [Call -> Record \cup {Absent}]
           /\ Places'
           /\ \A d \in Call : d # c => at'[d] = at[d] /\ loaded'[d] = loaded[d]
           /\ at'[c] \in {p, "broken"}
           /\ at'[c] = p => loaded'[c] = loaded[c]
           /\ \A d \in Call : IsOver(d) => IsOver(d)'
           /\ at'[c] = "broken" => IsOver(c)'
<1> USE DEF RInv, StoreInv
<1>1. CASE Keep(c, p)
    <2>1. /\ at' = [at EXCEPT ![c] = p] /\ loaded' = loaded /\ phase' = phase
          /\ at'[c] = p /\ \A d \in Call : d # c => at'[d] = at[d]
        BY <1>1, KeepEffect DEF Keep, GoTo
    <2>2. Places'
        BY <2>1 DEF Places, Working, Asked, IsOver, AtStore
    <2> QED
        BY <2>1, <2>2 DEF RTypeOK, AtStore, IsOver
<1>2. CASE Finish(c, "rejected")
    <2>1. /\ at' = [at EXCEPT ![c] = "broken"] /\ loaded' = [loaded EXCEPT ![c] = Absent]
          /\ at'[c] = "broken" /\ phase'[c] \in Settling
          /\ \A d \in Call : d # c => /\ at'[d] = at[d] /\ loaded'[d] = loaded[d]
                                      /\ phase'[d] = phase[d]
        BY <1>2, FinishEffect DEF Settling
    <2>2. /\ ~Working(c)' /\ IsOver(c)' /\ Asked(c)' /\ Asked(c)
          /\ \A d \in Call : IsOver(d) => IsOver(d)'
        BY <2>1 DEF Working, Settling, IsOver, Over, Asked
    <2>3. Places'
        BY <2>1, <2>2 DEF Places, Working, Asked, IsOver, AtStore
    <2> QED
        BY <2>1, <2>2, <2>3 DEF RTypeOK
<1> QED
    BY <1>1, <1>2 DEF AnsweredOrLost

LEMMA SavePayloadStep ==
    ASSUME RInv, NEW c \in Call, SavePayload(c)
    PROVE  StoreInv'
<1> USE DEF RInv, StoreInv
<1>1. /\ Working(c) /\ at[c] = "payload" /\ payloads' = payloads \cup {c}
      /\ AnsweredOrLost(c, "save")
      /\ UNCHANGED <<record, answered, lapsed, told, op, of, got>>
    BY DEF SavePayload
<1>2. /\ at' \in [Call -> AtStore \cup {"none", "publish", "end", "broken"}]
      /\ loaded' \in [Call -> Record \cup {Absent}] /\ Places'
      /\ \A d \in Call : d # c => at'[d] = at[d] /\ loaded'[d] = loaded[d]
      /\ at'[c] \in {"save", "broken"} /\ (at'[c] = "save" => loaded'[c] = loaded[c])
      /\ \A d \in Call : IsOver(d) => IsOver(d)'
    BY <1>1, AnsweredEffect
<1>3. RTypeOK'
    BY <1>1, <1>2 DEF RTypeOK
<1>4. Numbered' /\ Finishing'
    BY <1>1, <1>2 DEF Numbered, Finishing
<1>5. AllListed'
    BY <1>1, <1>2, ListsKept
<1>6. CopyIsFresh'
    BY <1>1, <1>2 DEF CopyIsFresh, MyRecord
<1>7. InHand'
    BY <1>1, <1>2 DEF InHand, MyRecord, Places, Finishers, Answers
<1>8. EntriesHavePayloads'
    BY <1>1 DEF EntriesHavePayloads
<1> QED
    BY <1>2, <1>3, <1>4, <1>5, <1>6, <1>7, <1>8

\* The entry a call settles is that of the send it finishes.
LEMMA HeldEntryIsOfs ==
    ASSUME RInv, NEW c \in Call, MyRecord(c) # Absent, of[c] # NoCall,
           NEW e \in MyRecord(c).entries, e.seq = got[of[c]]
    PROVE  e.from = of[c] /\ op[e.from] = "send"
<1> USE DEF RInv, StoreInv
<1>1. of[c] \in Call /\ op[of[c]] = "send" /\ KeyOf[of[c]] = KeyOf[c]
    BY DEF Finishing, RTypeOK
<1>2. Listed(KeyOf[c], MyRecord(c))
    BY DEF AllListed, MyRecord
<1> QED
    BY <1>1, <1>2 DEF Listed

LEMMA RefreshStep ==
    ASSUME RInv, NEW c \in Call, RefreshPayload(c)
    PROVE  StoreInv'
<1> USE DEF RInv, StoreInv
<1>1. /\ Working(c) /\ at[c] = "refresh" /\ answered' = answered \cup (payloads \cap {of[c]})
      /\ AnsweredOrLost(c, "publish")
      /\ UNCHANGED <<record, payloads, lapsed, told, op, of, got>>
    BY DEF RefreshPayload
<1>2. op[c] \in Answers /\ op[c] # "discard" /\ of[c] # NoCall
    BY <1>1 DEF Places, Answers, Finishing, Finishers
<1>3. /\ at' \in [Call -> AtStore \cup {"none", "publish", "end", "broken"}]
      /\ loaded' \in [Call -> Record \cup {Absent}] /\ Places'
      /\ \A d \in Call : d # c => at'[d] = at[d] /\ loaded'[d] = loaded[d]
      /\ at'[c] \in {"publish", "broken"}
      /\ \A d \in Call : IsOver(d) => IsOver(d)'
    BY <1>1, <1>2, AnsweredEffect
<1>4. RTypeOK'
    BY <1>1, <1>3 DEF RTypeOK
<1>5. Numbered' /\ Finishing'
    BY <1>1, <1>3 DEF Numbered, Finishing
<1>6. AllListed'
    BY <1>1, <1>3, ListsKept
<1>7. CopyIsFresh'
    BY <1>1, <1>3 DEF CopyIsFresh, MyRecord
<1>8. of[c] \in payloads
    <2>1. PICK e \in MyRecord(c).entries : e.seq = got[of[c]]
        BY <1>1, <1>2 DEF InHand
    <2>2. MyRecord(c) # Absent
        BY <1>1 DEF CopyIsFresh
    <2>3. of[c] \notin lapsed
        BY <1>1 DEF LapsedIsDone, IsOver, Over, Working
    <2> QED
        BY <2>1, <2>2, <2>3, <1>2, HeldEntryIsOfs DEF EntriesHavePayloads, MyRecord
<1>9. InHand'
    BY <1>1, <1>2, <1>3, <1>8 DEF InHand, MyRecord, Answers, Appends
<1>10. EntriesHavePayloads'
    BY <1>1 DEF EntriesHavePayloads
<1> QED
    BY <1>3, <1>4, <1>5, <1>6, <1>7, <1>9, <1>10

LEMMA DropStep ==
    ASSUME RInv, NEW c \in Call, DropPayload(c)
    PROVE  StoreInv'
<1> USE DEF RInv, StoreInv
<1>1. /\ Working(c) /\ at[c] = "drop" /\ op[c] = "discard"
      /\ payloads' = payloads \ {of[c]} /\ answered' = answered \ {of[c]}
      /\ UNCHANGED <<record, lapsed, told, op, of, got>>
    BY DEF DropPayload, Places
<1>2. PICK outcome \in Settling : Finish(c, outcome)
    BY DEF DropPayload, Settling
<1>3. /\ at' = [at EXCEPT ![c] = IF outcome = "fulfilled" THEN "end" ELSE "broken"]
      /\ loaded' = [loaded EXCEPT ![c] = Absent]
      /\ at'[c] \in {"end", "broken"}
      /\ \A d \in Call : d # c => /\ at'[d] = at[d] /\ loaded'[d] = loaded[d]
                                  /\ phase'[d] = phase[d]
      /\ phase'[c] \in Settling
    BY <1>2, FinishEffect
<1>4. /\ ~Working(c)' /\ IsOver(c)' /\ Asked(c)' /\ Asked(c)
      /\ \A d \in Call : IsOver(d) => IsOver(d)'
    BY <1>1, <1>3 DEF Working, Settling, IsOver, Over, Asked
<1>5. /\ of[c] \in Call /\ op[of[c]] = "send" /\ KeyOf[of[c]] = KeyOf[c] /\ IsOver(of[c])
      /\ ~Working(of[c])
    <2>1. of[c] # NoCall
        BY <1>1 DEF Finishing, Finishers
    <2>2. /\ of[c] \in Call /\ op[of[c]] = "send" /\ KeyOf[of[c]] = KeyOf[c]
          /\ got[of[c]] # 0
        BY <2>1 DEF Finishing, RTypeOK
    <2>3. IsOver(of[c])
        BY <2>2 DEF Numbered
    <2> QED
        BY <2>2, <2>3 DEF IsOver, Over, Working
<1>6. RTypeOK'
    BY <1>1, <1>3 DEF RTypeOK
<1>7. Places'
    BY <1>1, <1>3, <1>4 DEF Places, Working, Asked, IsOver, AtStore
<1>8. Numbered' /\ Finishing'
    BY <1>1, <1>3, <1>4 DEF Numbered, Finishing, Appends
<1>9. AllListed'
    BY <1>1, <1>3, <1>4, ListsKept
<1>10. CopyIsFresh'
    <2>1. \A d \in Call : at[d] = "save" => d # of[c]
        BY <1>5 DEF Places, AtStore
    <2> QED
        BY <2>1, <1>1, <1>3 DEF CopyIsFresh, MyRecord
<1>11. InHand'
    <2>1. \A d \in Call : d # c /\ at[d] = "publish" /\ op[d] \in Answers => of[d] # of[c]
        <3>1. SUFFICES ASSUME NEW d \in Call, d # c, at[d] = "publish", op[d] \in Answers,
                              of[d] = of[c]
                       PROVE  FALSE
            OBVIOUS
        <3>2. Working(d) /\ KeyOf[d] = KeyOf[c]
            BY <3>1, <1>5 DEF Places, Finishing, Finishers
        <3> QED
            BY <3>1, <3>2, <1>1, AloneOnItsRecord
    <2> QED
        BY <2>1, <1>1, <1>3 DEF InHand, MyRecord
<1>12. EntriesHavePayloads'
    <2> SUFFICES ASSUME NEW t \in Key, record[t] # Absent, NEW e \in record[t].entries,
                        op[e.from] # "form", e.from \notin lapsed
                 PROVE  e.from \in payloads'
        BY <1>1 DEF EntriesHavePayloads
    <2>1. e.from \in payloads /\ KeyOf[e.from] = t
        BY DEF EntriesHavePayloads, AllListed, Listed
    <2>2. e.from # of[c]
        BY <2>1, <1>1, <1>5 DEF InHand, MyRecord
    <2> QED
        BY <2>1, <2>2, <1>1
<1> QED
    BY <1>6, <1>7, <1>8, <1>9, <1>10, <1>11, <1>12

\* A list whose entries are those of another, or what became of them.
LEMMA ListedStill ==
    ASSUME NEW t \in Key, NEW r \in Record, NEW u \in Record, Listed(t, r), r.seq <= u.seq,
           \A e \in u.entries : \E f \in r.entries :
               /\ e.seq = f.seq /\ e.from = f.from
               /\ e.state = "in_flight" => f.state = "in_flight",
           \A e, f \in u.entries : e.seq = f.seq /\ e.from = f.from => e = f
    PROVE  Listed(t, u)
<1> SUFFICES ASSUME NEW e \in u.entries
             PROVE  /\ e.seq <= u.seq
                    /\ KeyOf[e.from] = t /\ op[e.from] \in Appends
                    /\ IsOver(e.from) \/ at[e.from] = "publish"
                    /\ e.state = "in_flight" => op[e.from] = "send"
                    /\ got[e.from] \in {0, e.seq}
                    /\ \A c \in Call : KeyOf[c] = t /\ got[c] = e.seq => c = e.from
                    /\ \A f \in u.entries : e.seq = f.seq \/ e.from = f.from => e = f
    BY DEF Listed
<1>1. PICK g \in r.entries : /\ e.seq = g.seq /\ e.from = g.from
                             /\ e.state = "in_flight" => g.state = "in_flight"
    OBVIOUS
<1>2. e.seq \in Nat /\ r.seq \in Nat /\ u.seq \in Nat
    BY DEF Record
<1>3. ASSUME NEW f \in u.entries, e.seq = f.seq \/ e.from = f.from
      PROVE  e = f
    <2>1. PICK h \in r.entries : f.seq = h.seq /\ f.from = h.from
        OBVIOUS
    <2>2. g = h
        BY <1>1, <1>3, <2>1 DEF Listed
    <2> QED
        BY <1>1, <2>1, <2>2
<1> QED
    BY <1>1, <1>2, <1>3 DEF Listed

\* What is written back, seen from what it replaces.
LEMMA UpdatedEffect ==
    ASSUME RInv, NEW c \in Call, Working(c), at[c] = "save",
           NEW r, r = MyRecord(c), NEW u, u = Updated(r, c)
    PROVE  /\ r \in Record /\ loaded[c] = r /\ u \in Record
           /\ op[c] \in Appends =>
                /\ u = WithEntry(r, c) /\ u.seq = r.seq + 1
                /\ u.entries = r.entries \cup {NewEntry(r, c)}
           /\ op[c] \notin Appends => u.seq = r.seq
           /\ op[c] \in Answers => \E s \in {"settled", "failed"} :
                /\ u = WithEntries(r, u.entries)
                /\ u.entries = AnsweredEntries(r.entries, got[of[c]], s)
           /\ op[c] = "discard" =>
                /\ u = Without(r, got[of[c]])
                /\ u.entries = {e \in r.entries : e.seq # got[of[c]]}
           /\ op[c] \in Marks => u.entries = r.entries
           /\ op[c] \in Op
<1> USE DEF RInv, StoreInv
<1>1. MyRecord(c) # Absent /\ loaded[c] = r
    BY DEF CopyIsFresh
<1>2. r \in Record
    BY <1>1, MyRecordType
<1>3. op[c] \in Op
    BY DEF Places, RTypeOK, Asked, Working
<1>4. op[c] \in Finishers => got[of[c]] \in Nat
    <2> SUFFICES ASSUME op[c] \in Finishers PROVE got[of[c]] \in Nat
        OBVIOUS
    <2>1. of[c] # NoCall
        BY DEF Finishing
    <2> QED
        BY <2>1 DEF RTypeOK
<1>5. Listed(KeyOf[c], r)
    BY <1>1 DEF AllListed, MyRecord
<1>6. CASE op[c] \in Appends
    <2>1. u = WithEntry(r, c)
        BY <1>6 DEF Updated, Appends
    <2> QED
        BY <1>1, <1>2, <1>3, <1>6, <2>1, EntryAdded DEF Appends, Answers, Marks
<1>7. CASE op[c] \in Answers
    <2>1. PICK s \in {"settled", "failed"} : u = WithAnswer(r, got[of[c]], s)
        BY <1>7 DEF Updated, Answers, Appends
    <2>2. s \in State /\ got[of[c]] \in Nat
        BY <1>4, <1>7 DEF State, Finishers
    <2>3. /\ u \in Record /\ u.seq = r.seq /\ u = WithEntries(r, u.entries)
          /\ u.entries = AnsweredEntries(r.entries, got[of[c]], s)
        BY <1>2, <2>1, <2>2, EntryAnswered
    <2>4. op[c] \notin Appends /\ op[c] # "discard" /\ op[c] \notin Marks
        BY <1>7 DEF Appends, Answers, Marks
    <2> QED
        BY <1>1, <1>2, <1>3, <2>3, <2>4
<1>8. CASE op[c] = "discard"
    <2>1. u = Without(r, got[of[c]])
        BY <1>8 DEF Updated, Appends
    <2>2. got[of[c]] \in Nat /\ \A e \in r.entries : e.seq <= r.seq
        BY <1>4, <1>5, <1>8 DEF Finishers, Listed
    <2> QED
        BY <1>1, <1>2, <1>3, <1>8, <2>1, <2>2, EntryRemoved DEF Appends, Answers, Marks
<1>9. CASE op[c] \in Marks
    <2>1. \/ \E a \in Call \cup {NoCall} : u = [r EXCEPT !.attention = a]
          \/ u = [r EXCEPT !.abandoned = TRUE]
        BY <1>9 DEF Updated, Marks, Appends
    <2>2. u \in Record /\ u.seq = r.seq /\ u.entries = r.entries
        BY <1>2, <2>1 DEF Record
    <2> QED
        BY <1>1, <1>2, <1>3, <1>9, <2>2 DEF Appends, Answers, Marks
<1> QED
    BY <1>3, <1>6, <1>7, <1>8, <1>9 DEF Op, Finishers

\* The list that is written back is as sound as the one that was loaded.
LEMMA UpdatedIsListed ==
    ASSUME RInv, NEW c \in Call, Working(c), at[c] = "save", op' = op, got' = got,
           at'[c] \in {"publish", "broken"} \/ op[c] \notin Appends,
           at'[c] = "broken" => IsOver(c)',
           \A d \in Call : d # c => at'[d] = at[d],
           \A d \in Call : IsOver(d) => IsOver(d)',
           NEW r, r = MyRecord(c), NEW u, u = Updated(r, c)
    PROVE  Listed(KeyOf[c], u)'
<1> USE DEF RInv, StoreInv
<1> DEFINE k == KeyOf[c]
<1>1. /\ r \in Record /\ loaded[c] = r /\ u \in Record
      /\ op[c] \in Appends =>
           /\ u = WithEntry(r, c) /\ u.seq = r.seq + 1
           /\ u.entries = r.entries \cup {NewEntry(r, c)}
      /\ op[c] \notin Appends => u.seq = r.seq
      /\ op[c] \in Answers => \E s \in {"settled", "failed"} :
           u.entries = AnsweredEntries(r.entries, got[of[c]], s)
      /\ op[c] = "discard" => u.entries = {e \in r.entries : e.seq # got[of[c]]}
      /\ op[c] \in Marks => u.entries = r.entries
      /\ op[c] \in Op
    BY UpdatedEffect
<1>2. MyRecord(c) # Absent
    BY DEF CopyIsFresh
<1>3. Listed(k, r)
    BY <1>2 DEF AllListed, MyRecord
<1>4. c \in Call /\ got[c] = 0 /\ ~IsOver(c)
    BY DEF Numbered, IsOver, Over, Working
<1>5. \A e \in r.entries : /\ e.from \in Call /\ e.seq \in Nat \ {0} /\ e.seq <= r.seq
                           /\ e.from # c
    BY <1>1, <1>3, <1>4 DEF Listed, Record
<1>6. CASE op[c] \in Appends
    <2>1. /\ NewEntry(r, c).seq = r.seq + 1 /\ NewEntry(r, c).from = c
          /\ NewEntry(r, c).state = "in_flight" => op[c] = "send"
        BY DEF NewEntry
    <2>2. \A d \in Call : KeyOf[d] = k => got[d] # r.seq + 1
        BY <1>1, <1>2 DEF Numbered, MyRecord, Record, RTypeOK
    <2>3. IsOver(c)' \/ at'[c] = "publish"
        BY <1>6
    <2>4. \A d \in Call : d # c /\ (IsOver(d) \/ at[d] = "publish") => IsOver(d)' \/ at'[d] = "publish"
        OBVIOUS
    <2>5. \A e \in u.entries : e \in r.entries \/ e = NewEntry(r, c)
        BY <1>1, <1>6
    <2>6. u.seq = r.seq + 1 /\ r.seq \in Nat
        BY <1>1, <1>6 DEF Record
    <2> HIDE DEF k
    <2>7. ASSUME NEW e \in r.entries
          PROVE  /\ e.seq <= u.seq /\ KeyOf[e.from] = k /\ op'[e.from] \in Appends
                 /\ IsOver(e.from)' \/ at'[e.from] = "publish"
                 /\ e.state = "in_flight" => op'[e.from] = "send"
                 /\ got'[e.from] \in {0, e.seq}
                 /\ \A d \in Call : KeyOf[d] = k /\ got'[d] = e.seq => d = e.from
                 /\ \A f \in u.entries : e.seq = f.seq \/ e.from = f.from => e = f
        BY <1>3, <1>5, <2>1, <2>4, <2>5, <2>6 DEF Listed
    <2>8. ASSUME NEW e, e = NewEntry(r, c)
          PROVE  /\ e.seq <= u.seq /\ KeyOf[e.from] = k /\ op'[e.from] \in Appends
                 /\ IsOver(e.from)' \/ at'[e.from] = "publish"
                 /\ e.state = "in_flight" => op'[e.from] = "send"
                 /\ got'[e.from] \in {0, e.seq}
                 /\ \A d \in Call : KeyOf[d] = k /\ got'[d] = e.seq => d = e.from
                 /\ \A f \in u.entries : e.seq = f.seq \/ e.from = f.from => e = f
        BY <1>4, <1>5, <1>6, <2>1, <2>2, <2>3, <2>5, <2>6, <2>8 DEF k
    <2> QED
        BY <2>5, <2>7, <2>8 DEF Listed, k
<1>7. CASE op[c] \notin Appends
    <2>1. /\ \A e \in u.entries : \E f \in r.entries :
               /\ e.seq = f.seq /\ e.from = f.from
               /\ e.state = "in_flight" => f.state = "in_flight"
          /\ \A e, f \in u.entries : e.seq = f.seq /\ e.from = f.from => e = f
        <3>1. CASE op[c] \in Answers
            <4>1. PICK s \in {"settled", "failed"} :
                      u.entries = AnsweredEntries(r.entries, got[of[c]], s)
                BY <1>1, <3>1
            <4>2. of[c] # NoCall
                BY <3>1 DEF Finishing, Finishers
            <4>3. got[of[c]] \in Nat /\ s \in State /\ r.entries \in SUBSET Entry
                BY <1>1, <4>2 DEF RTypeOK, State, Record, Entry
            <4> DEFINE Now(f) == [seq |-> f.seq, from |-> f.from,
                                  state |-> IF f.seq = got[of[c]] THEN s ELSE f.state]
            <4>4. \A e \in u.entries : \E f \in r.entries :
                      e.seq = f.seq /\ e.from = f.from /\ e = Now(f)
                BY <4>1, <4>3, AnsweredEntriesEffect
            <4>5. \A f : Now(f).state = "in_flight" => f.state = "in_flight"
                OBVIOUS
            <4>6. \A f, g \in r.entries : f.seq = g.seq => f = g
                BY <1>3 DEF Listed
            <4> HIDE DEF Now
            <4> QED
                BY <4>4, <4>5, <4>6
        <3>2. CASE op[c] \in Marks \cup {"discard"}
            BY <1>1, <1>3, <3>2 DEF Listed
        <3> QED
            BY <1>1, <1>7, <3>1, <3>2 DEF Op, Finishers
    <2>2. r.seq <= u.seq
        BY <1>1, <1>7 DEF Record
    <2>3. Listed(k, u)
        BY <1>1, <1>3, <2>1, <2>2, ListedStill
    <2>4. \A e \in u.entries : e.from # c /\ e.from \in Call
        BY <1>5, <2>1
    <2>5. \A e \in u.entries : IsOver(e.from)' \/ at'[e.from] = "publish"
        <3>1. \A d \in Call : d # c /\ at[d] = "publish" => at'[d] = "publish"
            OBVIOUS
        <3> QED
            BY <2>3, <2>4, <3>1 DEF Listed
    <2> QED
        BY <2>3, <2>5 DEF Listed
<1> QED
    BY <1>6, <1>7

LEMMA SaveStep ==
    ASSUME RInv, NEW c \in Call, SaveTransaction(c)
    PROVE  StoreInv'
<1> USE DEF RInv, StoreInv
<1> DEFINE k == KeyOf[c]
<1>r. PICK r : r = MyRecord(c)
    OBVIOUS
<1>u. PICK u : u = Updated(r, c)
    OBVIOUS
<1>1. /\ r \in Record /\ loaded[c] = r /\ u \in Record
      /\ op[c] \in Appends =>
           /\ u = WithEntry(r, c) /\ u.seq = r.seq + 1
           /\ u.entries = r.entries \cup {NewEntry(r, c)}
      /\ op[c] \notin Appends => u.seq = r.seq
      /\ op[c] \in Answers => \E s \in {"settled", "failed"} :
           u.entries = AnsweredEntries(r.entries, got[of[c]], s)
      /\ op[c] = "discard" => u.entries = {e \in r.entries : e.seq # got[of[c]]}
      /\ op[c] \in Marks => u.entries = r.entries
      /\ op[c] \in Op
    BY <1>r, <1>u, UpdatedEffect DEF SaveTransaction
<1>2. /\ Working(c) /\ at[c] = "save" /\ k \in Key
      /\ record' = [record EXCEPT ![k] = u]
      /\ AnsweredOrLost(c, AfterSave(c))
      /\ UNCHANGED <<payloads, answered, lapsed, told, op, of, got>>
    BY <1>1, <1>u DEF SaveTransaction
<1>3. /\ AfterSave(c) \in {"refresh", "drop", "publish"}
      /\ AfterSave(c) = "refresh" <=> op[c] \in Answers
      /\ AfterSave(c) = "drop" <=> op[c] = "discard"
      /\ AfterSave(c) = "publish" <=> op[c] \in Appends \cup Marks
    BY <1>1 DEF AfterSave, Op, Appends, Answers, Finishers, Marks
<1> HIDE DEF k
<1>4. /\ at' \in [Call -> AtStore \cup {"none", "publish", "end", "broken"}]
      /\ loaded' \in [Call -> Record \cup {Absent}] /\ Places'
      /\ \A d \in Call : d # c => at'[d] = at[d] /\ loaded'[d] = loaded[d]
      /\ at'[c] \in {AfterSave(c), "broken"}
      /\ at'[c] = AfterSave(c) => loaded'[c] = loaded[c]
      /\ \A d \in Call : IsOver(d) => IsOver(d)'
      /\ at'[c] = "broken" => IsOver(c)'
    <2>1. op[c] \in Appends \cup Marks => op[c] # "discard"
        BY DEF Appends, Marks
    <2> QED
        BY <1>2, <1>3, <2>1, AnsweredEffect
<1>5. /\ record'[k] = u /\ u # Absent
      /\ \A t \in Key : t # k => record'[t] = record[t]
    BY <1>1, <1>2 DEF RTypeOK
<1>6. RTypeOK'
    BY <1>1, <1>2, <1>4 DEF RTypeOK
<1>7. Numbered'
    <2>1. /\ at'[c] # "end" /\ r.seq \in Nat /\ u.seq \in Nat /\ r.seq <= u.seq
          /\ record[k] = r /\ r # Absent
        BY <1>1, <1>2, <1>3, <1>4, <1>r DEF Record, MyRecord, CopyIsFresh, k
    <2>2. \A d \in Call : got[d] \in Nat
        BY DEF RTypeOK
    <2>3. \A d \in Call : at'[d] = "end" => at[d] = "end"
        BY <1>4, <2>1
    <2>4. \A d \in Call : KeyOf[d] \in Key
        OBVIOUS
    <2> QED
        BY <1>2, <1>4, <1>5, <2>1, <2>2, <2>3, <2>4 DEF Numbered
<1>8. Finishing'
    BY <1>2 DEF Finishing
<1>9. AllListed'
    <2>1. Listed(k, u)'
        BY <1>2, <1>3, <1>4, <1>r, <1>u, UpdatedIsListed DEF k, Appends, Answers
    <2>2. ASSUME NEW t \in Key, t # k, record[t] # Absent, NEW e \in record[t].entries
          PROVE  /\ e.seq <= record[t].seq
                 /\ KeyOf[e.from] = t /\ op'[e.from] \in Appends
                 /\ IsOver(e.from)' \/ at'[e.from] = "publish"
                 /\ e.state = "in_flight" => op'[e.from] = "send"
                 /\ got'[e.from] \in {0, e.seq}
                 /\ \A d \in Call : KeyOf[d] = t /\ got'[d] = e.seq => d = e.from
                 /\ \A f \in record[t].entries : e.seq = f.seq \/ e.from = f.from => e = f
        <3>1. Listed(t, record[t]) /\ record[t] \in Record
            BY <2>2 DEF AllListed, RTypeOK
        <3>2. e.from \in Call /\ e.from # c
            BY <2>2, <3>1 DEF Record, Listed, k
        <3> QED
            BY <1>2, <1>4, <3>1, <3>2 DEF Listed
    <2> QED
        BY <1>5, <2>1, <2>2 DEF AllListed, Listed
<1>10. \A d \in Call : d # c /\ at[d] \in AtStore \cup {"publish"} => record'[KeyOf[d]] = record[KeyOf[d]]
    BY <1>2, <1>5, AloneOnItsRecord DEF Places, k
<1>11. CopyIsFresh'
    BY <1>2, <1>3, <1>4, <1>5, <1>10 DEF CopyIsFresh, MyRecord, AtStore, k
<1>12. InHand'
    <2> DEFINE Holds(d) ==
          /\ at'[d] = "save" /\ op[d] \in Finishers =>
               \E e \in record'[KeyOf[d]].entries : e.seq = got[of[d]]
          /\ at'[d] = "drop" => \A e \in record'[KeyOf[d]].entries : e.from # of[d]
          /\ at'[d] \in {"refresh", "publish"} /\ op[d] \in Answers =>
               \E e \in record'[KeyOf[d]].entries : e.seq = got[of[d]] /\ e.state # "in_flight"
          /\ at'[d] = "publish" /\ op[d] \in Answers => of[d] \in answered
          /\ at'[d] = "publish" /\ op[d] \in Appends =>
               /\ loaded'[d] # Absent /\ record'[KeyOf[d]].seq = loaded'[d].seq + 1
               /\ \E e \in record'[KeyOf[d]].entries :
                    /\ e.from = d /\ e.seq = record'[KeyOf[d]].seq
                    /\ op[d] # "send" => e.state # "in_flight"
    <2>1. ASSUME NEW d \in Call, d # c PROVE Holds(d)
        BY <2>1, <1>4, <1>10 DEF InHand, MyRecord, AtStore
    <2>2. record'[KeyOf[c]] = u
        BY <1>5 DEF k
    <2>3. /\ at'[c] \in {"refresh", "drop", "publish", "broken"}
          /\ at'[c] = "refresh" => op[c] \in Answers
          /\ at'[c] = "drop" => op[c] = "discard"
          /\ at'[c] = "publish" => op[c] \in Appends \cup Marks /\ loaded'[c] = r
        BY <1>1, <1>3, <1>4
    <2>4. ASSUME op[c] \in Appends PROVE Holds(c)
        <3>1. /\ NewEntry(r, c) \in u.entries
              /\ NewEntry(r, c).from = c /\ NewEntry(r, c).seq = u.seq
              /\ op[c] # "send" => NewEntry(r, c).state # "in_flight"
            BY <1>1, <2>4 DEF NewEntry
        <3>2. u.seq = r.seq + 1 /\ r # Absent
            BY <1>1, <2>4
        <3>3. op[c] \notin Answers /\ op[c] # "discard" /\ op[c] \notin Finishers
            BY <2>4 DEF Appends, Answers, Finishers
        <3> QED
            BY <2>2, <2>3, <3>1, <3>2, <3>3
    <2>5. ASSUME op[c] \in Answers PROVE Holds(c)
        <3>1. PICK e \in r.entries : e.seq = got[of[c]]
            BY <1>2, <1>r, <2>5 DEF InHand, Finishers
        <3>2. PICK s \in {"settled", "failed"} : u.entries = AnsweredEntries(r.entries, got[of[c]], s)
            BY <1>1, <2>5
        <3>3. r.entries \in SUBSET Entry /\ s \in State /\ got[of[c]] \in Nat
            BY <1>1, <3>1 DEF Record, Entry, State
        <3>4. PICK f \in u.entries :
                f = [seq |-> e.seq, from |-> e.from,
                     state |-> IF e.seq = got[of[c]] THEN s ELSE e.state]
            BY <3>2, <3>3, AnsweredEntriesEffect
        <3>5. f.seq = got[of[c]] /\ f.state # "in_flight"
            BY <3>1, <3>4
        <3>6. op[c] \notin Appends /\ op[c] \notin Marks /\ op[c] # "discard"
            BY <2>5 DEF Appends, Answers, Marks
        <3> QED
            BY <2>2, <2>3, <3>5, <3>6
    <2>6. ASSUME op[c] = "discard" PROVE Holds(c)
        <3>1. of[c] # NoCall
            BY <2>6 DEF Finishing, Finishers
        <3>2. of[c] \in Call /\ got[of[c]] # 0
            BY <3>1 DEF Finishing, RTypeOK
        <3>3. Listed(k, r)
            BY <1>1, <1>r, <1>2 DEF AllListed, CopyIsFresh, MyRecord, k
        <3>4. \A e \in u.entries : e.from # of[c]
            BY <1>1, <2>6, <3>2, <3>3 DEF Listed
        <3>5. op[c] \notin Appends /\ op[c] \notin Marks /\ op[c] \notin Answers
            BY <2>6 DEF Appends, Answers, Marks
        <3> QED
            BY <2>2, <2>3, <3>4, <3>5
    <2>7. ASSUME op[c] \in Marks PROVE Holds(c)
        <3>1. op[c] \notin Appends /\ op[c] \notin Answers /\ op[c] # "discard"
            BY <2>7 DEF Appends, Answers, Marks
        <3> QED
            BY <2>3, <3>1
    <2>8. Holds(c)
        BY <1>1, <2>4, <2>5, <2>6, <2>7 DEF Op, Finishers
    <2> HIDE DEF Holds
    <2>9. \A d \in Call : Holds(d)
        BY <2>1, <2>8
    <2> QED
        BY <2>9, <1>2 DEF Holds, InHand, MyRecord
<1>13. EntriesHavePayloads'
    <2>1. \A e \in r.entries : op[e.from] = "form" \/ e.from \in payloads \/ e.from \in lapsed
        BY <1>1, <1>r, <1>2 DEF EntriesHavePayloads, CopyIsFresh, MyRecord
    <2>2. \A e \in u.entries : op[e.from] = "form" \/ e.from \in payloads \/ e.from \in lapsed
        <3>1. CASE op[c] \in Appends
            <4>1. op[c] = "form" \/ c \in payloads
                BY <1>2, <3>1 DEF CopyIsFresh, Appends
            <4>2. \A e \in u.entries : e \in r.entries \/ e.from = c
                BY <1>1, <3>1 DEF NewEntry
            <4> QED
                BY <2>1, <4>1, <4>2
        <3>2. CASE op[c] \in Answers
            <4>1. PICK s \in {"settled", "failed"} : u.entries = AnsweredEntries(r.entries, got[of[c]], s)
                BY <1>1, <3>2
            <4>2. r.entries \in SUBSET Entry /\ s \in State /\ got[of[c]] \in Nat
                <5>1. of[c] # NoCall
                    BY <3>2 DEF Finishing, Finishers
                <5> QED
                    BY <1>1, <5>1 DEF Record, Entry, State, RTypeOK
            <4>3. \A e \in u.entries : \E f \in r.entries : e.from = f.from
                BY <4>1, <4>2, AnsweredEntriesEffect
            <4> QED
                BY <2>1, <4>3
        <3>3. CASE op[c] \in Marks \cup {"discard"}
            BY <1>1, <2>1, <3>3
        <3> QED
            BY <1>1, <3>1, <3>2, <3>3 DEF Op, Finishers
    <2> QED
        BY <1>2, <1>5, <2>2 DEF EntriesHavePayloads
<1> QED
    BY <1>4, <1>6, <1>7, <1>8, <1>9, <1>11, <1>12, <1>13

\* The caller has its number, and the entry that has it is the caller's.
LEMMA PublishStep ==
    ASSUME RInv, NEW c \in Call, Publish(c)
    PROVE  StoreInv'
<1> USE DEF RInv, StoreInv
<1> DEFINE seq == IF op[c] \in Answers THEN got[of[c]] ELSE loaded[c].seq + 1
<1>1. /\ Working(c) /\ at[c] = "publish" /\ Finish(c, "fulfilled")
      /\ told' = IF op[c] \in {"receive", "form"} \cup Answers
                   THEN told \cup {[txn |-> KeyOf[c], seq |-> seq]} ELSE told
      /\ got' = IF op[c] \in Appends THEN [got EXCEPT ![c] = seq] ELSE got
      /\ UNCHANGED <<record, payloads, answered, lapsed, op, of>>
    BY DEF Publish
<1>2. /\ at' = [at EXCEPT ![c] = "end"] /\ loaded' = [loaded EXCEPT ![c] = Absent]
      /\ at'[c] = "end"
      /\ \A d \in Call : d # c => /\ at'[d] = at[d] /\ loaded'[d] = loaded[d]
                                  /\ phase'[d] = phase[d]
      /\ phase'[c] \in Settling
    BY <1>1, FinishEffect DEF Settling
<1>3. /\ ~Working(c)' /\ IsOver(c)' /\ Asked(c)' /\ Asked(c) /\ ~IsOver(c)
      /\ \A d \in Call : IsOver(d) => IsOver(d)'
    BY <1>1, <1>2 DEF Working, Settling, IsOver, Over, Asked
<1>4. MyRecord(c) # Absent /\ MyRecord(c) \in Record /\ Listed(KeyOf[c], MyRecord(c))
    BY <1>1, MyRecordType DEF CopyIsFresh, AllListed, MyRecord
<1>5. op[c] \in Appends =>
        /\ loaded[c] # Absent /\ MyRecord(c).seq = loaded[c].seq + 1
        /\ \E e \in MyRecord(c).entries : e.from = c /\ e.seq = MyRecord(c).seq
    BY <1>1 DEF InHand
<1>6. op[c] \in Appends => /\ seq = MyRecord(c).seq /\ seq \in Nat \ {0}
                           /\ op[c] \notin Answers
    <2>1. op[c] \in Appends => op[c] \notin Answers
        BY DEF Appends, Answers
    <2> QED
        BY <1>4, <1>5, <2>1 DEF Record
<1>7. /\ op[c] \in Appends => got'[c] = seq
      /\ op[c] \notin Appends => got'[c] = got[c]
      /\ \A d \in Call : d # c => got'[d] = got[d]
      /\ got' \in [Call -> Nat]
    BY <1>1, <1>6 DEF RTypeOK
<1> HIDE DEF seq
<1>8. RTypeOK'
    <2>1. op[c] \in {"receive", "form"} \cup Answers => seq \in Nat
        <3>1. CASE op[c] \in {"receive", "form"}
            BY <1>6, <3>1 DEF Appends
        <3>2. CASE op[c] \in Answers
            <4>1. of[c] # NoCall
                BY <3>2 DEF Finishing, Finishers
            <4> QED
                BY <3>2, <4>1 DEF RTypeOK, seq
        <3> QED
            BY <3>1, <3>2
    <2>2. told' \subseteq [txn : Key, seq : Nat]
        BY <1>1, <2>1 DEF RTypeOK
    <2> QED
        BY <1>1, <1>2, <1>7, <2>2 DEF RTypeOK
<1>9. Places'
    BY <1>1, <1>2, <1>3 DEF Places, Working, Asked, IsOver, AtStore
<1>10. Numbered'
    BY <1>1, <1>2, <1>3, <1>4, <1>6, <1>7 DEF Numbered, MyRecord, Record
<1>11. Finishing'
    <2>1. ASSUME NEW a \in Call, op[a] = "send", got[a] # 0 PROVE got'[a] # 0
        <3>1. CASE a = c
            <4>1. op[c] \in Appends
                BY <2>1, <3>1 DEF Appends
            <4> QED
                BY <3>1, <4>1, <1>6, <1>7
        <3>2. CASE a # c
            BY <2>1, <3>2, <1>7
        <3> QED
            BY <3>1, <3>2
    <2>2. ASSUME NEW d \in Call, of[d] # NoCall PROVE got'[of[d]] # 0
        <3>1. of[d] \in Call /\ op[of[d]] = "send" /\ got[of[d]] # 0
            BY <2>2 DEF Finishing, RTypeOK
        <3> QED
            BY <2>1, <3>1
    <2> QED
        BY <1>1, <2>2 DEF Finishing
<1>12. AllListed'
    <2> SUFFICES ASSUME NEW t \in Key, record[t] # Absent, NEW e \in record[t].entries
                 PROVE  /\ IsOver(e.from)' \/ at'[e.from] = "publish"
                        /\ got'[e.from] \in {0, e.seq}
                        /\ \A d \in Call : KeyOf[d] = t /\ got'[d] = e.seq => d = e.from
        BY <1>1 DEF AllListed, Listed
    <2>1. Listed(t, record[t]) /\ e.from \in Call
        BY DEF AllListed, Listed, RTypeOK, Record
    <2>2. IsOver(e.from)' \/ at'[e.from] = "publish"
        BY <1>2, <1>3, <2>1 DEF Listed
    <2>3. op[c] \in Appends =>
            \E f \in record[KeyOf[c]].entries : f.from = c /\ f.seq = seq
        BY <1>5, <1>6 DEF MyRecord
    <2>4. got'[e.from] \in {0, e.seq}
        BY <1>7, <2>1, <2>3 DEF Listed
    <2>5. \A d \in Call : KeyOf[d] = t /\ got'[d] = e.seq => d = e.from
        BY <1>7, <2>1, <2>3 DEF Listed
    <2> QED
        BY <2>2, <2>4, <2>5
<1>13. CopyIsFresh'
    BY <1>1, <1>2 DEF CopyIsFresh, MyRecord
<1>14. InHand'
    <2>1. \A d \in Call : d # c /\ of[d] # NoCall => got'[of[d]] = got[of[d]]
        <3>1. ASSUME NEW d \in Call, of[d] # NoCall PROVE of[d] \in Call /\ of[d] # c
            BY <3>1, <1>3 DEF Finishing, Numbered, RTypeOK
        <3> QED
            BY <3>1, <1>7
    <2>2. \A d \in Call : op[d] \in Finishers \cup Answers => of[d] # NoCall
        BY DEF Finishing, Finishers
    <2> QED
        BY <1>1, <1>2, <2>1, <2>2 DEF InHand, MyRecord
<1>15. EntriesHavePayloads'
    BY <1>1 DEF EntriesHavePayloads
<1> QED
    BY <1>8, <1>9, <1>10, <1>11, <1>12, <1>13, <1>14, <1>15
\* A crash leaves the lists, the payloads and the numbers, and no call at work.
LEMMA RestartStep ==
    ASSUME RInv, Restart
    PROVE  StoreInv'
<1> USE DEF RInv, StoreInv
<1>1. /\ phase' = [c \in Call |-> IF phase[c] \in {"queued", "running"} \cup Settling
                                   THEN "lost" ELSE phase[c]]
      /\ at' = [c \in Call |-> "none"]
      /\ loaded' = [c \in Call |-> Absent]
      /\ UNCHANGED <<storeVars, op, of, got>>
    BY DEF Restart, Crash
<1>2. \A d \in Call : /\ ~Working(d)'
                      /\ Asked(d)' <=> Asked(d)
                      /\ IsOver(d) \/ Working(d) => IsOver(d)'
                      /\ at'[d] = "none" /\ loaded'[d] = Absent
    BY <1>1 DEF Working, Asked, IsOver, Over, Settling
<1>3. RTypeOK'
    BY <1>1 DEF RTypeOK, storeVars
<1>4. Places'
    BY <1>1, <1>2 DEF Places, AtStore
<1>5. Numbered'
    BY <1>1, <1>2 DEF Numbered, storeVars
<1>6. Finishing'
    BY <1>1 DEF Finishing
<1>7. AllListed'
    <2> SUFFICES ASSUME NEW t \in Key, record[t] # Absent, NEW e \in record[t].entries
                 PROVE  IsOver(e.from)'
        BY <1>1 DEF AllListed, Listed, storeVars
    <2>1. Listed(t, record[t]) /\ e.from \in Call
        BY DEF AllListed, RTypeOK, Record
    <2> QED
        BY <1>2, <2>1 DEF Listed, Places
<1>8. CopyIsFresh' /\ InHand'
    BY <1>2 DEF CopyIsFresh, InHand
<1>9. EntriesHavePayloads'
    BY <1>1 DEF EntriesHavePayloads, storeVars
<1> QED
    BY <1>3, <1>4, <1>5, <1>6, <1>7, <1>8, <1>9

\* A record is created, or expires, for a transaction on which nobody works: no
\* call's copy and no entry in hand is of it.
LEMMA ElsewhereStep ==
    ASSUME RInv, NEW t \in Key, NEW r \in Record \cup {Absent},
           record' = [record EXCEPT ![t] = r], told' \subseteq told,
           \A c \in Call : KeyOf[c] = t => ~Working(c),
           \A c \in Call : r # Absent /\ KeyOf[c] = t => ~Asked(c),
           r # Absent => r.entries = {},
           UNCHANGED <<lockVars, payloads, answered, lapsed, workVars>>
    PROVE  StoreInv'
<1> USE DEF RInv, StoreInv
<1>1. /\ record'[t] = r
      /\ \A s \in Key : s # t => record'[s] = record[s]
      /\ record' \in [Key -> Record \cup {Absent}]
      /\ UNCHANGED <<phase, payloads, answered, lapsed, op, of, at, loaded, got>>
    BY DEF RTypeOK, lockVars, workVars
<1>2. \A c \in Call : /\ KeyOf[c] \in Key
                      /\ at[c] \in AtStore \cup {"publish"} =>
                           KeyOf[c] # t /\ record'[KeyOf[c]] = record[KeyOf[c]]
    BY <1>1 DEF Places
<1>3. RTypeOK'
    BY <1>1 DEF RTypeOK
<1>4. Places' /\ Finishing'
    BY <1>1 DEF Places, Finishing, Working, Asked, IsOver
<1>5. Numbered'
    BY <1>1, <1>2 DEF Numbered, IsOver, Over, Asked
<1>6. AllListed'
    BY <1>1 DEF AllListed, Listed, IsOver
<1>7. CopyIsFresh'
    BY <1>1, <1>2 DEF CopyIsFresh, MyRecord, AtStore
<1>8. InHand'
    BY <1>1, <1>2 DEF InHand, MyRecord, AtStore
<1>9. EntriesHavePayloads'
    BY <1>1 DEF EntriesHavePayloads
<1> QED
    BY <1>3, <1>4, <1>5, <1>6, <1>7, <1>8, <1>9

LEMMA CreateStep ==
    ASSUME RInv, NEW t \in Key, CreateTransaction(t)
    PROVE  StoreInv'
<1>1. EmptyRecord \in Record /\ EmptyRecord # Absent /\ EmptyRecord.entries = {}
    <2>1. EmptyRecord \in Record
        BY DEF EmptyRecord, Record
    <2>2. EmptyRecord.entries = {}
        BY DEF EmptyRecord
    <2> QED
        BY <2>1, <2>2
<1>2. \A c \in Call : KeyOf[c] = t => ~Asked(c) /\ ~Working(c)
    BY DEF CreateTransaction, Asked, Working
<1>3. record' = [record EXCEPT ![t] = EmptyRecord]
    BY DEF CreateTransaction
<1>4. told' = told /\ UNCHANGED <<lockVars, payloads, answered, lapsed, workVars>>
    BY DEF CreateTransaction
<1> HIDE DEF EmptyRecord
<1> QED
    BY <1>1, <1>2, <1>3, <1>4, ElsewhereStep

LEMMA ExpireStep ==
    ASSUME RInv, NEW t \in Key, ExpireRecord(t)
    PROVE  StoreInv'
<1>1. /\ \A c \in Call : KeyOf[c] = t => ~Working(c)
      /\ record' = [record EXCEPT ![t] = Absent]
      /\ told' \subseteq told
      /\ UNCHANGED <<lockVars, payloads, answered, lapsed, workVars>>
    BY DEF ExpireRecord
<1> QED
    BY <1>1, ElsewhereStep

\* The payload of a call that is over lapses, and no call has it in hand.
LEMMA LapseStep ==
    ASSUME RInv, NEW c \in Call, ExpirePayload(c)
    PROVE  StoreInv'
<1> USE DEF RInv, StoreInv
<1>1. /\ \A d \in Call : d = c \/ of[d] = c => phase[d] \in {"returned", "lost"}
      /\ payloads' = payloads \ {c} /\ answered' = answered \ {c} /\ lapsed' = lapsed \cup {c}
      /\ UNCHANGED <<phase, record, told, op, of, at, loaded, got>>
    BY DEF ExpirePayload, lockVars, workVars
<1>2. \A d \in Call : d = c \/ of[d] = c => at[d] \notin AtStore \cup {"publish"}
    BY <1>1 DEF Places, Working
<1>3. RTypeOK'
    BY <1>1 DEF RTypeOK
<1>4. Places' /\ Numbered' /\ Finishing'
    BY <1>1 DEF Places, Numbered, Finishing, Working, Asked, IsOver
<1>5. AllListed'
    BY <1>1 DEF AllListed, Listed, IsOver
<1>6. CopyIsFresh'
    BY <1>1, <1>2 DEF CopyIsFresh, MyRecord, AtStore
<1>7. InHand'
    BY <1>1, <1>2 DEF InHand, MyRecord
<1>8. EntriesHavePayloads'
    BY <1>1 DEF EntriesHavePayloads
<1> QED
    BY <1>3, <1>4, <1>5, <1>6, <1>7, <1>8

\* A payload lapses behind the calls that had to do with it, and no caller comes
\* back to finish the send of a lapsed one.
LEMMA LapsedStep ==
    RInv /\ [RNext]_vars => LapsedIsDone'
<1> SUFFICES ASSUME RInv, [RNext]_vars, NEW c \in Call
             PROVE  /\ c \in lapsed' => IsOver(c)'
                    /\ of'[c] \in lapsed' => IsOver(c)'
    BY DEF LapsedIsDone
<1>1. IsOver(c) => IsOver(c)'
    BY LockStep, PhasesAdvance DEF RInv, LockInv
<1>2. \/ lapsed' = lapsed /\ of' = of
      \/ \E x \in Call : ExpirePayload(x)
      \/ \E d \in Call, o \in Op, a \in Call \cup {NoCall} : Ask(d, o, a)
    <2>1. ASSUME NEW d \in Call, Work(d) PROVE lapsed' = lapsed /\ of' = of
        BY <2>1 DEF Work, Begin, Load, SavePayload, SaveTransaction, RefreshPayload, DropPayload,
           Publish, StoreRejects, Return, storeVars, workVars
    <2>2. ASSUME NEW t \in Key, CreateTransaction(t) \/ ExpireRecord(t)
          PROVE  lapsed' = lapsed /\ of' = of
        BY <2>2 DEF CreateTransaction, ExpireRecord, workVars
    <2> QED
        BY <2>1, <2>2 DEF RNext, Restart, storeVars, workVars, vars
<1>3. CASE lapsed' = lapsed /\ of' = of
    BY <1>1, <1>3 DEF RInv, LapsedIsDone
<1>4. ASSUME NEW x \in Call, ExpirePayload(x)
      PROVE  /\ c \in lapsed' => IsOver(c)'
             /\ of'[c] \in lapsed' => IsOver(c)'
    <2>1. /\ lapsed' = lapsed \cup {x} /\ of' = of
          /\ c = x \/ of[c] = x => IsOver(c)
        BY <1>4 DEF ExpirePayload, workVars, IsOver, Over
    <2> QED
        BY <1>1, <2>1 DEF RInv, LapsedIsDone
<1>5. ASSUME NEW d \in Call, NEW o \in Op, NEW a \in Call \cup {NoCall}, Ask(d, o, a)
      PROVE  /\ c \in lapsed' => IsOver(c)'
             /\ of'[c] \in lapsed' => IsOver(c)'
    <2>1. lapsed' = lapsed /\ of' = [of EXCEPT ![d] = a]
        BY <1>5 DEF Ask, storeVars
    <2>2. a \notin lapsed
        BY <1>5 DEF Ask, MayFinish, RInv, StoreInv, RTypeOK, NoCall
    <2> QED
        BY <1>1, <2>1, <2>2 DEF RInv, StoreInv, RTypeOK, LapsedIsDone
<1> QED
    BY <1>2, <1>3, <1>4, <1>5

----------------------------------------------------------------------------
LEMMA RInvStep == RInv /\ [RNext]_vars => RInv'
<1> SUFFICES ASSUME RInv, [RNext]_vars PROVE RInv'
    OBVIOUS
<1>1. LockInv'
    BY LockStep, LockInvStep DEF RInv
<1>2. ASSUME NEW c \in Call, Work(c) PROVE StoreInv'
    <2>1. Begin(c) => StoreInv'
        BY BeginStep
    <2>2. Load(c) => StoreInv'
        BY LoadStep
    <2>3. SavePayload(c) => StoreInv'
        BY SavePayloadStep
    <2>4. SaveTransaction(c) => StoreInv'
        BY SaveStep
    <2>5. RefreshPayload(c) => StoreInv'
        BY RefreshStep
    <2>6. DropPayload(c) => StoreInv'
        BY DropStep
    <2>7. Publish(c) => StoreInv'
        BY PublishStep
    <2>8. StoreRejects(c) => StoreInv'
        BY RejectStep
    <2>9. Return(c) => StoreInv'
        BY ReturnStep
    <2> QED
        BY <1>2, <2>1, <2>2, <2>3, <2>4, <2>5, <2>6, <2>7, <2>8, <2>9 DEF Work
<1>3. ASSUME UNCHANGED vars PROVE StoreInv'
    <2>1. UNCHANGED <<phase, record, payloads, answered, lapsed, told, op, of, at, loaded, got>>
        BY <1>3 DEF vars, lockVars, storeVars, workVars
    <2>2. StoreInv
        BY DEF RInv
    <2>3. RTypeOK' /\ Places' /\ Numbered' /\ Finishing'
        BY <2>1, <2>2 DEF StoreInv, RTypeOK, Places, Numbered, Finishing, Working, Asked, IsOver
    <2>4. AllListed' /\ EntriesHavePayloads'
        <3>1. AllListed'
            BY <2>1, <2>2, ListsKept DEF StoreInv, IsOver
        <3>2. EntriesHavePayloads'
            BY <2>1, <2>2 DEF StoreInv, EntriesHavePayloads
        <3> QED
            BY <3>1, <3>2
    <2>5. CopyIsFresh' /\ InHand'
        BY <2>1, <2>2 DEF StoreInv, CopyIsFresh, InHand, MyRecord
    <2> QED
        BY <2>3, <2>4, <2>5 DEF StoreInv
<1>4. StoreInv'
    <2>1. CASE \E c \in Call, o \in Op, a \in Call \cup {NoCall} : Ask(c, o, a)
        BY <2>1, AskStep
    <2>2. CASE \E t \in Key : CreateTransaction(t) \/ ExpireRecord(t)
        BY <2>2, CreateStep, ExpireStep
    <2>3. CASE \E c \in Call : ExpirePayload(c)
        BY <2>3, LapseStep
    <2> QED
        BY <1>2, <1>3, <2>1, <2>2, <2>3, RestartStep DEF RNext
<1>5. LapsedIsDone'
    BY LapsedStep
<1> QED
    BY <1>1, <1>4, <1>5 DEF RInv

\* Whatever the calls, the rejections of the store and the crashes: the
\* invariant of the record and of the lock it is kept under holds.
THEOREM RecordInvariant == RSpec => []RInv
BY RInvInit, RInvStep, PTL DEF RSpec

\* Every variable keeps its type: in particular no write loses a field of the
\* record or names an author that is no call.
THEOREM RecordTyped == RSpec => []RTypeOK
<1>1. RInv => RTypeOK
    BY DEF RInv, StoreInv
<1> QED
    BY <1>1, RecordInvariant, PTL

\* The calls that work on one record do so in the order they asked, whatever
\* the store or a crash did to the calls before them.
THEOREM RecordServesInOrder == RSpec => []FirstComeFirstServed
<1>1. RInv => FirstComeFirstServed
    BY DEF RInv, LockInv
<1> QED
    BY <1>1, RecordInvariant, PTL

\* A payload is stored before a record names it and dropped only after the last
\* record that did: what a record names and the store has not, its 48 hours took.
THEOREM OnlyTimeTakesAPayload == RSpec => []EntriesHavePayloads
<1>1. RInv => EntriesHavePayloads
    BY DEF RInv, StoreInv
<1> QED
    BY <1>1, RecordInvariant, PTL
----------------------------------------------------------------------------
(* What a step may do to a record and to what waiters are told.            *)

LEMMA WhoWrites ==
    ASSUME [RNext]_vars
    PROVE  \/ record' = record
           \/ \E t \in Key : CreateTransaction(t) \/ ExpireRecord(t)
           \/ \E c \in Call : SaveTransaction(c)
<1>1. ASSUME NEW c \in Call, Work(c), ~SaveTransaction(c) PROVE record' = record
    BY <1>1 DEF Work, Begin, Load, SavePayload, RefreshPayload, DropPayload, Publish,
       StoreRejects, Return, storeVars
<1>2. ASSUME NEW c, NEW o, NEW a, Ask(c, o, a) PROVE record' = record
    BY <1>2 DEF Ask, storeVars
<1> QED
    BY <1>1, <1>2 DEF RNext, ExpirePayload, Restart, storeVars, vars

LEMMA WhoTells ==
    ASSUME [RNext]_vars
    PROVE  told' \subseteq told \/ \E c \in Call : Publish(c)
<1>1. ASSUME NEW c \in Call, Work(c), ~Publish(c) PROVE told' = told
    BY <1>1 DEF Work, Begin, Load, SavePayload, SaveTransaction, RefreshPayload, DropPayload,
       StoreRejects, Return, storeVars
<1>2. ASSUME NEW c, NEW o, NEW a, Ask(c, o, a) PROVE told' = told
    BY <1>2 DEF Ask, storeVars
<1>3. ASSUME NEW t, CreateTransaction(t) \/ ExpireRecord(t) PROVE told' \subseteq told
    BY <1>3 DEF CreateTransaction, ExpireRecord
<1> QED
    BY <1>1, <1>2, <1>3 DEF RNext, ExpirePayload, Restart, storeVars, vars

\* A write of a record is of the copy the call loaded, which is still what is
\* stored.
LEMMA SaveWrites ==
    ASSUME RInv, NEW c \in Call, SaveTransaction(c)
    PROVE  /\ KeyOf[c] \in Key /\ MyRecord(c) \in Record /\ MyRecord(c) # Absent
           /\ loaded[c] = MyRecord(c)
           /\ record' = [record EXCEPT ![KeyOf[c]] = Updated(MyRecord(c), c)]
           /\ told' = told
           /\ at[c] = "save" /\ Listed(KeyOf[c], MyRecord(c))
<1>1. at[c] = "save" /\ loaded[c] = MyRecord(c) /\ MyRecord(c) # Absent /\ told' = told
    BY DEF SaveTransaction, RInv, StoreInv, CopyIsFresh
<1>2. MyRecord(c) \in Record /\ Listed(KeyOf[c], MyRecord(c))
    BY <1>1 DEF MyRecord, RInv, StoreInv, RTypeOK, AllListed
<1> QED
    BY <1>1, <1>2 DEF SaveTransaction

\* The list of a live record grows at its end only, and its high-water mark
\* never falls.
LEMMA RewindsNever ==
    ASSUME RInv, [RNext]_vars, NEW t \in Key, record[t] # Absent, record'[t] # Absent
    PROVE  /\ record[t].seq <= record'[t].seq
           /\ \A e \in record'[t].entries \ record[t].entries :
                e.seq > record[t].seq \/ \E f \in record[t].entries : f.seq = e.seq /\ f.from = e.from
<1> USE DEF RInv, StoreInv
<1>1. record \in [Key -> Record \cup {Absent}] /\ record[t].seq \in Nat
    BY DEF RTypeOK, Record
<1>2. CASE record'[t] = record[t]
    BY <1>1, <1>2
<1>3. ASSUME NEW s \in Key, CreateTransaction(s) \/ ExpireRecord(s) PROVE record'[t] = record[t]
    BY <1>1, <1>3 DEF CreateTransaction, ExpireRecord
<1>4. ASSUME NEW c \in Call, SaveTransaction(c), t = KeyOf[c]
      PROVE  /\ record[t].seq <= record'[t].seq
             /\ \A e \in record'[t].entries \ record[t].entries :
                  e.seq > record[t].seq \/ \E f \in record[t].entries : f.seq = e.seq /\ f.from = e.from
    <2>r. PICK r : r = MyRecord(c)
        OBVIOUS
    <2>u. PICK u : u = Updated(r, c)
        OBVIOUS
    <2>1. record[t] = r /\ record'[t] = u /\ r \in Record
        BY <1>1, <1>4, <2>r, <2>u, SaveWrites DEF MyRecord
    <2>2. /\ op[c] \in Appends =>
               /\ u.seq = r.seq + 1
               /\ u.entries = r.entries \cup {NewEntry(r, c)}
          /\ op[c] \notin Appends => u.seq = r.seq
          /\ op[c] \in Answers => \E s \in {"settled", "failed"} :
               u.entries = AnsweredEntries(r.entries, got[of[c]], s)
          /\ op[c] = "discard" => u.entries = {e \in r.entries : e.seq # got[of[c]]}
          /\ op[c] \in Marks => u.entries = r.entries
          /\ op[c] \in Op
        BY <1>4, <2>r, <2>u, UpdatedEffect DEF SaveTransaction
    <2>3. r.seq \in Nat
        BY <2>1 DEF Record
    <2>4. CASE op[c] \in Appends
        BY <2>1, <2>2, <2>3, <2>4 DEF NewEntry
    <2>5. CASE op[c] \in Answers
        <3>1. PICK s \in {"settled", "failed"} :
                  u.entries = AnsweredEntries(r.entries, got[of[c]], s)
            BY <2>2, <2>5
        <3>2. s \in State /\ got[of[c]] \in Nat /\ r.entries \in SUBSET Entry
            BY <2>1, <2>5 DEF State, Finishing, Finishers, RTypeOK, Record, Entry
        <3>3. \A e \in u.entries : \E f \in r.entries : f.seq = e.seq /\ f.from = e.from
            BY <3>1, <3>2, AnsweredEntriesEffect
        <3>4. op[c] \notin Appends
            BY <2>5 DEF Answers, Appends
        <3> QED
            BY <2>1, <2>2, <2>3, <3>3, <3>4
    <2>6. CASE op[c] \in Marks \cup {"discard"}
        <3>1. op[c] \notin Appends
            BY <2>6 DEF Marks, Appends
        <3> QED
            BY <2>1, <2>2, <2>3, <2>6, <3>1
    <2> QED
        BY <2>2, <2>4, <2>5, <2>6 DEF Op, Finishers
<1>5. ASSUME NEW c \in Call, SaveTransaction(c), t # KeyOf[c] PROVE record'[t] = record[t]
    BY <1>1, <1>5, SaveWrites
<1> QED
    BY <1>2, <1>3, <1>4, <1>5, WhoWrites

\* No cursor a waiter was given is ever handed out for another entry, across
\* rejected writes, discards and crashes.
THEOREM CursorsAreNeverReused == RSpec => SeqNeverRewinds
<1>1. RInv /\ [RNext]_vars =>
        [\A t \in Key : record[t] # Absent /\ record'[t] # Absent
          => /\ record[t].seq <= record'[t].seq
             /\ \A e \in record'[t].entries \ record[t].entries :
                  e.seq > record[t].seq \/ \E f \in record[t].entries : f.seq = e.seq /\ f.from = e.from]_vars
    BY RewindsNever
<1> QED
    BY <1>1, RecordInvariant, PTL DEF SeqNeverRewinds, RSpec

\* What a waiter is told of is on the list, and over.
LEMMA PublishedIsStored ==
    ASSUME RInv, NEW c \in Call, Publish(c), NEW m \in told', m \notin told
    PROVE  \E e \in record[KeyOf[c]].entries :
               /\ m = [txn |-> KeyOf[c], seq |-> e.seq]
               /\ e.state # "in_flight"
               /\ op[e.from] = "send" => e.from \in answered
<1> USE DEF RInv, StoreInv
<1> DEFINE seq == IF op[c] \in Answers THEN got[of[c]] ELSE loaded[c].seq + 1
<1>1. /\ at[c] = "publish" /\ op[c] \in {"receive", "form"} \cup Answers
      /\ m = [txn |-> KeyOf[c], seq |-> seq]
    BY DEF Publish
<1>2. CASE op[c] \in Answers
    <2>1. PICK e \in MyRecord(c).entries : e.seq = got[of[c]] /\ e.state # "in_flight"
        BY <1>1, <1>2 DEF InHand
    <2>2. of[c] \in answered /\ of[c] # NoCall /\ MyRecord(c) # Absent
        BY <1>1, <1>2 DEF InHand, Finishing, Finishers, CopyIsFresh
    <2>3. e.from = of[c]
        BY <2>1, <2>2, HeldEntryIsOfs
    <2> QED
        BY <1>1, <1>2, <2>1, <2>2, <2>3 DEF MyRecord
<1>3. CASE op[c] \in {"receive", "form"}
    <2>1. op[c] \in Appends /\ op[c] \notin Answers /\ op[c] # "send"
        BY <1>3 DEF Appends, Answers
    <2>2. PICK e \in MyRecord(c).entries :
              e.from = c /\ e.seq = MyRecord(c).seq /\ e.state # "in_flight"
        BY <1>1, <2>1 DEF InHand
    <2>3. MyRecord(c).seq = loaded[c].seq + 1
        BY <1>1, <2>1 DEF InHand
    <2> QED
        BY <1>1, <2>1, <2>2, <2>3 DEF MyRecord
<1> QED
    BY <1>1, <1>2, <1>3

\* A waiter woken by an event finds the work stored, its outcome known and, for
\* a send, the answer in the payload.
THEOREM EventsFollowTheRecord == RSpec => ToldIsDurable
<1>1. ASSUME RInv, [RNext]_vars, NEW m \in told', m \notin told
      PROVE  /\ record'[m.txn] # Absent
             /\ \E e \in record'[m.txn].entries :
                  /\ e.seq = m.seq
                  /\ e.state # "in_flight"
                  /\ op[e.from] = "send" => e.from \in answered'
    <2>1. PICK c \in Call : Publish(c)
        BY <1>1, WhoTells
    <2>2. PICK e \in record[KeyOf[c]].entries :
               /\ m = [txn |-> KeyOf[c], seq |-> e.seq]
               /\ e.state # "in_flight"
               /\ op[e.from] = "send" => e.from \in answered
        BY <1>1, <2>1, PublishedIsStored
    <2>3. record' = record /\ answered' = answered /\ record[KeyOf[c]] # Absent
        BY <1>1, <2>1 DEF Publish, RInv, StoreInv, CopyIsFresh, MyRecord
    <2> QED
        BY <2>2, <2>3
<1>2. RInv /\ [RNext]_vars =>
        [\A m \in told' \ told :
          /\ record'[m.txn] # Absent
          /\ \E e \in record'[m.txn].entries :
               /\ e.seq = m.seq
               /\ e.state # "in_flight"
               /\ op[e.from] = "send" => e.from \in answered']_vars
    BY <1>1
<1> QED
    BY <1>2, RecordInvariant, PTL DEF ToldIsDurable, RSpec
----------------------------------------------------------------------------
(* Every load-modify-save is one step of the ledger.                       *)

LEMMA AnswerIsOneEntry ==
    ASSUME NEW E \in SUBSET Entry, NEW e \in E, NEW s \in State,
           \A f \in E : f.seq = e.seq => f = e
    PROVE  AnsweredEntries(E, e.seq, s) = (E \ {e}) \cup {[e EXCEPT !.state = s]}
<1>1. ASSUME NEW f \in E
      PROVE  (IF f.seq = e.seq THEN [f EXCEPT !.state = s] ELSE f)
               = (IF f = e THEN [e EXCEPT !.state = s] ELSE f)
    OBVIOUS
<1> DEFINE g == [e EXCEPT !.state = s]
<1>2. AnsweredEntries(E, e.seq, s) = {IF f = e THEN g ELSE f : f \in E}
    BY <1>1 DEF AnsweredEntries
<1> HIDE DEF g
<1>3. {IF f = e THEN g ELSE f : f \in E} = (E \ {e}) \cup {g}
    OBVIOUS
<1> QED
    BY <1>2, <1>3 DEF g

LEMMA SaveIsAtomic ==
    ASSUME RInv, NEW c \in Call, SaveTransaction(c)
    PROVE  L!Next
<1> USE DEF RInv, StoreInv
<1> DEFINE k == KeyOf[c]
<1>r. PICK r : r = record[k]
    OBVIOUS
<1>1. /\ k \in Key /\ r \in Record /\ r # Absent /\ at[c] = "save"
      /\ record' = [record EXCEPT ![k] = Updated(r, c)]
      /\ told' = told /\ Listed(k, r)
      /\ record \in [Key -> Record \cup {Absent}]
      /\ op[c] \in Op
    BY <1>r, SaveWrites, UpdatedEffect DEF MyRecord, RTypeOK, SaveTransaction
<1> HIDE DEF k
<1>2. CASE op[c] \in Appends
    <2>1. PICK s \in {"in_flight", "settled"} : NewEntry(r, c) = [seq |-> r.seq + 1, from |-> c, state |-> s]
        BY DEF NewEntry
    <2>2. Updated(r, c) = [r EXCEPT !.seq = @ + 1,
                                    !.entries = @ \cup {[seq |-> r.seq + 1, from |-> c, state |-> s]},
                                    !.latest = c]
        <3>1. WithEntry(r, c) = [r EXCEPT !.seq = @ + 1, !.entries = @ \cup {NewEntry(r, c)},
                                          !.latest = c]
            BY DEF WithEntry, NewEntry
        <3>2. Updated(r, c) = WithEntry(r, c)
            BY <1>2 DEF Updated, Appends
        <3> QED
            BY <2>1, <3>1, <3>2
    <2>3. L!Append(k, c, s)
        BY <1>1, <1>r, <2>2 DEF L!Append, Record
    <2> QED
        BY <1>1, <2>3 DEF L!Next, L!State
<1>3. CASE op[c] \in Finishers
    <2>1. PICK e \in r.entries : e.seq = got[of[c]]
        BY <1>1, <1>3, <1>r DEF InHand, MyRecord, k
    <2>2. \A f \in r.entries : f.seq = e.seq => f = e
        BY <1>1 DEF Listed
    <2>3. CASE op[c] \in Answers
        <3>1. PICK s \in {"settled", "failed"} : Updated(r, c) = WithAnswer(r, e.seq, s)
            BY <2>1, <2>3 DEF Updated, Answers, Appends
        <3>2. WithAnswer(r, e.seq, s) = WithEntries(r, AnsweredEntries(r.entries, e.seq, s))
            BY DEF WithAnswer, WithEntries, AnsweredEntries
        <3>3. AnsweredEntries(r.entries, e.seq, s) = (r.entries \ {e}) \cup {[e EXCEPT !.state = s]}
            BY <1>1, <2>2, AnswerIsOneEntry DEF Record, Entry, State
        <3>4. record' = [record EXCEPT ![k] = [r EXCEPT !.entries = (@ \ {e}) \cup {[e EXCEPT !.state = s]}]]
            BY <1>1, <3>1, <3>2, <3>3 DEF WithEntries
        <3>5. L!Answer(k, e, s)
            BY <1>1, <1>r, <3>4 DEF L!Answer
        <3> QED
            BY <1>1, <1>r, <3>5 DEF L!Next, L!State
    <2>4. CASE op[c] = "discard"
        <3>1. {f \in r.entries : f.seq # e.seq} = r.entries \ {e}
            BY <2>2
        <3>2. Updated(r, c) = Without(r, e.seq)
            BY <2>1, <2>4 DEF Updated, Appends
        <3>3. \A left : left = {f \in r.entries : f.seq # e.seq} =>
                 Without(r, e.seq) = [r EXCEPT !.entries = left, !.latest = L!Newest(left)]
            BY DEF Without, L!Newest
        <3>4. Updated(r, c) = [r EXCEPT !.entries = r.entries \ {e},
                                        !.latest = L!Newest(r.entries \ {e})]
            BY <3>1, <3>2, <3>3
        <3>5. L!Remove(k, e)
            BY <1>1, <1>r, <3>4 DEF L!Remove
        <3> QED
            BY <1>1, <1>r, <3>5 DEF L!Next
    <2> QED
        BY <1>3, <2>3, <2>4 DEF Finishers
<1>4. CASE op[c] \in Marks
    <2>1. \/ \E a \in Call \cup {NoCall} : Updated(r, c) = [r EXCEPT !.attention = a]
          \/ Updated(r, c) = [r EXCEPT !.abandoned = TRUE]
        BY <1>4 DEF Updated, Marks, Appends
    <2>2. CASE Updated(r, c) = [r EXCEPT !.abandoned = TRUE]
        <3>1. L!Abandon(k)
            BY <1>1, <1>r, <2>2 DEF L!Abandon
        <3> QED
            BY <1>1, <3>1 DEF L!Next
    <2>3. CASE \E a \in Call \cup {NoCall} : Updated(r, c) = [r EXCEPT !.attention = a]
        <3>1. PICK a \in Call \cup {NoCall} : Updated(r, c) = [r EXCEPT !.attention = a]
            BY <2>3
        <3>2. L!Note(k, a)
            BY <1>1, <1>r, <3>1 DEF L!Note
        <3> QED
            BY <1>1, <3>2 DEF L!Next
    <2> QED
        BY <2>1, <2>2, <2>3
<1> QED
    BY <1>1, <1>2, <1>3, <1>4 DEF Op

LEMMA PublishTells ==
    ASSUME RInv, NEW c \in Call, Publish(c)
    PROVE  [L!Next]_(L!ledgerVars)
<1> USE DEF RInv, StoreInv
<1>1. record' = record /\ record[KeyOf[c]] # Absent /\ KeyOf[c] \in Key
    BY DEF Publish, CopyIsFresh, MyRecord
<1>2. CASE told' = told
    BY <1>1, <1>2 DEF L!ledgerVars
<1>3. ASSUME told' # told PROVE L!Next
    <2>1. PICK m : told' = told \cup {m} /\ m \notin told
        BY <1>3 DEF Publish
    <2>2. PICK e \in record[KeyOf[c]].entries :
               m = [txn |-> KeyOf[c], seq |-> e.seq] /\ e.state # "in_flight"
        BY <2>1, PublishedIsStored
    <2>3. L!Tell(KeyOf[c], e)
        BY <1>1, <2>1, <2>2 DEF L!Tell
    <2> QED
        BY <1>1, <2>3 DEF L!Next
<1> QED
    BY <1>2, <1>3

LEMMA LedgerStep == RInv /\ [RNext]_vars => [L!Next]_(L!ledgerVars)
<1> SUFFICES ASSUME RInv, [RNext]_vars PROVE [L!Next]_(L!ledgerVars)
    OBVIOUS
<1>1. ASSUME NEW t \in Key, CreateTransaction(t) PROVE L!Next
    BY <1>1 DEF CreateTransaction, EmptyRecord, L!Open, L!Empty, L!Next
<1>2. ASSUME NEW t \in Key, ExpireRecord(t) PROVE L!Next
    BY <1>2 DEF ExpireRecord, L!Expire, L!Next
<1>3. ASSUME NEW c \in Call, Work(c) PROVE [L!Next]_(L!ledgerVars)
    <2>1. SaveTransaction(c) => L!Next
        BY SaveIsAtomic
    <2>2. Publish(c) => [L!Next]_(L!ledgerVars)
        BY PublishTells
    <2>3. ~SaveTransaction(c) /\ ~Publish(c) => record' = record /\ told' = told
        BY <1>3 DEF Work, Begin, Load, SavePayload, RefreshPayload, DropPayload, StoreRejects,
           Return, storeVars
    <2> QED
        BY <2>1, <2>2, <2>3 DEF L!ledgerVars
<1>4. ASSUME NEW c, NEW o, NEW a, Ask(c, o, a) PROVE record' = record /\ told' = told
    BY <1>4 DEF Ask, storeVars
<1>5. CASE Restart \/ UNCHANGED vars
    BY <1>5 DEF Restart, vars, storeVars, L!ledgerVars
<1>6. ASSUME NEW c \in Call, ExpirePayload(c) PROVE record' = record /\ told' = told
    BY <1>6 DEF ExpirePayload
<1> QED
    BY <1>1, <1>2, <1>3, <1>4, <1>5, <1>6 DEF RNext, L!ledgerVars

\* RecordService, with its copies, its lock, its payload store and its crashes,
\* keeps the exchange list as if every operation happened at once.
THEOREM RecordImplementsLedger == RSpec => ImplementsLedger
<1>1. RInit => L!Init
    BY DEF RInit, L!Init
<1> QED
    BY <1>1, LedgerStep, RecordInvariant, PTL DEF RSpec, ImplementsLedger, L!Spec
=============================================================================
