--------------------------- MODULE Journal_proofs ---------------------------
(***************************************************************************)
(* Proofs about the session journal, for any number of lines and of drains *)
(* under way together, any limits and any number of faults.                *)
(*                                                                         *)
(* The cursor is written from what a drain read two store calls earlier,   *)
(* while lines are appended and other drains move the cursor, back too.    *)
(* The argument is that "everything stored up to n is accounted for" stays *)
(* true of a number n once it is true: of the cursor, of the cursor each   *)
(* drain read, and, its own delta aside, of the one it is going to write.  *)
(***************************************************************************)
EXTENDS Journal, FiniteSetTheorems, TLAPS

USE LimitAssumption

\* Handed over, or about to be, or excused.
Accounted == told \cup Leaving \cup lost \cup late

AccountedUpTo(n) == \A l \in Stored : seqOf[l] <= n => l \in Accounted

\* Numbers: a line about to be appended has one of its own, never appended.
NumbersOK ==
    /\ highest <= counter
    /\ \A l \in Line : writer[l] = "append" => seqOf[l] <= counter /\ seqOf[l] # highest
    /\ \A l, m \in Line : writer[l] = "append" /\ writer[m] = "append" /\ l # m
         => seqOf[l] # seqOf[m]

\* A line that was appended keeps its number, which is at most the highest.
Appended(l) == writer[l] = "done" /\ seqOf[l] <= highest
StoredOK == \A l \in Stored : Appended(l)

CursorOK == cursor <= highest /\ AccountedUpTo(cursor)
FromOK == \A d \in Drain : from[d] <= highest /\ AccountedUpTo(from[d])

DeltaOK ==
    \A d \in Drain : drain[d] = "set" =>
        \A m \in delta[d] :
            /\ Appended(m)
            /\ \A l \in Stored : seqOf[l] <= seqOf[m] => l \in Accounted \cup delta[d]

JournalInv == NumbersOK /\ StoredOK /\ CursorOK /\ FromOK /\ DeltaOK

----------------------------------------------------------------------------
(* The log *)

LEMMA TrimmedLog ==
    ASSUME NEW s \in Seq(Line)
    PROVE  /\ Trimmed(s) \in Seq(Line)
           /\ Len(Trimmed(s)) <= JournalLimit
           /\ \A i \in DOMAIN Trimmed(s) : \E j \in DOMAIN s : Trimmed(s)[i] = s[j]
<1>1. CASE Len(s) <= JournalLimit
  BY <1>1 DEF Trimmed
<1>2. CASE ~(Len(s) <= JournalLimit)
  <2> DEFINE first == Len(s) - JournalLimit + 1
  <2>1. /\ Len(s) \in Nat /\ first \in 1..Len(s) /\ Trimmed(s) = SubSeq(s, first, Len(s))
        /\ Len(s) - first + 1 = JournalLimit
    BY <1>2 DEF Trimmed
  <2>2. Trimmed(s) \in Seq(Line) /\ Len(Trimmed(s)) = JournalLimit
    BY <2>1
  <2>3. ASSUME NEW i \in DOMAIN Trimmed(s)
        PROVE  \E j \in DOMAIN s : Trimmed(s)[i] = s[j]
    <3>1. i \in 1..JournalLimit
      BY <2>2, <2>3
    <3>2. Trimmed(s)[i] = s[first + i - 1] /\ first + i - 1 \in 1..Len(s)
      BY <2>1, <3>1
    <3> QED  BY <3>2
  <2> QED  BY <2>2, <2>3
<1> QED  BY <1>1, <1>2

\* An append adds its line and nothing else to what is stored.
LEMMA AppendStores ==
    ASSUME JournalTypeOK, NEW l \in Line, AppendLine(l)
    PROVE  Stored' \subseteq Stored \cup {l}
<1> DEFINE longer == Append(journal, l)
<1>1. longer \in Seq(Line) /\ Len(longer) = Len(journal) + 1
  BY DEF JournalTypeOK
<1>2. \A j \in DOMAIN longer : longer[j] = l \/ \E k \in DOMAIN journal : longer[j] = journal[k]
  BY DEF JournalTypeOK
<1>3. journal' = Trimmed(longer)
  BY DEF AppendLine
<1>4. \A i \in DOMAIN journal' : \E j \in DOMAIN longer : journal'[i] = longer[j]
  BY <1>1, <1>3, TrimmedLog
<1> QED  BY <1>2, <1>4 DEF Stored

LEMMA JournalTypeStep ==
    ASSUME JournalTypeOK, [Next]_vars
    PROVE  JournalTypeOK'
<1> USE DEF JournalTypeOK, stores, writers, drains, history
<1>1. ASSUME NEW l \in Line, Reserve(l) PROVE JournalTypeOK'
  BY <1>1 DEF Reserve
<1>2. ASSUME NEW l \in Line, AppendLine(l) PROVE JournalTypeOK'
  <2>1. Append(journal, l) \in Seq(Line)
    OBVIOUS
  <2>2. journal' \in Seq(Line) /\ Len(journal') <= JournalLimit
    BY <1>2, <2>1, TrimmedLog DEF AppendLine
  <2> QED  BY <1>2, <2>2 DEF AppendLine
<1>3. ASSUME NEW l \in Line, WriteFails(l) PROVE JournalTypeOK'
  BY <1>3 DEF WriteFails
<1>4. ASSUME NEW d \in Drain, ReadCursor(d) PROVE JournalTypeOK'
  BY <1>4 DEF ReadCursor
<1>5. ASSUME NEW d \in Drain, ReadJournal(d) PROVE JournalTypeOK'
  BY <1>5 DEF ReadJournal, Oldest, Since, Stored
<1>6. ASSUME NEW d \in Drain, SetCursor(d) PROVE JournalTypeOK'
  BY <1>6 DEF SetCursor
<1>7. ASSUME NEW d \in Drain, HandOver(d) PROVE JournalTypeOK'
  BY <1>7 DEF HandOver
<1>8. ASSUME NEW d \in Drain, DrainFails(d) PROVE JournalTypeOK'
  BY <1>8 DEF DrainFails
<1>9. CASE Restart
  BY <1>9 DEF Restart
<1>10. CASE UNCHANGED vars
  BY <1>10 DEF vars
<1> QED  BY <1>1, <1>2, <1>3, <1>4, <1>5, <1>6, <1>7, <1>8, <1>9, <1>10 DEF Next

\* Type correctness: in particular the log never holds more than its limit.
THEOREM JournalTypeCorrect == Spec => []JournalTypeOK
<1>1. Init => JournalTypeOK
  <2> SUFFICES ASSUME Init PROVE JournalTypeOK
    OBVIOUS
  <2> USE DEF Init
  <2>1. journal \in Seq(Line) /\ Len(journal) <= JournalLimit
    OBVIOUS
  <2>2. delta \in [Drain -> SUBSET Line]
    OBVIOUS
  <2>3. /\ counter \in Nat /\ cursor \in Nat /\ highest \in Nat /\ faults \in Nat
        /\ overlapped \in BOOLEAN
    OBVIOUS
  <2> QED  BY <2>1, <2>2, <2>3 DEF JournalTypeOK
<1> QED  BY <1>1, JournalTypeStep, PTL DEF Spec

----------------------------------------------------------------------------
(* What is accounted for stays accounted for *)

LEMMA AccountedGrows ==
    ASSUME JournalTypeOK, [Next]_vars
    PROVE  Accounted \subseteq Accounted'
<1> USE DEF JournalTypeOK, Accounted, Leaving, stores, writers, drains, history
<1>1. ASSUME NEW l \in Line, Reserve(l) \/ AppendLine(l) \/ WriteFails(l)
      PROVE  Accounted \subseteq Accounted'
  BY <1>1 DEF Reserve, AppendLine, WriteFails
<1>2. ASSUME NEW d \in Drain, ReadCursor(d) \/ ReadJournal(d) \/ SetCursor(d)
      PROVE  Accounted \subseteq Accounted'
  BY <1>2 DEF ReadCursor, ReadJournal, SetCursor
<1>3. ASSUME NEW d \in Drain, HandOver(d) \/ DrainFails(d)
      PROVE  Accounted \subseteq Accounted'
  BY <1>3 DEF HandOver, DrainFails
<1>4. CASE Restart
  BY <1>4 DEF Restart
<1>5. CASE UNCHANGED vars
  BY <1>5 DEF vars
<1> QED  BY <1>1, <1>2, <1>3, <1>4, <1>5 DEF Next

\* A line that is new to the log either has the highest number of all or is
\* late; the lines that were appended keep their numbers.
NewLinesAreTagged ==
    /\ \A l \in Line : Appended(l) => Appended(l)' /\ seqOf'[l] = seqOf[l]
    /\ highest <= highest'
    /\ \A l \in Stored' :
         l \in Stored \/ (Appended(l)' /\ (seqOf'[l] > highest \/ l \in late'))

LEMMA NewLines ==
    ASSUME JournalTypeOK, NumbersOK, StoredOK, [Next]_vars
    PROVE  NewLinesAreTagged
<1> USE DEF NewLinesAreTagged, JournalTypeOK, Appended, stores, writers, drains, history
<1>1. ASSUME UNCHANGED <<journal, writer, seqOf, highest>>
      PROVE  NewLinesAreTagged
  BY <1>1 DEF Stored
<1>2. ASSUME NEW l \in Line, Reserve(l) PROVE NewLinesAreTagged
  BY <1>2 DEF Reserve, Stored
<1>3. ASSUME NEW l \in Line, AppendLine(l) PROVE NewLinesAreTagged
  <2>1. seqOf[l] # highest /\ seqOf[l] \in Nat
    BY <1>3 DEF AppendLine, NumbersOK
  <2>2. Appended(l)' /\ (seqOf'[l] > highest \/ l \in late')
    BY <1>3, <2>1 DEF AppendLine
  <2>3. \A m \in Line : Appended(m) => Appended(m)' /\ seqOf'[m] = seqOf[m]
    BY <1>3 DEF AppendLine
  <2>4. highest <= highest'
    BY <1>3 DEF AppendLine
  <2> QED  BY <1>3, <2>2, <2>3, <2>4, AppendStores
<1>4. ASSUME NEW l \in Line, WriteFails(l) PROVE NewLinesAreTagged
  BY <1>4 DEF WriteFails, Stored
<1>5. ASSUME NEW d \in Drain,
             ReadCursor(d) \/ ReadJournal(d) \/ SetCursor(d) \/ HandOver(d) \/ DrainFails(d)
      PROVE  NewLinesAreTagged
  BY <1>1, <1>5 DEF ReadCursor, ReadJournal, SetCursor, HandOver, DrainFails
<1>6. CASE Restart
  BY <1>6 DEF Restart, Stored
<1>7. CASE UNCHANGED vars
  BY <1>1, <1>7 DEF vars
<1> QED  BY <1>2, <1>3, <1>4, <1>5, <1>6, <1>7 DEF Next

----------------------------------------------------------------------------
(* The numbers *)

LEMMA NumbersStep ==
    ASSUME JournalTypeOK, NumbersOK, [Next]_vars
    PROVE  NumbersOK'
<1> USE DEF JournalTypeOK, NumbersOK, stores, writers, drains, history
<1>1. ASSUME NEW l \in Line, Reserve(l) PROVE NumbersOK'
  BY <1>1 DEF Reserve
<1>2. ASSUME NEW l \in Line, AppendLine(l) PROVE NumbersOK'
  BY <1>2 DEF AppendLine
<1>3. ASSUME NEW l \in Line, WriteFails(l) PROVE NumbersOK'
  BY <1>3 DEF WriteFails
<1>4. ASSUME NEW d \in Drain,
             ReadCursor(d) \/ ReadJournal(d) \/ SetCursor(d) \/ HandOver(d) \/ DrainFails(d)
      PROVE  NumbersOK'
  BY <1>4 DEF ReadCursor, ReadJournal, SetCursor, HandOver, DrainFails
<1>5. CASE Restart
  BY <1>5 DEF Restart
<1>6. CASE UNCHANGED vars
  BY <1>6 DEF vars
<1> QED  BY <1>1, <1>2, <1>3, <1>4, <1>5, <1>6 DEF Next

\* Once everything up to n is accounted for it stays so, as long as n does not
\* run ahead of what was appended.
LEMMA AccountedStays ==
    ASSUME JournalTypeOK, NumbersOK, StoredOK, [Next]_vars,
           NEW n \in Nat, n <= highest, AccountedUpTo(n)
    PROVE  n <= highest' /\ \A l \in Stored' : seqOf'[l] <= n => l \in Accounted'
<1> USE DEF JournalTypeOK
<1>1. JournalTypeOK'
  BY JournalTypeStep
<1>2. n <= highest'
  BY <1>1, NewLines DEF NewLinesAreTagged
<1>3. ASSUME NEW l \in Stored', seqOf'[l] <= n
      PROVE  l \in Accounted'
  <2>1. l \in Line
    BY <1>1 DEF Stored
  <2>2. CASE l \in Stored
    <3>1. Appended(l)
      BY <2>2 DEF StoredOK
    <3>2. seqOf'[l] = seqOf[l]
      BY <2>1, <3>1, NewLines DEF NewLinesAreTagged
    <3> QED  BY <1>3, <2>2, <3>2, AccountedGrows DEF AccountedUpTo
  <2>3. CASE l \notin Stored
    <3>1. seqOf'[l] > highest \/ l \in late'
      BY <2>3, NewLines DEF NewLinesAreTagged
    <3>2. seqOf'[l] \in Nat
      BY <1>1, <2>1
    <3> QED  BY <1>3, <3>1, <3>2 DEF Accounted
  <2> QED  BY <2>2, <2>3
<1> QED  BY <1>2, <1>3

----------------------------------------------------------------------------
(* The drain *)

\* A delta is the oldest of what is pending: below any of its lines, pending
\* lines are in it too.
LEMMA OldestIsClosed ==
    ASSUME JournalTypeOK, NEW S \in SUBSET Line,
           NEW m \in Oldest(S), NEW l \in S, seqOf[l] <= seqOf[m]
    PROVE  l \in Oldest(S)
<1> DEFINE Below(k) == {x \in S : seqOf[x] < seqOf[k]}
<1>1. m \in S /\ Cardinality(Below(m)) < DeltaLimit
  BY DEF Oldest
<1>2. IsFiniteSet(S)
  BY LineAssumption, FS_Subset
<1>3. Below(l) \subseteq Below(m)
  BY <1>1 DEF JournalTypeOK
<1>4. IsFiniteSet(Below(m))
  BY <1>2, FS_Subset
<1>5. IsFiniteSet(Below(l)) /\ Cardinality(Below(l)) <= Cardinality(Below(m))
  BY <1>3, <1>4, FS_Subset
<1>6. Cardinality(Below(l)) \in Nat /\ Cardinality(Below(m)) \in Nat
  BY <1>4, <1>5, FS_CardinalityType
<1>7. Cardinality(Below(l)) < DeltaLimit
  BY <1>1, <1>5, <1>6
<1> QED  BY <1>7 DEF Oldest

\* The delta a drain took stays closed downwards while others are at work.
LEMMA DeltaStays ==
    ASSUME JournalTypeOK, JournalInv, [Next]_vars,
           NEW d \in Drain, drain[d] = "set", delta'[d] = delta[d],
           NEW m \in delta'[d]
    PROVE  /\ Appended(m)'
           /\ \A l \in Stored' : seqOf'[l] <= seqOf'[m] => l \in Accounted' \cup delta'[d]
<1> USE DEF JournalTypeOK
<1>1. JournalTypeOK'
  BY JournalTypeStep
<1>2. m \in Line /\ Appended(m)
  BY DEF JournalInv, DeltaOK
<1>3. Appended(m)' /\ seqOf'[m] = seqOf[m]
  BY <1>2, NewLines DEF NewLinesAreTagged, JournalInv
<1>4. ASSUME NEW l \in Stored', seqOf'[l] <= seqOf'[m]
      PROVE  l \in Accounted' \cup delta'[d]
  <2>1. l \in Line
    BY <1>1 DEF Stored
  <2>2. CASE l \in Stored
    <3>1. Appended(l)
      BY <2>2 DEF JournalInv, StoredOK
    <3>2. seqOf'[l] = seqOf[l]
      BY <2>1, <3>1, NewLines DEF NewLinesAreTagged, JournalInv
    <3>3. l \in Accounted \cup delta[d]
      BY <1>3, <1>4, <2>2, <3>2 DEF JournalInv, DeltaOK
    <3> QED  BY <3>3, AccountedGrows
  <2>3. CASE l \notin Stored
    <3>1. seqOf'[l] > highest \/ l \in late'
      BY <2>3, NewLines DEF NewLinesAreTagged, JournalInv
    <3>2. seqOf[m] <= highest /\ seqOf[m] \in Nat /\ seqOf'[l] \in Nat
      BY <1>1, <1>2, <2>1 DEF Appended
    <3> QED  BY <1>3, <1>4, <3>1, <3>2 DEF Accounted
  <2> QED  BY <2>2, <2>3
<1> QED  BY <1>3, <1>4

LEMMA InvStep ==
    ASSUME JournalTypeOK, JournalInv, [Next]_vars
    PROVE  JournalInv'
<1> USE DEF JournalTypeOK
<1>0. JournalTypeOK'
  BY JournalTypeStep
<1>1. NumbersOK'
  BY NumbersStep DEF JournalInv
<1>2. StoredOK'
  <2> SUFFICES ASSUME NEW l \in Stored' PROVE Appended(l)'
    BY DEF StoredOK
  <2>1. CASE l \in Stored
    BY <2>1, NewLines DEF NewLinesAreTagged, JournalInv, StoredOK, Stored
  <2>2. CASE l \notin Stored
    BY <2>2, NewLines DEF NewLinesAreTagged, JournalInv
  <2> QED  BY <2>1, <2>2
\* A number that was accounted up to, still is.
<1>3. ASSUME NEW n \in Nat, n <= highest, AccountedUpTo(n)
      PROVE  n <= highest' /\ \A l \in Stored' : seqOf'[l] <= n => l \in Accounted'
  BY <1>3, AccountedStays DEF JournalInv
<1>4. cursor \in Nat /\ cursor <= highest /\ AccountedUpTo(cursor)
  BY DEF JournalInv, CursorOK
<1>5. CursorOK'
  <2>1. CASE cursor' = cursor
    BY <1>3, <1>4, <2>1 DEF CursorOK, AccountedUpTo
  \* The new cursor is the number of a line of the delta, which is leaving now.
  <2>2. ASSUME NEW d \in Drain, SetCursor(d) PROVE CursorOK'
    <3>1. PICK m \in delta[d] : cursor' = seqOf[m]
      BY <2>2 DEF SetCursor
    <3>2. drain[d] = "set" /\ delta' = delta /\ drain'[d] = "return"
      BY <2>2 DEF SetCursor, drains
    <3>3. /\ Appended(m)'
          /\ \A l \in Stored' : seqOf'[l] <= seqOf'[m] => l \in Accounted' \cup delta'[d]
      BY <3>2, DeltaStays
    <3>4. delta'[d] \subseteq Accounted'
      BY <3>2 DEF Accounted, Leaving
    <3>5. cursor' = seqOf'[m]
      BY <2>2, <3>1 DEF SetCursor, writers
    <3> QED  BY <3>3, <3>4, <3>5 DEF CursorOK, AccountedUpTo, Appended
  <2>3. cursor' = cursor \/ \E d \in Drain : SetCursor(d)
    BY DEF Next, vars, stores, Reserve, AppendLine, WriteFails, ReadCursor, ReadJournal,
           HandOver, DrainFails, Restart
  <2> QED  BY <2>1, <2>2, <2>3
<1>6. FromOK'
  <2> SUFFICES ASSUME NEW d \in Drain
               PROVE  from'[d] <= highest' /\ \A l \in Stored' : seqOf'[l] <= from'[d] => l \in Accounted'
    BY DEF FromOK, AccountedUpTo
  <2>1. from[d] \in Nat /\ from[d] <= highest /\ AccountedUpTo(from[d])
    BY DEF JournalInv, FromOK
  <2>2. from'[d] = from[d] \/ from'[d] = cursor
    BY DEF Next, vars, drains, Reserve, AppendLine, WriteFails, ReadCursor, ReadJournal,
           SetCursor, HandOver, DrainFails, Restart
  <2> QED  BY <1>3, <1>4, <2>1, <2>2
<1>7. DeltaOK'
  <2> SUFFICES ASSUME NEW d \in Drain, drain'[d] = "set", NEW m \in delta'[d]
               PROVE  /\ Appended(m)'
                      /\ \A l \in Stored' : seqOf'[l] <= seqOf'[m] => l \in Accounted' \cup delta'[d]
    BY DEF DeltaOK
  <2>1. CASE drain[d] = "set" /\ delta'[d] = delta[d]
    BY <2>1, DeltaStays
  <2>2. CASE ReadJournal(d)
    <3>1. delta'[d] = Oldest(Since(from[d])) /\ journal' = journal /\ seqOf' = seqOf
      BY <2>2 DEF ReadJournal, stores, writers
    <3>2. Stored' = Stored /\ Since(from[d]) \in SUBSET Line /\ m \in Since(from[d])
      BY <3>1 DEF Stored, Since, Oldest
    <3>3. Appended(m)'
      BY <2>2, <3>2 DEF JournalInv, StoredOK, Since, Appended, ReadJournal, writers, history
    <3>4. ASSUME NEW l \in Stored', seqOf'[l] <= seqOf'[m]
          PROVE  l \in Accounted' \cup delta'[d]
      <4>1. CASE seqOf[l] <= from[d]
        <5>1. l \in Accounted
          BY <3>2, <4>1 DEF JournalInv, FromOK, AccountedUpTo
        <5> QED  BY <5>1, AccountedGrows
      <4>2. CASE ~(seqOf[l] <= from[d])
        <5>1. l \in Since(from[d])
          <6>1. l \in Line
            BY JournalTypeStep, <3>4 DEF Stored
          <6>2. seqOf[l] \in Nat /\ from[d] \in Nat
            BY <6>1
          <6> QED  BY <3>2, <4>2, <6>2 DEF Since
        <5>2. m \in Oldest(Since(from[d])) /\ seqOf[l] <= seqOf[m]
          BY <3>1, <3>4
        <5>3. l \in Oldest(Since(from[d]))
          BY <3>2, <5>1, <5>2, OldestIsClosed
        <5> QED  BY <3>1, <5>3
      <4> QED  BY <4>1, <4>2
    <3> QED  BY <3>3, <3>4
  <2>3. (drain[d] = "set" /\ delta'[d] = delta[d]) \/ ReadJournal(d)
    BY DEF Next, vars, drains, Reserve, AppendLine, WriteFails, ReadCursor, ReadJournal,
           SetCursor, HandOver, DrainFails, Restart
  <2> QED  BY <2>1, <2>2, <2>3
<1> QED  BY <1>1, <1>2, <1>5, <1>6, <1>7 DEF JournalInv

----------------------------------------------------------------------------
(* Delivery in order *)

\* A line that was told or is about to be was appended: its number is final.
TellingOK ==
    /\ \A m \in told : Appended(m)
    /\ \A d \in Drain : drain[d] \in {"set", "return"} => \A l \in delta[d] : Appended(l)

\* Alone, a drain holds the cursor it read until it moves it, what was told
\* lies at or below that cursor and what the drain carries above it.
AloneOK ==
    /\ \A d, e \in Drain : drain[d] # "idle" /\ drain[e] # "idle" => d = e
    /\ \A m \in told : seqOf[m] <= cursor
    /\ \A d \in Drain : drain[d] \in {"read", "set"} => from[d] = cursor
    /\ \A d \in Drain : drain[d] \in {"set", "return"} => \A l \in delta[d] : from[d] < seqOf[l]
    /\ \A d \in Drain : drain[d] = "return" =>
         /\ \A m \in told : seqOf[m] <= from[d]
         /\ \A l \in delta[d] : seqOf[l] <= cursor

OrderInv == TellingOK /\ (~overlapped => AloneOK)

LEMMA TellingStep ==
    ASSUME JournalTypeOK, NumbersOK, StoredOK, TellingOK, [Next]_vars
    PROVE  TellingOK'
<1> USE DEF JournalTypeOK
<1>0. JournalTypeOK'
  BY JournalTypeStep
<1>1. \A l \in Line : Appended(l) => Appended(l)'
  BY NewLines DEF NewLinesAreTagged
<1>2. ASSUME NEW d \in Drain, ReadJournal(d), NEW l \in delta'[d] PROVE Appended(l)'
  BY <1>1, <1>2 DEF ReadJournal, Oldest, Since, StoredOK, Stored
<1>3. ASSUME NEW d \in Drain, drain'[d] \in {"set", "return"}
      PROVE  (drain[d] \in {"set", "return"} /\ delta'[d] = delta[d]) \/ ReadJournal(d)
  BY <1>3 DEF Next, vars, drains, Reserve, AppendLine, WriteFails, ReadCursor, ReadJournal,
         SetCursor, HandOver, DrainFails, Restart
<1>4. ASSUME NEW d \in Drain, drain'[d] \in {"set", "return"}, NEW l \in delta'[d]
      PROVE  Appended(l)'
  <2>1. CASE drain[d] \in {"set", "return"} /\ delta'[d] = delta[d]
    BY <1>1, <1>4, <2>1 DEF TellingOK
  <2> QED  BY <1>2, <1>3, <1>4, <2>1
<1>5. told' = told \/ \E d \in Drain : drain[d] = "return" /\ told' = told \cup delta[d]
  BY DEF Next, vars, history, Reserve, AppendLine, WriteFails, ReadCursor, ReadJournal,
         SetCursor, HandOver, DrainFails, Restart
<1>6. ASSUME NEW m \in told' PROVE Appended(m)'
  BY <1>1, <1>5, <1>6 DEF TellingOK
<1> QED  BY <1>4, <1>6 DEF TellingOK

LEMMA OrderStep ==
    ASSUME JournalTypeOK, JournalInv, OrderInv, [Next]_vars
    PROVE  OrderInv'
<1> USE DEF JournalTypeOK
<1>0. JournalTypeOK'
  BY JournalTypeStep
<1>1. TellingOK'
  BY TellingStep DEF OrderInv, JournalInv
\* The numbers of the lines told and carried stand still.
<1>2. \A l \in Line : Appended(l) => seqOf'[l] = seqOf[l]
  BY NewLines DEF NewLinesAreTagged, JournalInv
<1>3. \A m \in told : seqOf'[m] = seqOf[m]
  BY <1>2 DEF OrderInv, TellingOK
<1>4. \A d \in Drain : drain[d] \in {"set", "return"} => \A l \in delta[d] : seqOf'[l] = seqOf[l]
  BY <1>2 DEF OrderInv, TellingOK
<1>5. SUFFICES ASSUME ~overlapped' PROVE AloneOK'
  BY <1>1 DEF OrderInv
<1>6. overlapped => overlapped'
  BY DEF Next, vars, history, Reserve, AppendLine, WriteFails, ReadCursor, ReadJournal,
         SetCursor, HandOver, DrainFails, Restart
<1>7. AloneOK
  BY <1>5, <1>6 DEF OrderInv
<1>8. ASSUME cursor' = cursor, told' = told, from' = from, delta' = delta, drain' = drain
      PROVE  AloneOK'
  BY <1>3, <1>4, <1>7, <1>8 DEF AloneOK
<1>9. ASSUME NEW l \in Line, Reserve(l) \/ AppendLine(l) \/ WriteFails(l) PROVE AloneOK'
  BY <1>8, <1>9 DEF Reserve, AppendLine, WriteFails, stores, drains, history
<1>10. ASSUME NEW d \in Drain, ReadCursor(d) PROVE AloneOK'
  <2>1. \A e \in Drain : drain[e] = "idle"
    BY <1>5, <1>10 DEF ReadCursor
  <2> QED  BY <1>3, <1>7, <1>10, <2>1 DEF ReadCursor, AloneOK, stores
<1>11. ASSUME NEW d \in Drain, ReadJournal(d) PROVE AloneOK'
  <2>1. \A l \in delta'[d] : from[d] < seqOf'[l]
    BY <1>11 DEF ReadJournal, Oldest, Since, Stored, writers
  <2>2. \A e \in Drain : e # d => drain[e] = "idle" /\ drain'[e] = "idle"
    BY <1>7, <1>11 DEF AloneOK, ReadJournal
  <2>3. drain[d] = "read" /\ drain'[d] \in {"idle", "set"} /\ told' = told
        /\ cursor' = cursor /\ from' = from
    BY <1>11 DEF ReadJournal, history, stores
  <2> QED  BY <1>3, <1>7, <2>1, <2>2, <2>3 DEF AloneOK
<1>12. ASSUME NEW d \in Drain, SetCursor(d) PROVE AloneOK'
  <2>1. PICK l \in delta[d] : (\A m \in delta[d] : seqOf[m] <= seqOf[l]) /\ cursor' = seqOf[l]
    BY <1>12 DEF SetCursor
  <2>2. /\ drain[d] = "set" /\ drain'[d] = "return" /\ from' = from /\ delta' = delta
        /\ told' = told
    BY <1>12 DEF SetCursor, history
  <2>3. \A e \in Drain : e # d => drain[e] = "idle" /\ drain'[e] = "idle"
    BY <1>7, <1>12 DEF AloneOK, SetCursor
  <2>4. /\ from[d] = cursor /\ from[d] < seqOf[l]
        /\ \A m \in told : seqOf'[m] = seqOf[m] /\ seqOf[m] <= from[d]
        /\ \A m \in delta[d] : seqOf'[m] = seqOf[m] /\ from[d] < seqOf[m] /\ seqOf[m] <= cursor'
    BY <1>3, <1>4, <1>7, <2>1, <2>2 DEF AloneOK
  <2>5. seqOf[l] \in Nat /\ from[d] \in Nat /\ \A m \in told : seqOf[m] \in Nat
    BY <2>1
  <2>6. \A m \in told : seqOf[m] <= cursor'
    BY <2>1, <2>4, <2>5
  <2> QED  BY <2>2, <2>3, <2>4, <2>6 DEF AloneOK
<1>13. ASSUME NEW d \in Drain, HandOver(d) PROVE AloneOK'
  <2>1. \A e \in Drain : drain'[e] = "idle"
    BY <1>7, <1>13 DEF AloneOK, HandOver
  <2>2. \A m \in told' : seqOf'[m] <= cursor'
    BY <1>3, <1>4, <1>7, <1>13 DEF AloneOK, HandOver, stores
  <2> QED  BY <2>1, <2>2 DEF AloneOK
<1>14. ASSUME NEW d \in Drain, DrainFails(d) PROVE AloneOK'
  <2>1. \A e \in Drain : drain'[e] = "idle"
    BY <1>7, <1>14 DEF AloneOK, DrainFails
  <2> QED  BY <1>3, <1>7, <1>14, <2>1 DEF AloneOK, DrainFails, stores
<1>15. CASE Restart
  BY <1>3, <1>7, <1>15 DEF AloneOK, Restart, stores
<1>16. CASE UNCHANGED vars
  BY <1>8, <1>16 DEF vars, stores, drains, history
<1> QED  BY <1>9, <1>10, <1>11, <1>12, <1>13, <1>14, <1>15, <1>16 DEF Next

LEMMA JournalInvariant == Spec => [](JournalInv /\ OrderInv)
<1>1. Init => JournalInv /\ OrderInv
  <2> SUFFICES ASSUME Init PROVE JournalInv /\ OrderInv
    OBVIOUS
  <2>1. Stored = {}
    BY DEF Init, Stored
  <2>2. JournalInv
    BY <2>1 DEF Init, JournalInv, NumbersOK, StoredOK, CursorOK, FromOK, DeltaOK, AccountedUpTo
  <2>3. OrderInv
    BY DEF Init, OrderInv, TellingOK, AloneOK
  <2> QED  BY <2>2, <2>3
<1>2. JournalTypeOK /\ JournalInv /\ OrderInv /\ [Next]_vars => (JournalInv /\ OrderInv)'
  BY InvStep, OrderStep
<1> QED  BY <1>1, <1>2, JournalTypeCorrect, PTL DEF Spec

\* The cursor never passes a stored line that nobody was or is being told of,
\* unless the line was appended out of order or went down with its call:
\* what a drain withholds for the cap stays ahead of the cursor.
THEOREM JournalWithholdsSafely == Spec => []NothingWithheldIsPassed
<1>1. JournalInv => NothingWithheldIsPassed
  BY DEF JournalInv, CursorOK, AccountedUpTo, Accounted, NothingWithheldIsPassed
<1> QED  BY <1>1, JournalInvariant, PTL

\* While one drain at a time is under way, whatever is lost on the way and
\* wherever the process restarts, a drain hands over only lines newer than
\* all that were handed over before.
THEOREM JournalDeliversInOrder == Spec => []DeliveredInOrder
<1>1. JournalTypeOK /\ OrderInv => DeliveredInOrder
  <2> SUFFICES ASSUME JournalTypeOK, OrderInv,
                      NEW d \in Drain, drain[d] = "return", ~overlapped,
                      NEW l \in delta[d], NEW m \in told
               PROVE  seqOf[m] < seqOf[l]
    BY DEF DeliveredInOrder
  <2>1. seqOf[m] <= from[d] /\ from[d] < seqOf[l]
    BY DEF OrderInv, AloneOK
  <2>2. seqOf[m] \in Nat /\ from[d] \in Nat /\ seqOf[l] \in Nat
    BY DEF JournalTypeOK
  <2> QED  BY <2>1, <2>2
<1> QED  BY <1>1, JournalInvariant, JournalTypeCorrect, PTL
=============================================================================
