--------------------------- MODULE FlowMap_proofs ---------------------------
(***************************************************************************)
(* Proofs about the flow engine's map, for any flow and any recorded       *)
(* exchanges: FlowMapBuilder, which derives it in steps, and Turns, whose  *)
(* calls derive it again and again as the record grows under them.         *)
(***************************************************************************)
EXTENDS FlowMapBuilder, Turns, WellFoundedInduction, TLAPS

\* What the line, the extras and the findings hold comes from replayed rows.
RowsDistinct == \A i, j \in 1..Len(rows) : rows[i] = rows[j] => i = j
DoneIsReplayed ==
    \A i \in 1..Len(map.done) : \E n \in 1..replayed : map.done[i] = rows[n]
ExtrasAreReplayed ==
    \A r \in map.extras : r.status = "COMPLETE" =>
        \E n \in 1..replayed :
            IsExtra(rows[n]) /\ ExtraFor(rows[n]).key = r.key /\ rows[n].id = r.id
MissedIsReplayed ==
    \A m \in map.missed : \E n \in 1..replayed : m.exchange = rows[n]

\* The replay begins when the reduction is over.
ReducedFirst == read < Len(list) => replayed = 0 /\ map = EmptyMap

(***************************************************************************)
(* Types.                                                                  *)
(***************************************************************************)

\* byType finds a declared extra.
LEMMA ExtraForIsExtra ==
    ASSUME NEW x \in Exchange, IsExtra(x)
    PROVE  /\ ExtraFor(x) \in Extra /\ ExtraFor(x).type = x.type
           /\ ExtraFor(x).key \in Key
  <1>1. ExtraFor(x) \in Extra /\ ExtraFor(x).type = x.type
    BY DEF IsExtra, ExtraFor
  <1> QED BY <1>1, FlowAssumption DEF Step

\* An exchange is known by the extra it matches and its id.
LEMMA ExtraForDetermines ==
    ASSUME NEW x \in Exchange, NEW y \in Exchange, IsExtra(x), IsExtra(y),
           ExtraFor(x).key = ExtraFor(y).key, x.id = y.id
    PROVE  x = y
  <1>1. ExtraFor(x) = ExtraFor(y)
    BY ExtraForIsExtra, FlowAssumption
  <1>2. x.type = y.type
    BY <1>1, ExtraForIsExtra
  <1> QED BY <1>2 DEF Exchange

\* The resolvers return maps.
LEMMA AdvancedType ==
    ASSUME NEW m \in MapType, NEW x \in Exchange
    PROVE  Advanced(m, x) \in MapType
  <1>1. m.cursor + 1 \in Nat /\ Append(m.done, x) \in Seq(Exchange)
    BY DEF MapType
  <1> QED BY <1>1 DEF Advanced, MapType

LEMMA MissedType ==
    ASSUME NEW ln, NEW m \in MapType, NEW x \in Exchange
    PROVE  Missed(ln, m, x) \in MapType
  <1>1. Kind(ln, m, x) \in {"BEYOND", "OUT_OF_ORDER", "NOT_FOUND"}
    BY DEF Kind
  <1>2. [exchange |-> x, kind |-> Kind(ln, m, x)] \in Finding
    BY <1>1 DEF Finding
  <1> QED BY <1>2 DEF Missed, MapType

LEMMA ResolvedType ==
    ASSUME NEW m \in MapType, NEW x \in Exchange
    PROVE  Resolved(m, x) \in MapType
  <1>1. Owed(m, x) \subseteq ExtraRow
    BY DEF Owed, MapType
  <1>2. Completed(Owed(m, x)) \subseteq ExtraRow
    BY <1>1 DEF Completed, ExtraRow
  <1> QED BY <1>2 DEF Resolved, MapType

LEMMA AddedType ==
    ASSUME NEW m \in MapType, NEW x \in Exchange, IsExtra(x)
    PROVE  Added(m, x) \in MapType
  <1> DEFINE e == ExtraFor(x)
             row == [key |-> e.key, id |-> x.id, owes |-> NoPair, status |-> "COMPLETE"]
             added == WithRow(m, row)
  <1>1. row \in ExtraRow
    BY ExtraForIsExtra DEF ExtraRow, Exchange
  <1>2. added \in MapType
    BY <1>1 DEF WithRow, MapType
  <1>3. Placeholder(added, e, x.id) \subseteq ExtraRow
    BY ExtraForIsExtra, FlowAssumption DEF Placeholder, ExtraRow, Step, Exchange
  <1>4. Added(m, x) = [added EXCEPT !.extras = @ \cup Placeholder(added, e, x.id)]
    BY DEF Added
  <1> HIDE DEF added
  <1> QED BY <1>2, <1>3, <1>4 DEF MapType

\* Type correctness of the replay, for any flow and any list.
THEOREM BuildTypeCorrect == BuildSpec => []BuildTypeOK
  <1>1. BuildInit => BuildTypeOK
    <2> SUFFICES ASSUME BuildInit PROVE BuildTypeOK
      OBVIOUS
    <2>1. line \in Seq(Step)
      <3>1. PICK more \in MoreSequences : line = Sequence \o more
        BY DEF BuildInit
      <3>2. Sequence \in Seq(Step) /\ more \in Seq(Step)
        BY FlowAssumption
      <3> QED BY <3>1, <3>2
    <2> QED BY <2>1 DEF BuildInit, BuildTypeOK, Lists, MapType, EmptyMap
  <1>2. BuildTypeOK /\ [BuildNext]_vars => BuildTypeOK'
    <2> SUFFICES ASSUME BuildTypeOK, [BuildNext]_vars PROVE BuildTypeOK'
      OBVIOUS
    <2> USE DEF BuildTypeOK
    <2>1. CASE Reduce
      BY <2>1 DEF Reduce
    <2>2. ASSUME NEW x \in Exchange, SequenceResolver(x) PROVE BuildTypeOK'
      BY <2>2, AdvancedType DEF SequenceResolver, Offered
    <2>3. ASSUME NEW x \in Exchange, ExtrasResolver(x) PROVE BuildTypeOK'
      BY <2>3, ResolvedType, AddedType DEF ExtrasResolver, Offered
    <2>4. ASSUME NEW x \in Exchange, MissedResolver(x) PROVE BuildTypeOK'
      BY <2>4, MissedType DEF MissedResolver, Offered
    <2>5. CASE UNCHANGED vars
      BY <2>5 DEF vars
    <2> QED BY <2>1, <2>2, <2>3, <2>4, <2>5 DEF BuildNext
  <1> QED BY <1>1, <1>2, PTL DEF BuildSpec

(***************************************************************************)
(* What is replayed was reduced, and the reduction kept one row of each.   *)
(***************************************************************************)
ReplayInv == RowsDistinct /\ ReducedFirst

LEMMA ReplayInvariant == BuildSpec => [](BuildTypeOK /\ ReplayInv)
  <1>1. BuildInit => ReplayInv
    BY DEF BuildInit, ReplayInv, RowsDistinct, ReducedFirst
  <1>2. BuildTypeOK /\ ReplayInv /\ [BuildNext]_vars => ReplayInv'
    <2> SUFFICES ASSUME BuildTypeOK, ReplayInv, [BuildNext]_vars PROVE ReplayInv'
      OBVIOUS
    <2> USE DEF ReplayInv
    <2>1. CASE Reduce
      <3>1. RowsDistinct'
        <4>1. CASE rows' = rows
          BY <4>1 DEF RowsDistinct
        <4>2. CASE /\ ~\E i \in 1..Len(rows) : rows[i] = list[read + 1]
                   /\ rows' = Append(rows, list[read + 1])
          BY <4>2 DEF RowsDistinct, BuildTypeOK
        <4> QED BY <2>1, <4>1, <4>2 DEF Reduce
      <3>2. ReducedFirst'
        BY <2>1 DEF Reduce, ReducedFirst, BuildTypeOK
      <3> QED BY <3>1, <3>2
    <2>2. CASE \E x \in Exchange :
                 SequenceResolver(x) \/ ExtrasResolver(x) \/ MissedResolver(x)
      BY <2>2 DEF SequenceResolver, ExtrasResolver, MissedResolver, Offered,
                  RowsDistinct, ReducedFirst, BuildTypeOK
    <2>3. CASE UNCHANGED vars
      BY <2>3 DEF vars, RowsDistinct, ReducedFirst
    <2> QED BY <2>1, <2>2, <2>3 DEF BuildNext
  <1> QED BY <1>1, <1>2, BuildTypeCorrect, PTL DEF BuildSpec

(***************************************************************************)
(* The cursor.  Matching each row with the earliest step still open is     *)
(* greedy, and greedy is best: an embedding of one step more would have to *)
(* use the new row for that step, or not to use it at all.                 *)
(***************************************************************************)

\* An embedding found in the first n rows is one in the first n + 1.
LEMMA EmbedsMore ==
    ASSUME NEW k \in Nat, NEW n \in Nat, Embeds(k, n)
    PROVE  Embeds(k, n + 1)
  <1>1. PICK f \in [1..k -> 1..n] :
          /\ \A i, j \in 1..k : i < j => f[i] < f[j]
          /\ \A i \in 1..k : rows[f[i]].type = line[i].type
    BY DEF Embeds
  <1>2. f \in [1..k -> 1..(n + 1)]
    OBVIOUS
  <1> QED BY <1>1, <1>2 DEF Embeds

\* The new row takes the next step.
LEMMA EmbedsNext ==
    ASSUME NEW k \in Nat, NEW n \in Nat, Embeds(k, n),
           rows[n + 1].type = line[k + 1].type
    PROVE  Embeds(k + 1, n + 1)
  <1>1. PICK f \in [1..k -> 1..n] :
          /\ \A i, j \in 1..k : i < j => f[i] < f[j]
          /\ \A i \in 1..k : rows[f[i]].type = line[i].type
    BY DEF Embeds
  <1> DEFINE g == [i \in 1..(k + 1) |-> IF i = k + 1 THEN n + 1 ELSE f[i]]
  <1>2. g \in [1..(k + 1) -> 1..(n + 1)]
    OBVIOUS
  <1>3. \A i, j \in 1..(k + 1) : i < j => g[i] < g[j]
    BY <1>1
  <1>4. \A i \in 1..(k + 1) : rows[g[i]].type = line[i].type
    BY <1>1
  <1> HIDE DEF g
  <1> QED BY <1>2, <1>3, <1>4 DEF Embeds

\* Without the last step an embedding does without the last row.
LEMMA EmbedsFewer ==
    ASSUME NEW k \in Nat, NEW n \in Nat, Embeds(k + 1, n + 1)
    PROVE  Embeds(k, n)
  <1>1. PICK f \in [1..(k + 1) -> 1..(n + 1)] :
          /\ \A i, j \in 1..(k + 1) : i < j => f[i] < f[j]
          /\ \A i \in 1..(k + 1) : rows[f[i]].type = line[i].type
    BY DEF Embeds
  <1> DEFINE g == [i \in 1..k |-> f[i]]
  <1>2. ASSUME NEW i \in 1..k PROVE f[i] \in 1..n
    <2>1. f[i] < f[k + 1]
      BY <1>1
    <2> QED BY <2>1
  <1>3. g \in [1..k -> 1..n]
    BY <1>2
  <1>4. /\ \A i, j \in 1..k : i < j => g[i] < g[j]
        /\ \A i \in 1..k : rows[g[i]].type = line[i].type
    BY <1>1
  <1> HIDE DEF g
  <1> QED BY <1>3, <1>4 DEF Embeds

\* A row of another type than the last step is not the last of an embedding.
LEMMA EmbedsWithout ==
    ASSUME NEW k \in Nat, NEW n \in Nat, Embeds(k + 1, n + 1),
           rows[n + 1].type # line[k + 1].type
    PROVE  Embeds(k + 1, n)
  <1>1. PICK f \in [1..(k + 1) -> 1..(n + 1)] :
          /\ \A i, j \in 1..(k + 1) : i < j => f[i] < f[j]
          /\ \A i \in 1..(k + 1) : rows[f[i]].type = line[i].type
    BY DEF Embeds
  <1>2. f[k + 1] # n + 1
    BY <1>1
  <1>3. ASSUME NEW i \in 1..(k + 1) PROVE f[i] \in 1..n
    <2>1. CASE i = k + 1
      BY <1>2, <2>1
    <2>2. CASE i < k + 1
      <3>1. f[i] < f[k + 1]
        BY <1>1, <2>2
      <3> QED BY <3>1
    <2> QED BY <2>1, <2>2
  <1>4. f \in [1..(k + 1) -> 1..n]
    BY <1>3
  <1> QED BY <1>1, <1>4 DEF Embeds

\* The empty line embeds in nothing, and no step does.
LEMMA EmbedsNothing ==
    Embeds(0, 0) /\ ~Embeds(1, 0)
  <1>1. Embeds(0, 0)
    <2> DEFINE f == [i \in 1..0 |-> i]
    <2>1. f \in [1..0 -> 1..0] /\ \A i \in 1..0 : FALSE
      OBVIOUS
    <2> HIDE DEF f
    <2> QED BY <2>1 DEF Embeds
  <1>2. ~Embeds(1, 0)
    <2> SUFFICES ASSUME NEW f \in [1..1 -> 1..0] PROVE FALSE
      BY DEF Embeds
    <2>1. f[1] \in 1..0
      OBVIOUS
    <2> QED BY <2>1
  <1> QED BY <1>1, <1>2

\* The cursor is the length of the longest beginning of the line that the
\* replayed rows hold in order.
THEOREM CursorIsRight == BuildSpec => []CursorIsGreatest
  <1> DEFINE Inv == BuildTypeOK /\ ReplayInv
  <1>1. BuildInit => CursorIsGreatest
    <2> SUFFICES ASSUME BuildInit PROVE CursorIsGreatest
      OBVIOUS
    <2>1. PICK more \in MoreSequences : line = Sequence \o more
      BY DEF BuildInit
    <2>2. Sequence \in Seq(Step) /\ more \in Seq(Step)
      BY FlowAssumption
    <2>3. Len(line) \in Nat
      BY <2>1, <2>2
    <2> QED BY <2>3, EmbedsNothing DEF BuildInit, CursorIsGreatest, EmptyMap
  <1>2. Inv /\ CursorIsGreatest /\ [BuildNext]_vars => CursorIsGreatest'
    <2> SUFFICES ASSUME Inv, CursorIsGreatest, [BuildNext]_vars PROVE CursorIsGreatest'
      OBVIOUS
    <2>0. PICK c \in Nat, n \in Nat : c = map.cursor /\ n = replayed
      BY DEF BuildTypeOK, MapType
    <2>5. /\ c \in 0..Len(line) /\ Len(line) \in Nat /\ Embeds(c, n)
          /\ c < Len(line) => ~Embeds(c + 1, n)
      BY <2>0 DEF CursorIsGreatest, BuildTypeOK
    <2>1. CASE Reduce
      <3>1. map = EmptyMap /\ replayed' = 0 /\ map' = EmptyMap /\ line' = line
        BY <2>1 DEF Reduce, ReplayInv, ReducedFirst
      <3>2. Embeds(0, 0)' /\ ~Embeds(1, 0)'
        <4> DEFINE f == [i \in 1..0 |-> i]
        <4>1. f \in [1..0 -> 1..0] /\ \A i \in 1..0 : FALSE
          OBVIOUS
        <4> HIDE DEF f
        <4>2. Embeds(0, 0)'
          BY <4>1 DEF Embeds
        <4>3. ASSUME NEW g \in [1..1 -> 1..0] PROVE FALSE
          <5>1. g[1] \in 1..0
            OBVIOUS
          <5> QED BY <5>1
        <4> QED BY <4>2, <4>3 DEF Embeds
      <3> QED BY <3>1, <3>2, <2>5 DEF CursorIsGreatest, EmptyMap
    <2>2. ASSUME NEW x \in Exchange, SequenceResolver(x) PROVE CursorIsGreatest'
      <3>1. /\ c < Len(line) /\ rows[n + 1].type = line[c + 1].type
            /\ map'.cursor = c + 1 /\ replayed' = n + 1 /\ rows' = rows /\ line' = line
        BY <2>0, <2>2 DEF SequenceResolver, Offered, Fits, Advanced, BuildTypeOK, MapType
      <3>2. Embeds(c + 1, n + 1)
        BY <2>5, <3>1, EmbedsNext
      <3>3. ~Embeds(c + 2, n + 1)
        <4>1. ASSUME Embeds(c + 2, n + 1) PROVE FALSE
          <5>1. c + 2 = (c + 1) + 1 /\ c + 1 \in Nat
            OBVIOUS
          <5> QED BY <2>5, <3>1, <4>1, <5>1, EmbedsFewer
        <4> QED BY <4>1
      <3>4. Embeds(c + 1, n + 1)' /\ ~Embeds(c + 2, n + 1)'
        BY <3>1, <3>2, <3>3 DEF Embeds
      <3> QED BY <2>5, <3>1, <3>4 DEF CursorIsGreatest
    <2>3. ASSUME NEW x \in Exchange, ExtrasResolver(x) \/ MissedResolver(x)
          PROVE CursorIsGreatest'
      <3>1. /\ c < Len(line) => rows[n + 1].type # line[c + 1].type
            /\ replayed' = n + 1 /\ rows' = rows /\ line' = line
        BY <2>0, <2>3 DEF ExtrasResolver, MissedResolver, Offered, Fits
      <3>2. map'.cursor = c
        BY <2>0, <2>3 DEF ExtrasResolver, MissedResolver, Resolved, Added, WithRow, Missed,
                    BuildTypeOK, MapType
      <3>3. Embeds(c, n + 1)
        BY <2>5, EmbedsMore
      <3>4. c < Len(line) => ~Embeds(c + 1, n + 1)
        BY <2>5, <3>1, EmbedsWithout
      <3>5. Embeds(c, n + 1)' /\ (c < Len(line) => ~Embeds(c + 1, n + 1)')
        BY <3>1, <3>3, <3>4 DEF Embeds
      <3> QED BY <2>5, <3>1, <3>2, <3>5 DEF CursorIsGreatest
    <2>4. CASE UNCHANGED vars
      BY <2>4 DEF vars, CursorIsGreatest, Embeds
    <2> QED BY <2>1, <2>2, <2>3, <2>4 DEF BuildNext
  <1> QED BY <1>1, <1>2, ReplayInvariant, PTL DEF BuildSpec

(***************************************************************************)
(* The three lists.                                                        *)
(***************************************************************************)
FiledInv == DoneIsReplayed /\ ExtrasAreReplayed /\ MissedIsReplayed /\ FiledOnce

\* A row that was not replayed is nowhere yet.
LEMMA NewIsNowhere ==
    ASSUME BuildTypeOK, RowsDistinct, FiledInv, NEW n \in Nat, n = replayed,
           n < Len(rows), NEW x \in Exchange, x = rows[n + 1]
    PROVE  ~InLine(x) /\ ~AmongExtras(x) /\ ~AmongMissed(x)
  <1>1. \A k \in 1..n : rows[k] \in Exchange /\ rows[k] # x
    BY DEF RowsDistinct, BuildTypeOK
  <1>2. ~InLine(x)
    BY <1>1 DEF InLine, FiledInv, DoneIsReplayed
  <1>3. ~AmongMissed(x)
    BY <1>1 DEF AmongMissed, FiledInv, MissedIsReplayed
  <1>4. ASSUME AmongExtras(x) PROVE FALSE
    <2>1. PICK r \in map.extras :
            r.key = ExtraFor(x).key /\ r.id = x.id /\ r.status = "COMPLETE"
      BY <1>4 DEF AmongExtras, RepliedAlready
    <2>2. PICK k \in 1..n :
            IsExtra(rows[k]) /\ ExtraFor(rows[k]).key = r.key /\ rows[k].id = r.id
      BY <2>1 DEF FiledInv, ExtrasAreReplayed
    <2>3. rows[k] = x
      BY <1>1, <1>4, <2>1, <2>2, ExtraForDetermines DEF AmongExtras
    <2> QED BY <1>1, <2>3
  <1> QED BY <1>2, <1>3, <1>4

\* The extras that are complete: those before, and those of the exchange the
\* resolver took.
LEMMA ResolvedRows ==
    ASSUME map \in MapType, NEW x \in Exchange, NEW r
    PROVE  r \in Resolved(map, x).extras /\ r.status = "COMPLETE" <=>
             \/ r \in map.extras /\ r.status = "COMPLETE"
             \/ r \in Completed(Owed(map, x))
  <1>1. Resolved(map, x).extras =
          (map.extras \ Owed(map, x)) \cup Completed(Owed(map, x))
    BY DEF Resolved, MapType
  <1>2. r \in Completed(Owed(map, x)) => r.status = "COMPLETE"
    BY DEF Completed, Owed, MapType, ExtraRow
  <1>3. r \in Owed(map, x) => r.status # "COMPLETE"
    BY DEF Owed
  <1> QED BY <1>1, <1>2, <1>3

LEMMA CompletedRows ==
    ASSUME map \in MapType, NEW x \in Exchange, NEW r \in Completed(Owed(map, x))
    PROVE  r.key = ExtraFor(x).key /\ r.id = x.id /\ r.status = "COMPLETE"
  BY DEF Completed, Owed, MapType, ExtraRow

\* What the extras resolver leaves complete under a key and an id: what was,
\* and the exchange it took.
LEMMA ExtrasAfter ==
    ASSUME BuildTypeOK, NEW x \in Exchange, IsExtra(x), ExtrasResolver(x),
           NEW key, NEW id
    PROVE  RepliedAlready(map', key, id) <=>
             RepliedAlready(map, key, id) \/ (key = ExtraFor(x).key /\ id = x.id)
  <1>0. map \in MapType
    BY DEF BuildTypeOK
  <1>1. CASE Owed(map, x) # {}
    <2>1. map' = Resolved(map, x)
      BY <1>1 DEF ExtrasResolver
    <2>2. PICK o : o \in Owed(map, x)
      BY <1>1
    <2>3. [o EXCEPT !.status = "COMPLETE"] \in Completed(Owed(map, x))
      BY <2>2 DEF Completed
    <2> QED BY <1>0, <2>1, <2>3, ResolvedRows, CompletedRows DEF RepliedAlready
  <1>2. CASE Owed(map, x) = {}
    <2> DEFINE e == ExtraFor(x)
               row == [key |-> e.key, id |-> x.id, owes |-> NoPair, status |-> "COMPLETE"]
               added == WithRow(map, row)
               owed == Placeholder(added, e, x.id)
    <2>1. map' = [added EXCEPT !.extras = @ \cup owed]
      BY <1>2 DEF ExtrasResolver, Added
    <2>5. added = [map EXCEPT !.extras = map.extras \cup {row}]
      BY DEF WithRow
    <2>6. added.extras = map.extras \cup {row} /\ map'.extras = added.extras \cup owed
      <3> HIDE DEF row, added, owed
      <3>1. added.extras = map.extras \cup {row}
        BY <1>0, <2>5 DEF MapType
      <3>2. added = [cursor |-> map.cursor, done |-> map.done,
                     extras |-> map.extras \cup {row}, missed |-> map.missed]
        BY <1>0, <2>5 DEF MapType
      <3> QED BY <2>1, <3>1, <3>2
    <2>3. \A r \in owed : r.status = "OPEN"
      BY DEF Placeholder
    <2>4. row.key = e.key /\ row.id = x.id /\ row.status = "COMPLETE"
      OBVIOUS
    <2> HIDE DEF row, added, owed
    <2> QED BY <2>6, <2>3, <2>4 DEF RepliedAlready
  <1> QED BY <1>1, <1>2

\* A step files the row it took in one list and moves no other.
LEMMA StepFiles ==
    ASSUME BuildTypeOK, RowsDistinct, FiledInv, NEW n \in Nat, n = replayed,
           NEW x \in Exchange, Offered(x),
           NEW y \in Exchange,
           SequenceResolver(x) \/ ExtrasResolver(x) \/ MissedResolver(x)
    PROVE  /\ InLine(y)' <=> InLine(y) \/ (SequenceResolver(x) /\ y = x)
           /\ AmongExtras(y)' <=> AmongExtras(y) \/ (ExtrasResolver(x) /\ y = x)
           /\ AmongMissed(y)' <=> AmongMissed(y) \/ (MissedResolver(x) /\ y = x)
  <1>0. map \in MapType /\ rows' = rows /\ map.done \in Seq(Exchange)
    BY DEF BuildTypeOK, Offered, MapType
  <1>1. CASE SequenceResolver(x)
    <2>1. /\ map'.done = Append(map.done, x)
          /\ map'.extras = map.extras /\ map'.missed = map.missed
      BY <1>0, <1>1 DEF SequenceResolver, Advanced, MapType
    <2>2. ~ExtrasResolver(x) /\ ~MissedResolver(x)
      BY <1>1 DEF SequenceResolver, ExtrasResolver, MissedResolver
    <2>3. InLine(y)' <=> InLine(y) \/ y = x
      BY <1>0, <2>1 DEF InLine
    <2> QED BY <1>1, <2>1, <2>2, <2>3 DEF AmongExtras, RepliedAlready, AmongMissed
  <1>2. CASE ExtrasResolver(x)
    <2>1. map'.done = map.done /\ map'.missed = map.missed
      BY <1>0, <1>2 DEF ExtrasResolver, Resolved, Added, WithRow, MapType
    <2>2. IsExtra(x) /\ ~SequenceResolver(x) /\ ~MissedResolver(x)
      BY <1>2 DEF SequenceResolver, ExtrasResolver, MissedResolver
    <2>3. AmongExtras(y)' <=> AmongExtras(y) \/ y = x
      BY <1>2, <2>2, ExtrasAfter, ExtraForDetermines DEF AmongExtras
    <2> QED BY <1>2, <2>1, <2>2, <2>3 DEF InLine, AmongMissed
  <1>3. CASE MissedResolver(x)
    <2> DEFINE f == [exchange |-> x, kind |-> Kind(line, map, x)]
    <2>1. /\ map'.done = map.done /\ map'.extras = map.extras
          /\ map'.missed = map.missed \cup {f} /\ f.exchange = x
      BY <1>0, <1>3 DEF MissedResolver, Missed, MapType
    <2> HIDE DEF f
    <2>2. ~SequenceResolver(x) /\ ~ExtrasResolver(x)
      BY <1>3 DEF SequenceResolver, ExtrasResolver, MissedResolver
    <2>3. AmongMissed(y)' <=> AmongMissed(y) \/ y = x
      BY <2>1 DEF AmongMissed
    <2> QED BY <1>3, <2>1, <2>2, <2>3 DEF InLine, AmongExtras, RepliedAlready
  <1> QED BY <1>1, <1>2, <1>3

\* Every replayed exchange is in exactly one of the three lists.
THEOREM FiledExactlyOnce == BuildSpec => []FiledOnce
  <1> DEFINE Inv == BuildTypeOK /\ ReplayInv
  <1>1. BuildInit => FiledInv
    BY DEF BuildInit, FiledInv, DoneIsReplayed, ExtrasAreReplayed, MissedIsReplayed,
           FiledOnce, EmptyMap
  <1>2. Inv /\ FiledInv /\ [BuildNext]_vars => FiledInv'
    <2> SUFFICES ASSUME Inv, FiledInv, [BuildNext]_vars PROVE FiledInv'
      OBVIOUS
    <2>1. CASE Reduce
      <3>1. replayed = 0 /\ replayed' = 0 /\ map = EmptyMap /\ map' = EmptyMap
        BY <2>1 DEF Reduce, ReplayInv, ReducedFirst
      <3> QED BY <3>1 DEF FiledInv, DoneIsReplayed, ExtrasAreReplayed, MissedIsReplayed,
                          FiledOnce, EmptyMap
    <2>2. ASSUME NEW x \in Exchange,
                 SequenceResolver(x) \/ ExtrasResolver(x) \/ MissedResolver(x)
          PROVE FiledInv'
      <3>1. PICK n \in Nat : n = replayed
        BY DEF BuildTypeOK
      <3>2. /\ Offered(x) /\ RowsDistinct /\ replayed' = n + 1 /\ n < Len(rows)
            /\ x = rows[n + 1] /\ rows' = rows /\ map \in MapType
        BY <2>2, <3>1 DEF SequenceResolver, ExtrasResolver, MissedResolver, Offered,
                          ReplayInv, BuildTypeOK
      <3>3. \A y \in Exchange :
              /\ InLine(y)' <=> InLine(y) \/ (SequenceResolver(x) /\ y = x)
              /\ AmongExtras(y)' <=> AmongExtras(y) \/ (ExtrasResolver(x) /\ y = x)
              /\ AmongMissed(y)' <=> AmongMissed(y) \/ (MissedResolver(x) /\ y = x)
        BY <2>2, <3>1, <3>2, StepFiles
      <3>4. DoneIsReplayed'
        <4>1. map'.done = map.done \/ map'.done = Append(map.done, x)
          BY <2>2, <3>2 DEF SequenceResolver, ExtrasResolver, MissedResolver, Advanced,
                            Resolved, Added, WithRow, Missed, MapType
        <4>2. \A i \in 1..Len(map'.done) :
                (i \in 1..Len(map.done) /\ map'.done[i] = map.done[i]) \/ map'.done[i] = x
          BY <3>2, <4>1 DEF MapType
        <4> QED BY <3>1, <3>2, <4>2 DEF FiledInv, DoneIsReplayed
      <3>5. ExtrasAreReplayed'
        <4>1. CASE ExtrasResolver(x)
          <5>1. IsExtra(x)
            BY <4>1 DEF ExtrasResolver
          <5>2. ASSUME NEW r \in map'.extras, r.status = "COMPLETE"
                PROVE  \E k \in 1..(n + 1) : /\ IsExtra(rows[k])
                                             /\ ExtraFor(rows[k]).key = r.key
                                             /\ rows[k].id = r.id
            <6>1. RepliedAlready(map', r.key, r.id)
              BY <5>2 DEF RepliedAlready
            <6>2. RepliedAlready(map, r.key, r.id)
                    \/ (r.key = ExtraFor(x).key /\ r.id = x.id)
              BY <4>1, <5>1, <6>1, ExtrasAfter
            <6>3. CASE RepliedAlready(map, r.key, r.id)
              BY <3>1, <6>3 DEF RepliedAlready, FiledInv, ExtrasAreReplayed
            <6>4. CASE r.key = ExtraFor(x).key /\ r.id = x.id
              BY <3>2, <5>1, <6>4
            <6> QED BY <6>2, <6>3, <6>4
          <5> QED BY <3>2, <5>2 DEF ExtrasAreReplayed
        <4>2. CASE SequenceResolver(x) \/ MissedResolver(x)
          <5>1. map'.extras = map.extras
            BY <3>2, <4>2 DEF SequenceResolver, MissedResolver, Advanced, Missed, MapType
          <5> QED BY <3>1, <3>2, <5>1 DEF FiledInv, ExtrasAreReplayed
        <4> QED BY <2>2, <4>1, <4>2
      <3>6. MissedIsReplayed'
        <4>1. \A m \in map'.missed : m \in map.missed \/ m.exchange = x
          <5>1. CASE SequenceResolver(x) \/ ExtrasResolver(x)
            <6>1. map'.missed = map.missed
              BY <3>2, <5>1 DEF SequenceResolver, ExtrasResolver, Advanced, Resolved,
                                Added, WithRow, MapType
            <6> QED BY <6>1
          <5>2. CASE MissedResolver(x)
            <6> DEFINE f == [exchange |-> x, kind |-> Kind(line, map, x)]
            <6>1. map'.missed = map.missed \cup {f} /\ f.exchange = x
              BY <3>2, <5>2 DEF MissedResolver, Missed, MapType
            <6> HIDE DEF f
            <6> QED BY <6>1
          <5> QED BY <2>2, <5>1, <5>2
        <4> QED BY <3>1, <3>2, <4>1 DEF FiledInv, MissedIsReplayed
      <3>7. FiledOnce'
        <4>1. ~InLine(x) /\ ~AmongExtras(x) /\ ~AmongMissed(x)
          BY <3>1, <3>2, NewIsNowhere
        <4>2. \A k \in 1..n : rows[k] \in Exchange /\ rows[k] # x
          BY <3>1, <3>2 DEF RowsDistinct, BuildTypeOK
        <4>3. ASSUME NEW k \in 1..n
              PROVE  LET y == rows[k] IN
                     /\ InLine(y)' \/ AmongExtras(y)' \/ AmongMissed(y)'
                     /\ ~(InLine(y)' /\ AmongExtras(y)')
                     /\ ~(InLine(y)' /\ AmongMissed(y)')
                     /\ ~(AmongExtras(y)' /\ AmongMissed(y)')
          BY <3>1, <3>2, <3>3, <4>2 DEF FiledInv, FiledOnce
        <4>4. /\ InLine(x)' \/ AmongExtras(x)' \/ AmongMissed(x)'
              /\ ~(InLine(x)' /\ AmongExtras(x)')
              /\ ~(InLine(x)' /\ AmongMissed(x)')
              /\ ~(AmongExtras(x)' /\ AmongMissed(x)')
          BY <2>2, <3>3, <4>1 DEF SequenceResolver, ExtrasResolver, MissedResolver
        <4> QED BY <3>2, <4>3, <4>4 DEF FiledOnce
      <3> QED BY <3>4, <3>5, <3>6, <3>7 DEF FiledInv
    <2>3. CASE UNCHANGED vars
      BY <2>3 DEF vars, FiledInv, DoneIsReplayed, ExtrasAreReplayed, MissedIsReplayed,
                  FiledOnce, InLine, AmongExtras, RepliedAlready, AmongMissed
    <2> QED BY <2>1, <2>2, <2>3 DEF BuildNext
  <1>3. FiledInv => FiledOnce
    BY DEF FiledInv
  <1> QED BY <1>1, <1>2, <1>3, ReplayInvariant, PTL DEF BuildSpec
(***************************************************************************)
(* The replies.                                                            *)
(***************************************************************************)

\* The row of an extra that came unasked, and the placeholder of its reply.
Came(e, id) == [key |-> e.key, id |-> id, owes |-> NoPair, status |-> "COMPLETE"]
OpenFor(e, p, id) == [key |-> p.key, id |-> id, owes |-> e.key, status |-> "OPEN"]

\* An open row was made for a reply: it names the extra that waits for it.
OpenNamesOwner == \A r \in map.extras : r.status = "OPEN" => r.owes # NoPair

LEMMA RepliesOwedMeans ==
    RepliesOwed <=>
      \A e, p \in Extra : \A id \in Id : e.pair = p.key =>
        (OpenFor(e, p, id) \in map.extras
           <=> Came(e, id) \in map.extras /\ ~RepliedAlready(map, p.key, id))
  BY DEF RepliesOwed, Came, OpenFor

LEMMA CameFields ==
    ASSUME NEW e, NEW id
    PROVE  /\ Came(e, id).key = e.key /\ Came(e, id).id = id
           /\ Came(e, id).owes = NoPair /\ Came(e, id).status = "COMPLETE"
  BY DEF Came

LEMMA OpenFields ==
    ASSUME NEW e, NEW p, NEW id
    PROVE  /\ OpenFor(e, p, id).key = p.key /\ OpenFor(e, p, id).id = id
           /\ OpenFor(e, p, id).owes = e.key /\ OpenFor(e, p, id).status = "OPEN"
  BY DEF OpenFor

LEMMA ExtraKeys ==
    /\ \A e \in Extra : e.key \in Key /\ e.key # NoPair
    /\ \A e, f \in Extra : e.key = f.key => e = f
  BY FlowAssumption DEF Step

\* A placeholder completed: the rows of its reply leave no open row behind,
\* and no row of an extra that came unasked is made.
LEMMA ResolvedReplies ==
    ASSUME map \in MapType, OpenNamesOwner, NEW x \in Exchange, IsExtra(x)
    PROVE  /\ \A r : r.status = "OPEN" =>
                (r \in Resolved(map, x).extras
                   <=> r \in map.extras /\ ~(r.key = ExtraFor(x).key /\ r.id = x.id))
           /\ \A r : r.status = "COMPLETE" /\ r.owes = NoPair =>
                (r \in Resolved(map, x).extras <=> r \in map.extras)
  <1>1. Resolved(map, x).extras = (map.extras \ Owed(map, x)) \cup Completed(Owed(map, x))
    BY DEF Resolved, MapType
  <1>2. ASSUME NEW r \in Completed(Owed(map, x))
        PROVE  r.status = "COMPLETE" /\ r.owes # NoPair
    <2>1. PICK o \in Owed(map, x) : r = [o EXCEPT !.status = "COMPLETE"]
      BY DEF Completed
    <2>2. o \in ExtraRow /\ o.owes # NoPair
      BY <2>1 DEF Owed, MapType, OpenNamesOwner
    <2> QED BY <2>1, <2>2 DEF ExtraRow
  <1>3. \A r : r \in Owed(map, x) <=>
          r \in map.extras /\ r.key = ExtraFor(x).key /\ r.id = x.id /\ r.status = "OPEN"
    BY DEF Owed
  <1> QED BY <1>1, <1>2, <1>3

\* An extra that came unasked: its row, and the placeholder of its reply.
LEMMA AddedReplies ==
    ASSUME map \in MapType, NEW x \in Exchange, IsExtra(x)
    PROVE  LET e == ExtraFor(x) IN
           \A r : r \in Added(map, x).extras <=>
                    \/ r \in map.extras \/ r = Came(e, x.id)
                    \/ \E p \in Extra :
                         /\ p.key = e.pair /\ r = OpenFor(e, p, x.id)
                         /\ p.key # e.key /\ ~RepliedAlready(map, p.key, x.id)
  <1> DEFINE e == ExtraFor(x)
             row == Came(e, x.id)
             added == WithRow(map, row)
  <1>1. Added(map, x) = [added EXCEPT !.extras = @ \cup Placeholder(added, e, x.id)]
    BY DEF Added, Came
  <1>2. added = [map EXCEPT !.extras = map.extras \cup {row}]
    BY DEF WithRow
  <1>3. \A p \in Extra : RepliedAlready(added, p.key, x.id)
                           <=> RepliedAlready(map, p.key, x.id) \/ p.key = e.key
    <2>1. added.extras = map.extras \cup {row}
      BY <1>2 DEF MapType
    <2>2. row.key = e.key /\ row.id = x.id /\ row.status = "COMPLETE"
      BY CameFields, OpenFields
    <2> HIDE DEF row, added, e
    <2> QED BY <2>1, <2>2 DEF RepliedAlready
  <1>4. \A r : r \in Placeholder(added, e, x.id) <=>
          \E p \in Extra : /\ p.key = e.pair /\ r = OpenFor(e, p, x.id)
                           /\ ~RepliedAlready(added, p.key, x.id)
    BY DEF Placeholder, OpenFor
  <1>5. Added(map, x).extras = map.extras \cup {row} \cup Placeholder(added, e, x.id)
    <2> HIDE DEF row, e
    <2>1. added.extras = map.extras \cup {row}
      BY <1>2 DEF MapType
    <2>2. added = [cursor |-> map.cursor, done |-> map.done,
                   extras |-> map.extras \cup {row}, missed |-> map.missed]
      BY <1>2 DEF MapType
    <2> HIDE DEF added
    <2> QED BY <1>1, <2>1, <2>2
  <1> HIDE DEF row, added
  <1> QED BY <1>3, <1>4, <1>5 DEF row

RepliesInv == OpenNamesOwner /\ RepliesOwed

LEMMA ExtrasKeepReplies ==
    ASSUME BuildTypeOK, RepliesInv, NEW x \in Exchange, ExtrasResolver(x)
    PROVE  RepliesInv'
  <1> DEFINE f == ExtraFor(x)
  <1>0. map \in MapType /\ IsExtra(x) /\ f \in Extra /\ f.key \in Key /\ f.key # NoPair
    BY ExtraForIsExtra, ExtraKeys DEF BuildTypeOK, ExtrasResolver
  <1>1. \A e, p \in Extra : \A id \in Id : e.pair = p.key =>
          (OpenFor(e, p, id) \in map.extras
             <=> Came(e, id) \in map.extras /\ ~RepliedAlready(map, p.key, id))
    BY RepliesOwedMeans DEF RepliesInv
  <1>2. \A key, id : RepliedAlready(map', key, id) <=>
                       RepliedAlready(map, key, id) \/ (key = f.key /\ id = x.id)
    BY <1>0, ExtrasAfter
  <1>3. CASE Owed(map, x) # {}
    <2>1. map' = Resolved(map, x)
      BY <1>3 DEF ExtrasResolver
    <2>2. \A r : r.status = "OPEN" =>
            (r \in map'.extras <=> r \in map.extras /\ ~(r.key = f.key /\ r.id = x.id))
      BY <1>0, <2>1, ResolvedReplies DEF RepliesInv
    <2>3. \A r : r.status = "COMPLETE" /\ r.owes = NoPair =>
            (r \in map'.extras <=> r \in map.extras)
      BY <1>0, <2>1, ResolvedReplies DEF RepliesInv
    <2>4. OpenNamesOwner'
      BY <2>2 DEF RepliesInv, OpenNamesOwner
    <2>5. ASSUME NEW e \in Extra, NEW p \in Extra, NEW id \in Id, e.pair = p.key
          PROVE  OpenFor(e, p, id) \in map'.extras
                   <=> Came(e, id) \in map'.extras /\ ~RepliedAlready(map', p.key, id)
      <3>1. OpenFor(e, p, id) \in map'.extras
              <=> OpenFor(e, p, id) \in map.extras /\ ~(p.key = f.key /\ id = x.id)
        BY <2>2, CameFields, OpenFields
      <3>2. Came(e, id) \in map'.extras <=> Came(e, id) \in map.extras
        BY <2>3, CameFields, OpenFields
      <3> QED BY <1>1, <1>2, <2>5, <3>1, <3>2
    <2>6. RepliesOwed'
      BY <2>5 DEF RepliesOwed, OpenFor, Came
    <2> QED BY <2>4, <2>6 DEF RepliesInv
  <1>4. CASE Owed(map, x) = {}
    <2>1. map' = Added(map, x)
      BY <1>4 DEF ExtrasResolver
    <2>2. \A r : r \in map'.extras <=>
                    \/ r \in map.extras \/ r = Came(f, x.id)
                    \/ \E p \in Extra :
                         /\ p.key = f.pair /\ r = OpenFor(f, p, x.id)
                         /\ p.key # f.key /\ ~RepliedAlready(map, p.key, x.id)
      BY <1>0, <2>1, AddedReplies
    <2>3. OpenNamesOwner'
      <3> SUFFICES ASSUME NEW r \in map'.extras, r.status = "OPEN" PROVE r.owes # NoPair
        BY DEF OpenNamesOwner
      <3>1. r \in map.extras \/ \E p \in Extra : r = OpenFor(f, p, x.id)
        BY <2>2, CameFields, OpenFields
      <3> QED BY <1>0, <3>1, CameFields, OpenFields DEF RepliesInv, OpenNamesOwner
    <2>4. ASSUME NEW e \in Extra, NEW p \in Extra, NEW id \in Id, e.pair = p.key
          PROVE  OpenFor(e, p, id) \in map'.extras
                   <=> Came(e, id) \in map'.extras /\ ~RepliedAlready(map', p.key, id)
      <3>1. OpenFor(e, p, id) \in map'.extras
              <=> \/ OpenFor(e, p, id) \in map.extras
                  \/ e = f /\ id = x.id /\ p.key # f.key /\ ~RepliedAlready(map, p.key, id)
        <4>1. OpenFor(e, p, id) # Came(f, x.id)
          BY CameFields, OpenFields
        <4>2. ASSUME NEW q \in Extra, OpenFor(e, p, id) = OpenFor(f, q, x.id)
              PROVE  e = f /\ id = x.id /\ p = q
          BY <1>0, <4>2, CameFields, OpenFields, ExtraKeys
        <4> QED BY <2>2, <2>4, <4>1, <4>2
      <3>2. Came(e, id) \in map'.extras
              <=> Came(e, id) \in map.extras \/ (e = f /\ id = x.id)
        <4>1. \A q : Came(e, id) # OpenFor(f, q, x.id)
          BY CameFields, OpenFields
        <4>2. Came(e, id) = Came(f, x.id) <=> e = f /\ id = x.id
          BY <1>0, CameFields, OpenFields, ExtraKeys
        <4> QED BY <2>2, <4>1, <4>2
      <3>3. p.key = f.key /\ id = x.id => OpenFor(e, p, id) \notin map.extras
        BY <1>4, CameFields, OpenFields DEF Owed
      <3> QED BY <1>1, <1>2, <2>4, <3>1, <3>2, <3>3
    <2>5. RepliesOwed'
      BY <2>4 DEF RepliesOwed, OpenFor, Came
    <2> QED BY <2>3, <2>5 DEF RepliesInv
  <1> QED BY <1>3, <1>4

\* A reply is owed for exactly the extras that came unasked, name one and have
\* not had it, in whatever order the exchanges were recorded, for any flow
\* whose extras differ in type and key.
THEOREM RepliesOwedExactly == BuildSpec => []RepliesOwed
  <1>1. BuildInit => RepliesInv
    BY DEF BuildInit, RepliesInv, OpenNamesOwner, RepliesOwed, EmptyMap
  <1>2. BuildTypeOK /\ RepliesInv /\ [BuildNext]_vars => RepliesInv'
    <2> SUFFICES ASSUME BuildTypeOK, RepliesInv, [BuildNext]_vars PROVE RepliesInv'
      OBVIOUS
    <2>1. ASSUME map'.extras = map.extras PROVE RepliesInv'
      BY <2>1 DEF RepliesInv, OpenNamesOwner, RepliesOwed, RepliedAlready
    <2>2. CASE Reduce \/ UNCHANGED vars
      BY <2>1, <2>2 DEF Reduce, vars
    <2>3. ASSUME NEW x \in Exchange, SequenceResolver(x) \/ MissedResolver(x)
          PROVE  RepliesInv'
      <3>1. map'.extras = map.extras
        BY <2>3 DEF SequenceResolver, MissedResolver, Advanced, Missed, BuildTypeOK, MapType
      <3> QED BY <2>1, <3>1
    <2> QED BY <2>2, <2>3, ExtrasKeepReplies DEF BuildNext
  <1>3. RepliesInv => RepliesOwed
    BY DEF RepliesInv
  <1> QED BY <1>1, <1>2, <1>3, BuildTypeCorrect, PTL DEF BuildSpec

(***************************************************************************)
(* The replay as one function of the list (Turns' Build).                  *)
(***************************************************************************)

\* What holds of 0 and of the successor of each number it holds of.
LEMMA EveryNumber ==
    ASSUME NEW S, 0 \in S, \A n \in Nat : n \in S => n + 1 \in S
    PROVE  Nat \subseteq S
  <1> DEFINE R == OpToRel(<, Nat)
             out == Nat \ S
  <1>1. \A x, y \in Nat : <<x, y>> \in R <=> x < y
    BY DEF OpToRel
  <1>2. IsWellFoundedOn(R, Nat)
    BY NatLessThanWellFounded
  <1> HIDE DEF R
  <1>3. SUFFICES ASSUME out # {} PROVE FALSE
    OBVIOUS
  <1>4. PICK x \in out : \A y \in out : ~(<<y, x>> \in R)
    BY <1>2, <1>3, WFMin
  <1>5. x \in Nat /\ x # 0 /\ x - 1 \in Nat
    OBVIOUS
  <1>6. x - 1 \in S
    <2>1. <<x - 1, x>> \in R
      BY <1>1, <1>5
    <2> QED BY <1>4, <1>5, <2>1
  <1> QED BY <1>5, <1>6

\* A map of the flow's: what completed a step is there for each, and the rows
\* are of declared extras.
GoodMap == {m \in MapType : /\ Len(m.done) = m.cursor
                            /\ \A r \in m.extras : \E e \in Extra : e.key = r.key}

\* The four ways an exchange is consumed.
LEMMA ConsumeIs ==
    ASSUME NEW ln, NEW m, NEW x
    PROVE  /\ Fits(ln, m, x) => Consume(ln, m, x) = Advanced(m, x)
           /\ ~Fits(ln, m, x) /\ IsExtra(x) /\ Owed(m, x) # {} => Consume(ln, m, x) = Resolved(m, x)
           /\ ~Fits(ln, m, x) /\ IsExtra(x) /\ Owed(m, x) = {} => Consume(ln, m, x) = Added(m, x)
           /\ ~Fits(ln, m, x) /\ ~IsExtra(x) => Consume(ln, m, x) = Missed(ln, m, x)
  BY DEF Consume

\* No resolver takes back what a map reports.
Keeps(m, n) ==
    /\ \A i \in 1..m.cursor : i <= n.cursor /\ n.done[i] = m.done[i]
    /\ m.missed \subseteq n.missed
    /\ {r \in m.extras : r.status = "COMPLETE"} \subseteq n.extras

LEMMA ConsumeKeeps ==
    ASSUME NEW ln, NEW m \in GoodMap, NEW x \in Exchange
    PROVE  Consume(ln, m, x) \in GoodMap /\ Keeps(m, Consume(ln, m, x))
  <1>0. /\ m \in MapType /\ Len(m.done) = m.cursor /\ m.cursor \in Nat /\ m.done \in Seq(Exchange)
        /\ \A r \in m.extras : \E e \in Extra : e.key = r.key
    BY DEF GoodMap, MapType
  <1>1. CASE Fits(ln, m, x)
    <2>1. Consume(ln, m, x) = Advanced(m, x) /\ Advanced(m, x) \in MapType
      BY <1>0, <1>1, ConsumeIs, AdvancedType
    <2>2. /\ Advanced(m, x).cursor = m.cursor + 1 /\ Advanced(m, x).done = Append(m.done, x)
          /\ Advanced(m, x).extras = m.extras /\ Advanced(m, x).missed = m.missed
      BY <1>0 DEF Advanced, MapType
    <2>3. /\ Len(Append(m.done, x)) = m.cursor + 1
          /\ \A i \in 1..m.cursor : Append(m.done, x)[i] = m.done[i]
      BY <1>0
    <2> QED BY <1>0, <2>1, <2>2, <2>3 DEF GoodMap, Keeps
  <1>2. CASE ~Fits(ln, m, x) /\ IsExtra(x) /\ Owed(m, x) # {}
    <2>1. Consume(ln, m, x) = Resolved(m, x) /\ Resolved(m, x) \in MapType
      BY <1>0, <1>2, ConsumeIs, ResolvedType
    <2>2. /\ Resolved(m, x).cursor = m.cursor /\ Resolved(m, x).done = m.done
          /\ Resolved(m, x).missed = m.missed
          /\ Resolved(m, x).extras = (m.extras \ Owed(m, x)) \cup Completed(Owed(m, x))
      BY <1>0 DEF Resolved, MapType
    <2>3. \A r \in Completed(Owed(m, x)) : r.key = ExtraFor(x).key
      BY <1>0 DEF Completed, Owed, MapType, ExtraRow
    <2>4. \A r \in Owed(m, x) : r.status # "COMPLETE"
      BY DEF Owed
    <2> QED BY <1>0, <1>2, <2>1, <2>2, <2>3, <2>4, ExtraForIsExtra DEF GoodMap, Keeps
  <1>3. CASE ~Fits(ln, m, x) /\ IsExtra(x) /\ Owed(m, x) = {}
    <2> DEFINE e == ExtraFor(x)
               row == [key |-> e.key, id |-> x.id, owes |-> NoPair, status |-> "COMPLETE"]
               added == WithRow(m, row)
               owed == Placeholder(added, e, x.id)
    <2>1. Consume(ln, m, x) = Added(m, x) /\ Added(m, x) \in MapType
      BY <1>0, <1>3, ConsumeIs, AddedType
    <2>2. added = [cursor |-> m.cursor, done |-> m.done, extras |-> m.extras \cup {row},
                   missed |-> m.missed]
      <3>1. added = [m EXCEPT !.extras = m.extras \cup {row}]
        BY DEF WithRow
      <3> HIDE DEF row, e, added
      <3> QED BY <1>0, <3>1 DEF MapType
    <2>3. Added(m, x) = [added EXCEPT !.extras = @ \cup owed]
      BY DEF Added
    <2>4. \A r \in owed : \E f \in Extra : f.key = r.key
      BY DEF Placeholder
    <2>5. row.key = e.key /\ e \in Extra
      BY <1>3, ExtraForIsExtra
    <2> HIDE DEF row, owed, added, e
    <2>6. /\ Added(m, x).cursor = m.cursor /\ Added(m, x).done = m.done
          /\ Added(m, x).missed = m.missed
          /\ Added(m, x).extras = m.extras \cup {row} \cup owed
      BY <2>2, <2>3
    <2> QED BY <1>0, <2>1, <2>4, <2>5, <2>6 DEF GoodMap, Keeps
  <1>4. CASE ~Fits(ln, m, x) /\ ~IsExtra(x)
    <2>1. Consume(ln, m, x) = Missed(ln, m, x) /\ Missed(ln, m, x) \in MapType
      BY <1>0, <1>4, ConsumeIs, MissedType
    <2>2. /\ Missed(ln, m, x).cursor = m.cursor /\ Missed(ln, m, x).done = m.done
          /\ Missed(ln, m, x).extras = m.extras /\ m.missed \subseteq Missed(ln, m, x).missed
      BY <1>0 DEF Missed, MapType
    <2> QED BY <1>0, <2>1, <2>2 DEF GoodMap, Keeps
  <1> QED BY <1>1, <1>2, <1>3, <1>4

\* The map after the i-th entry of a list, from the one before it.
Seen(s, i) == \E j \in 1..(i - 1) : s[j] = s[i]
After(ln, s, i, m) == IF Seen(s, i) THEN m ELSE Consume(ln, m, s[i])

IsBuild(ln, g, s, n) ==
    /\ g \in [0..n -> GoodMap] /\ g[0] = EmptyMap
    /\ \A i \in 1..n : g[i] = After(ln, s, i, g[i - 1])

LEMMA EmptyIsGood == EmptyMap \in GoodMap
  BY DEF EmptyMap, GoodMap, MapType

\* By the length of the prefix.
LEMMA BuildExists ==
    ASSUME NEW ln, NEW s \in Seq(Exchange)
    PROVE  \E g : IsBuild(ln, g, s, Len(s))
  <1> DEFINE S == {k \in Nat : k <= Len(s) => \E g : IsBuild(ln, g, s, k)}
  <1>1. 0 \in S
    <2>1. IsBuild(ln, [i \in 0..0 |-> EmptyMap], s, 0)
      BY EmptyIsGood DEF IsBuild
    <2> QED BY <2>1
  <1>2. ASSUME NEW k \in Nat, k \in S PROVE k + 1 \in S
    <2> SUFFICES ASSUME k + 1 <= Len(s) PROVE \E g : IsBuild(ln, g, s, k + 1)
      OBVIOUS
    <2>1. PICK g : IsBuild(ln, g, s, k)
      BY <1>2
    <2> DEFINE h == [i \in 0..(k + 1) |-> IF i = k + 1 THEN After(ln, s, k + 1, g[k]) ELSE g[i]]
    <2>2. g[k] \in GoodMap /\ s[k + 1] \in Exchange
      BY <2>1 DEF IsBuild
    <2>3. After(ln, s, k + 1, g[k]) \in GoodMap
      BY <2>2, ConsumeKeeps DEF After
    <2>4. h \in [0..(k + 1) -> GoodMap] /\ h[0] = EmptyMap
      BY <2>1, <2>3 DEF IsBuild
    <2>5. ASSUME NEW i \in 1..(k + 1) PROVE h[i] = After(ln, s, i, h[i - 1])
      <3>1. CASE i = k + 1
        BY <3>1
      <3>2. CASE i # k + 1
        BY <2>1, <3>2 DEF IsBuild
      <3> QED BY <3>1, <3>2
    <2> HIDE DEF h
    <2>6. IsBuild(ln, h, s, k + 1)
      BY <2>4, <2>5 DEF IsBuild
    <2> QED BY <2>6
  <1> HIDE DEF S
  <1>3. Len(s) \in Nat /\ Len(s) \in S
    BY <1>1, <1>2, EveryNumber
  <1> QED BY <1>3 DEF S

\* Lists that begin alike are built alike.
LEMMA BuildsAgree ==
    ASSUME NEW ln, NEW s \in Seq(Exchange), NEW u \in Seq(Exchange), NEW g, NEW h,
           IsBuild(ln, g, s, Len(s)), IsBuild(ln, h, u, Len(u)),
           NEW n \in Nat, n <= Len(s), n <= Len(u), \A i \in 1..n : s[i] = u[i]
    PROVE  g[n] = h[n]
  <1> DEFINE S == {k \in Nat : k <= n => g[k] = h[k]}
  <1>1. 0 \in S
    BY DEF IsBuild
  <1>2. ASSUME NEW k \in Nat, k \in S PROVE k + 1 \in S
    <2> SUFFICES ASSUME k + 1 <= n PROVE g[k + 1] = h[k + 1]
      OBVIOUS
    <2>1. g[k] = h[k] /\ s[k + 1] = u[k + 1]
      BY <1>2
    <2>2. g[k + 1] = After(ln, s, k + 1, g[k]) /\ h[k + 1] = After(ln, u, k + 1, h[k])
      <3>1. k + 1 \in 1..Len(s) /\ k + 1 \in 1..Len(u) /\ (k + 1) - 1 = k
        OBVIOUS
      <3> QED BY <3>1 DEF IsBuild
    <2>3. Seen(s, k + 1) <=> Seen(u, k + 1)
      BY DEF Seen
    <2> QED BY <2>1, <2>2, <2>3 DEF After
  <1> HIDE DEF S
  <1>3. n \in S
    BY <1>1, <1>2, EveryNumber
  <1> QED BY <1>3 DEF S

\* Build is that function, whose sets are its maps each in one.
LEMMA BuildIs ==
    ASSUME NEW ln, NEW s \in Seq(Exchange), NEW g, IsBuild(ln, g, s, Len(s))
    PROVE  Build(ln, s) = g[Len(s)]
  <1> DEFINE Next1(f, n) ==
               IF n = 0 THEN {EmptyMap}
               ELSE {IF Recorded(SubSeq(s, 1, n - 1), s[n]) THEN m
                     ELSE Consume(ln, m, s[n]) : m \in f[n - 1]}
             single == [n \in 0..Len(s) |-> {g[n]}]
             after == CHOOSE f : f = [n \in 0..Len(s) |-> Next1(f, n)]
  <1>1. \A n \in 1..Len(s) : Recorded(SubSeq(s, 1, n - 1), s[n]) <=> Seen(s, n)
    <2> TAKE n \in 1..Len(s)
    <2>1. /\ Len(SubSeq(s, 1, n - 1)) = n - 1
          /\ \A j \in 1..(n - 1) : SubSeq(s, 1, n - 1)[j] = s[j]
      OBVIOUS
    <2> QED BY <2>1 DEF Recorded, Seen
  <1>2. \A n \in 1..Len(s) : Next1(single, n) = {g[n]}
    <2> TAKE n \in 1..Len(s)
    <2>1. single[n - 1] = {g[n - 1]} /\ n # 0
      OBVIOUS
    <2>2. g[n] = After(ln, s, n, g[n - 1])
      BY DEF IsBuild
    <2>3. Next1(single, n) = {IF Seen(s, n) THEN m ELSE Consume(ln, m, s[n]) : m \in {g[n - 1]}}
      BY <1>1, <2>1
    <2> QED BY <2>2, <2>3 DEF After
  <1>3. Next1(single, 0) = {g[0]}
    BY DEF IsBuild
  <1>4. single = [n \in 0..Len(s) |-> Next1(single, n)]
    <2>1. \A n \in 0..Len(s) : single[n] = Next1(single, n)
      <3> TAKE n \in 0..Len(s)
      <3>1. n = 0 \/ n \in 1..Len(s)
        OBVIOUS
      <3>2. single[n] = {g[n]}
        OBVIOUS
      <3> HIDE DEF single, Next1
      <3> QED BY <1>2, <1>3, <3>1, <3>2
    <2>2. single = [n \in 0..Len(s) |-> single[n]]
      OBVIOUS
    <2> HIDE DEF single, Next1
    <2> QED BY <2>1, <2>2
  <1>5. after = [n \in 0..Len(s) |-> Next1(after, n)]
    <2> HIDE DEF single, Next1
    <2> QED BY <1>4
  <1>6. after[Len(s)] = {g[Len(s)]}
    <2> DEFINE S == {k \in Nat : k <= Len(s) => after[k] = {g[k]}}
    <2> HIDE DEF after, single
    <2>1. 0 \in S
      BY <1>5 DEF IsBuild
    <2>2. ASSUME NEW k \in Nat, k \in S PROVE k + 1 \in S
      <3> SUFFICES ASSUME k + 1 <= Len(s) PROVE after[k + 1] = {g[k + 1]}
        OBVIOUS
      <3>1. after[k] = {g[k]} /\ k + 1 \in 1..Len(s) /\ (k + 1) - 1 = k
        BY <2>2
      <3>2. after[k + 1] = Next1(after, k + 1)
        <4> HIDE DEF Next1
        <4> QED BY <1>5, <3>1
      <3>3. after[k + 1] = {IF Seen(s, k + 1) THEN m ELSE Consume(ln, m, s[k + 1]) : m \in {g[k]}}
        <4>1. k + 1 # 0
          OBVIOUS
        <4> QED BY <1>1, <3>1, <3>2, <4>1
      <3>4. g[k + 1] = After(ln, s, k + 1, g[k])
        BY <3>1 DEF IsBuild
      <3> QED BY <3>3, <3>4 DEF After
    <2> HIDE DEF S
    <2>3. Len(s) \in S
      BY <2>1, <2>2, EveryNumber
    <2> QED BY <2>3 DEF S
  <1>7. Build(ln, s) = CHOOSE m \in after[Len(s)] : TRUE
    BY DEF Build
  <1> QED BY <1>6, <1>7

LEMMA BuildIsGood ==
    ASSUME NEW ln, NEW s \in Seq(Exchange)
    PROVE  Build(ln, s) \in GoodMap
  <1>1. PICK g : IsBuild(ln, g, s, Len(s))
    BY BuildExists
  <1>2. Len(s) \in 0..Len(s)
    OBVIOUS
  <1> QED BY <1>1, <1>2, BuildIs DEF IsBuild

LEMMA BuildOfNothing ==
    ASSUME NEW ln
    PROVE  Build(ln, <<>>) = EmptyMap
  <1>1. <<>> \in Seq(Exchange) /\ Len(<<>>) = 0
    OBVIOUS
  <1>2. PICK g : IsBuild(ln, g, <<>>, Len(<<>>))
    BY <1>1, BuildExists
  <1> QED BY <1>1, <1>2, BuildIs DEF IsBuild

\* A new exchange is consumed, one seen before is not.
LEMMA BuildOfAppend ==
    ASSUME NEW ln, NEW s \in Seq(Exchange), NEW x \in Exchange
    PROVE  Build(ln, Append(s, x)) = IF Recorded(s, x) THEN Build(ln, s) ELSE Consume(ln, Build(ln, s), x)
  <1> DEFINE a == Append(s, x)
             n == Len(s)
  <1>1. /\ a \in Seq(Exchange) /\ Len(a) = n + 1 /\ n \in Nat /\ a[n + 1] = x
        /\ \A i \in 1..n : s[i] = a[i]
    OBVIOUS
  <1> HIDE DEF a
  <1>2. PICK g : IsBuild(ln, g, s, Len(s))
    BY BuildExists
  <1>3. PICK h : IsBuild(ln, h, a, Len(a))
    BY <1>1, BuildExists
  <1>4. g[n] = h[n]
    BY <1>1, <1>2, <1>3, BuildsAgree
  <1>5. h[n + 1] = After(ln, a, n + 1, h[n])
    <2>1. n + 1 \in 1..Len(a) /\ (n + 1) - 1 = n
      BY <1>1
    <2> QED BY <1>3, <2>1 DEF IsBuild
  <1>6. Seen(a, n + 1) <=> Recorded(s, x)
    BY <1>1 DEF Seen, Recorded
  <1>7. Build(ln, s) = g[n] /\ Build(ln, a) = h[n + 1]
    BY <1>1, <1>2, <1>3, BuildIs
  <1>8. Build(ln, a) = After(ln, a, n + 1, Build(ln, s))
    BY <1>4, <1>5, <1>7
  <1> QED BY <1>1, <1>6, <1>8 DEF After, a

----------------------------------------------------------------------------
(***************************************************************************)
(* The builder's steps and the one function: the rows are built as the     *)
(* entries read so far are, and the map as the rows replayed so far.       *)
(***************************************************************************)
ReductionIsBuild ==
    /\ \A x \in Exchange : Recorded(rows, x) <=> Recorded(SubSeq(list, 1, read), x)
    /\ Build(line, rows) = Build(line, SubSeq(list, 1, read))
ReplayIsBuild == map = Build(line, SubSeq(rows, 1, replayed))

\* A prefix and one entry more.
LEMMA PrefixGrows ==
    ASSUME NEW s \in Seq(Exchange), NEW n \in 0..Len(s), n < Len(s)
    PROVE  /\ SubSeq(s, 1, n) \in Seq(Exchange) /\ s[n + 1] \in Exchange
           /\ SubSeq(s, 1, n + 1) = Append(SubSeq(s, 1, n), s[n + 1])
  OBVIOUS

LEMMA RecordedOfAppend ==
    ASSUME NEW s \in Seq(Exchange), NEW x \in Exchange, NEW y \in Exchange
    PROVE  Recorded(Append(s, x), y) <=> Recorded(s, y) \/ y = x
  <1>1. /\ Len(Append(s, x)) = Len(s) + 1 /\ Append(s, x)[Len(s) + 1] = x
        /\ \A i \in 1..Len(s) : Append(s, x)[i] = s[i]
    OBVIOUS
  <1> QED BY <1>1 DEF Recorded

\* Each resolver is its case of Consume.
LEMMA ResolversConsume ==
    ASSUME NEW x \in Exchange, SequenceResolver(x) \/ ExtrasResolver(x) \/ MissedResolver(x)
    PROVE  map' = Consume(line, map, x)
  <1>1. CASE SequenceResolver(x)
    BY <1>1, ConsumeIs DEF SequenceResolver
  <1>2. CASE ExtrasResolver(x)
    BY <1>2, ConsumeIs DEF ExtrasResolver
  <1>3. CASE MissedResolver(x)
    BY <1>3, ConsumeIs DEF MissedResolver
  <1> QED BY <1>1, <1>2, <1>3

LEMMA ReductionStep ==
    ASSUME BuildTypeOK, ReplayInv, ReductionIsBuild, ReplayIsBuild, Reduce
    PROVE  ReductionIsBuild' /\ ReplayIsBuild'
  <1> DEFINE x == list[read + 1]
             p == SubSeq(list, 1, read)
             q == SubSeq(list, 1, read + 1)
  <1>1. /\ list \in Seq(Exchange) /\ rows \in Seq(Exchange) /\ read \in 0..Len(list)
        /\ read < Len(list) /\ list' = list /\ line' = line /\ read' = read + 1
        /\ rows' = IF Recorded(rows, x) THEN rows ELSE Append(rows, x)
    BY DEF Reduce, BuildTypeOK, Recorded
  <1>2. p \in Seq(Exchange) /\ x \in Exchange /\ q = Append(p, x)
    BY <1>1, PrefixGrows
  <1>3. SubSeq(list', 1, read') = q
    BY <1>1
  <1>4. /\ \A y \in Exchange : Recorded(rows, y) <=> Recorded(p, y)
        /\ Build(line, rows) = Build(line, p)
    BY DEF ReductionIsBuild
  <1> HIDE DEF x, p, q
  <1>5. Build(line, q) = IF Recorded(p, x) THEN Build(line, p) ELSE Consume(line, Build(line, p), x)
    BY <1>2, BuildOfAppend
  <1>6. Build(line, rows') = Build(line, q)
    <2>1. Build(line, Append(rows, x)) = IF Recorded(rows, x) THEN Build(line, rows)
                                   ELSE Consume(line, Build(line, rows), x)
      BY <1>1, <1>2, BuildOfAppend
    <2> QED BY <1>1, <1>2, <1>4, <1>5, <2>1
  <1>7. \A y \in Exchange : Recorded(rows', y) <=> Recorded(q, y)
    <2> TAKE y \in Exchange
    <2>1. Recorded(q, y) <=> Recorded(p, y) \/ y = x
      BY <1>2, RecordedOfAppend
    <2>2. Recorded(Append(rows, x), y) <=> Recorded(rows, y) \/ y = x
      BY <1>1, <1>2, RecordedOfAppend
    <2> QED BY <1>1, <1>2, <1>4, <2>1, <2>2
  <1>8. ReductionIsBuild'
    <2>1. ReductionIsBuild' <=> /\ \A y \in Exchange : Recorded(rows', y) <=> Recorded(q, y)
                                /\ Build(line, rows') = Build(line, q)
      BY <1>1, <1>3 DEF ReductionIsBuild
    <2> QED BY <1>6, <1>7, <2>1
  <1>9. ReplayIsBuild'
    <2>1. replayed = 0 /\ replayed' = 0 /\ map = EmptyMap /\ map' = EmptyMap
      BY DEF Reduce, ReplayInv, ReducedFirst
    <2>2. rows' \in Seq(Exchange)
      BY <1>1, <1>2
    <2>3. SubSeq(rows', 1, 0) = <<>>
      BY <2>2
    <2> QED BY <2>1, <2>3, BuildOfNothing DEF ReplayIsBuild
  <1> QED BY <1>8, <1>9

LEMMA ReplayStep ==
    ASSUME BuildTypeOK, ReplayInv, ReductionIsBuild, ReplayIsBuild, NEW x \in Exchange,
           SequenceResolver(x) \/ ExtrasResolver(x) \/ MissedResolver(x)
    PROVE  ReductionIsBuild' /\ ReplayIsBuild'
  <1> DEFINE p == SubSeq(rows, 1, replayed)
             q == SubSeq(rows, 1, replayed + 1)
  <1>1. /\ rows \in Seq(Exchange) /\ replayed \in 0..Len(rows) /\ replayed < Len(rows)
        /\ x = rows[replayed + 1] /\ replayed' = replayed + 1
        /\ rows' = rows /\ list' = list /\ line' = line /\ read' = read
    BY DEF SequenceResolver, ExtrasResolver, MissedResolver, Offered, BuildTypeOK
  <1>2. p \in Seq(Exchange) /\ q = Append(p, x)
    BY <1>1, PrefixGrows
  <1>3. ~Recorded(p, x)
    <2>1. Len(p) = replayed /\ \A i \in 1..replayed : p[i] = rows[i]
      BY <1>1
    <2>2. RowsDistinct
      BY DEF ReplayInv
    <2> HIDE DEF p
    <2> QED BY <1>1, <2>1, <2>2 DEF Recorded, RowsDistinct
  <1>4. map = Build(line, p) /\ map' = Consume(line, map, x)
    BY ResolversConsume DEF ReplayIsBuild
  <1>5. ReplayIsBuild' <=> map' = Build(line, q)
    BY <1>1 DEF ReplayIsBuild
  <1> HIDE DEF p, q
  <1>6. Build(line, q) = Consume(line, Build(line, p), x)
    BY <1>2, <1>3, BuildOfAppend
  <1>7. ReductionIsBuild'
    BY <1>1 DEF ReductionIsBuild
  <1> QED BY <1>4, <1>5, <1>6, <1>7

\* What FlowMapBuilder.build returns, reduction and replay and all, is the one
\* function of the record that Turns takes it for.
THEOREM BuildInOne ==
    BuildSpec => [](read = Len(list) /\ replayed = Len(rows) => map = Build(line, list))
  <1> DEFINE Inv == BuildTypeOK /\ ReplayInv
             Bridge == ReductionIsBuild /\ ReplayIsBuild
  <1>1. BuildInit => Bridge
    <2> SUFFICES ASSUME BuildInit PROVE Bridge
      OBVIOUS
    <2>1. list \in Seq(Exchange) /\ rows = <<>> /\ read = 0 /\ replayed = 0 /\ map = EmptyMap
      BY DEF BuildInit, Lists
    <2>2. SubSeq(list, 1, 0) = <<>> /\ SubSeq(<<>>, 1, 0) = <<>>
      BY <2>1
    <2> QED BY <2>1, <2>2, BuildOfNothing DEF ReductionIsBuild, ReplayIsBuild
  <1>2. Inv /\ Bridge /\ [BuildNext]_vars => Bridge'
    <2> SUFFICES ASSUME Inv, Bridge, [BuildNext]_vars PROVE Bridge'
      OBVIOUS
    <2>1. CASE UNCHANGED vars
      BY <2>1 DEF vars, ReductionIsBuild, ReplayIsBuild
    <2> QED BY <2>1, ReductionStep, ReplayStep DEF BuildNext
  <1>3. Inv /\ Bridge => (read = Len(list) /\ replayed = Len(rows) => map = Build(line, list))
    <2> SUFFICES ASSUME Inv, Bridge, read = Len(list), replayed = Len(rows)
                 PROVE  map = Build(line, list)
      OBVIOUS
    <2>1. SubSeq(list, 1, Len(list)) = list /\ SubSeq(rows, 1, Len(rows)) = rows
      BY DEF BuildTypeOK
    <2> QED BY <2>1 DEF ReductionIsBuild, ReplayIsBuild
  <1> QED BY <1>1, <1>2, <1>3, ReplayInvariant, PTL DEF BuildSpec

----------------------------------------------------------------------------
(***************************************************************************)
(* Two lines that begin alike: the same exchanges complete what they have  *)
(* in common.                                                              *)
(***************************************************************************)

\* What an exchange does to the cursor and to what completed the steps.
LEMMA CursorMoves ==
    ASSUME NEW ln, NEW m \in GoodMap, NEW x \in Exchange
    PROVE  /\ Consume(ln, m, x).cursor = IF Fits(ln, m, x) THEN m.cursor + 1 ELSE m.cursor
           /\ Consume(ln, m, x).done = IF Fits(ln, m, x) THEN Append(m.done, x) ELSE m.done
  <1>0. m \in MapType
    BY DEF GoodMap
  <1>1. CASE Fits(ln, m, x)
    <2>1. Consume(ln, m, x) = Advanced(m, x)
      BY <1>1, ConsumeIs
    <2>2. Advanced(m, x).cursor = m.cursor + 1 /\ Advanced(m, x).done = Append(m.done, x)
      BY <1>0 DEF Advanced, MapType
    <2> QED BY <1>1, <2>1, <2>2
  <1>2. CASE ~Fits(ln, m, x) /\ IsExtra(x) /\ Owed(m, x) # {}
    BY <1>0, <1>2, ConsumeIs DEF Resolved, MapType
  <1>3. CASE ~Fits(ln, m, x) /\ IsExtra(x) /\ Owed(m, x) = {}
    <2>1. Consume(ln, m, x) = Added(m, x)
      BY <1>3, ConsumeIs
    <2>2. Added(m, x).cursor = m.cursor /\ Added(m, x).done = m.done
      BY <1>0 DEF Added, WithRow, MapType
    <2> QED BY <1>3, <2>1, <2>2
  <1>4. CASE ~Fits(ln, m, x) /\ ~IsExtra(x)
    BY <1>0, <1>4, ConsumeIs DEF Missed, MapType
  <1> QED BY <1>1, <1>2, <1>3, <1>4

\* Of the first k steps, two maps have as many done, by the same exchanges.
Agree(k, m, n) ==
    /\ m.cursor < k => n.cursor = m.cursor
    /\ m.cursor >= k => n.cursor >= k
    /\ \A i \in 1..k : i <= m.cursor => n.done[i] = m.done[i]

LEMMA ConsumeAgrees ==
    ASSUME NEW ln \in Seq(Step), NEW lm \in Seq(Step), NEW k \in Nat,
           k <= Len(ln), k <= Len(lm), \A j \in 1..k : ln[j] = lm[j],
           NEW m \in GoodMap, NEW n \in GoodMap, NEW x \in Exchange, Agree(k, m, n)
    PROVE  Agree(k, Consume(ln, m, x), Consume(lm, n, x))
  <1>0. /\ m.cursor \in Nat /\ n.cursor \in Nat /\ Len(m.done) = m.cursor
        /\ Len(n.done) = n.cursor /\ m.done \in Seq(Exchange) /\ n.done \in Seq(Exchange)
    BY DEF GoodMap, MapType
  <1> DEFINE p == Consume(ln, m, x)
             q == Consume(lm, n, x)
  <1> SUFFICES Agree(k, p, q)
    OBVIOUS
  <1>1. /\ p.cursor = IF Fits(ln, m, x) THEN m.cursor + 1 ELSE m.cursor
        /\ p.done = IF Fits(ln, m, x) THEN Append(m.done, x) ELSE m.done
    BY CursorMoves
  <1>2. /\ q.cursor = IF Fits(lm, n, x) THEN n.cursor + 1 ELSE n.cursor
        /\ q.done = IF Fits(lm, n, x) THEN Append(n.done, x) ELSE n.done
    BY CursorMoves
  <1>3. /\ \A i \in 1..m.cursor : p.done[i] = m.done[i]
        /\ \A i \in 1..n.cursor : q.done[i] = n.done[i]
    BY <1>0, <1>1, <1>2
  <1> HIDE DEF p, q
  <1>4. CASE m.cursor < k
    <2>1. n.cursor = m.cursor /\ \A i \in 1..m.cursor : n.done[i] = m.done[i]
      BY <1>0, <1>4 DEF Agree
    <2>2. Fits(ln, m, x) <=> Fits(lm, n, x)
      <3>1. m.cursor + 1 \in 1..k /\ ln[m.cursor + 1] = lm[m.cursor + 1]
        BY <1>0, <1>4
      <3> QED BY <1>0, <1>4, <2>1, <3>1 DEF Fits
    <2>3. CASE Fits(ln, m, x)
      <3>1. p.cursor = m.cursor + 1 /\ q.cursor = m.cursor + 1
        BY <1>1, <1>2, <2>1, <2>2, <2>3
      <3>2. p.done[m.cursor + 1] = x /\ q.done[m.cursor + 1] = x
        BY <1>0, <1>1, <1>2, <2>1, <2>2, <2>3
      <3>3. \A i \in 1..k : i <= p.cursor => q.done[i] = p.done[i]
        BY <1>0, <1>3, <2>1, <3>1, <3>2
      <3> QED BY <1>0, <3>1, <3>3 DEF Agree
    <2>4. CASE ~Fits(ln, m, x)
      <3>1. p.cursor = m.cursor /\ q.cursor = m.cursor /\ p.done = m.done /\ q.done = n.done
        BY <1>1, <1>2, <2>1, <2>2, <2>4
      <3> QED BY <1>0, <2>1, <3>1 DEF Agree
    <2> QED BY <2>3, <2>4
  <1>5. CASE m.cursor >= k
    <2>1. n.cursor >= k /\ \A i \in 1..k : n.done[i] = m.done[i]
      BY <1>0, <1>5 DEF Agree
    <2>2. p.cursor >= k /\ q.cursor >= k
      BY <1>0, <1>1, <1>2, <1>5, <2>1
    <2>3. \A i \in 1..k : q.done[i] = p.done[i]
      BY <1>0, <1>3, <1>5, <2>1
    <2> QED BY <1>0, <1>1, <2>2, <2>3 DEF Agree
  <1> QED BY <1>0, <1>4, <1>5

\* No build runs past its line.
LEMMA CursorInLine ==
    ASSUME NEW ln \in Seq(Step), NEW s \in Seq(Exchange)
    PROVE  Build(ln, s).cursor <= Len(ln)
  <1>1. PICK g : IsBuild(ln, g, s, Len(s))
    BY BuildExists
  <1> DEFINE S == {n \in Nat : n <= Len(s) => g[n].cursor <= Len(ln)}
  <1>2. 0 \in S
    BY <1>1 DEF IsBuild, EmptyMap
  <1>3. ASSUME NEW n \in Nat, n \in S PROVE n + 1 \in S
    <2> SUFFICES ASSUME n + 1 <= Len(s) PROVE g[n + 1].cursor <= Len(ln)
      OBVIOUS
    <2>1. n + 1 \in 1..Len(s) /\ (n + 1) - 1 = n /\ n \in 0..Len(s) /\ s[n + 1] \in Exchange
      OBVIOUS
    <2>2. g[n] \in GoodMap /\ g[n].cursor <= Len(ln)
      BY <1>1, <1>3, <2>1 DEF IsBuild
    <2>3. g[n + 1] = After(ln, s, n + 1, g[n])
      BY <1>1, <2>1 DEF IsBuild
    <2>4. CASE Seen(s, n + 1)
      BY <2>2, <2>3, <2>4 DEF After
    <2>5. CASE ~Seen(s, n + 1)
      <3>1. g[n + 1] = Consume(ln, g[n], s[n + 1])
        BY <2>3, <2>5 DEF After
      <3>2. g[n].cursor \in Nat
        BY <2>2 DEF GoodMap, MapType
      <3>3. g[n + 1].cursor =
              IF Fits(ln, g[n], s[n + 1]) THEN g[n].cursor + 1 ELSE g[n].cursor
        BY <2>1, <2>2, <3>1, CursorMoves
      <3>4. Fits(ln, g[n], s[n + 1]) => g[n].cursor < Len(ln)
        BY DEF Fits
      <3>5. Len(ln) \in Nat
        OBVIOUS
      <3> QED BY <2>2, <3>2, <3>3, <3>4, <3>5
    <2> QED BY <2>4, <2>5
  <1> HIDE DEF S
  <1>4. Len(s) \in S
    BY <1>2, <1>3, EveryNumber
  <1> QED BY <1>1, <1>4, BuildIs DEF S

\* What a line and another that begins alike have in common is completed by
\* the same exchanges.
LEMMA CommonStepsStand ==
    ASSUME NEW ln \in Seq(Step), NEW lm \in Seq(Step), NEW s \in Seq(Exchange), NEW k \in Nat,
           k <= Len(ln), k <= Len(lm), \A j \in 1..k : ln[j] = lm[j]
    PROVE  Agree(k, Build(ln, s), Build(lm, s))
  <1>1. PICK g : IsBuild(ln, g, s, Len(s))
    BY BuildExists
  <1>2. PICK h : IsBuild(lm, h, s, Len(s))
    BY BuildExists
  <1> DEFINE S == {n \in Nat : n <= Len(s) => Agree(k, g[n], h[n])}
  <1>3. 0 \in S
    <2>1. g[0] = EmptyMap /\ h[0] = EmptyMap
      BY <1>1, <1>2 DEF IsBuild
    <2>2. Agree(k, EmptyMap, EmptyMap)
      BY DEF Agree
    <2> QED BY <2>1, <2>2
  <1>4. ASSUME NEW n \in Nat, n \in S PROVE n + 1 \in S
    <2> SUFFICES ASSUME n + 1 <= Len(s) PROVE Agree(k, g[n + 1], h[n + 1])
      OBVIOUS
    <2>0. n + 1 \in 1..Len(s) /\ (n + 1) - 1 = n /\ n \in 0..Len(s)
      OBVIOUS
    <2>1. n + 1 \in 1..Len(s) /\ (n + 1) - 1 = n /\ n \in 0..Len(s) /\ s[n + 1] \in Exchange
      BY <2>0
    <2>2. g[n] \in GoodMap /\ h[n] \in GoodMap /\ Agree(k, g[n], h[n])
      <3>1. g[n] \in GoodMap /\ h[n] \in GoodMap
        BY <1>1, <1>2, <2>1 DEF IsBuild
      <3>2. Agree(k, g[n], h[n])
        BY <1>4, <2>0
      <3> QED BY <3>1, <3>2
    <2>3. g[n + 1] = After(ln, s, n + 1, g[n]) /\ h[n + 1] = After(lm, s, n + 1, h[n])
      BY <1>1, <1>2, <2>1 DEF IsBuild
    <2>4. Agree(k, Consume(ln, g[n], s[n + 1]), Consume(lm, h[n], s[n + 1]))
      BY <2>1, <2>2, ConsumeAgrees
    <2> QED BY <2>2, <2>3, <2>4 DEF After
  <1> HIDE DEF S
  <1>5. Len(s) \in S
    BY <1>3, <1>4, EveryNumber
  <1>6. Build(ln, s) = g[Len(s)] /\ Build(lm, s) = h[Len(s)]
    BY <1>1, <1>2, BuildIs
  <1> QED BY <1>5, <1>6 DEF S

----------------------------------------------------------------------------
(***************************************************************************)
(* A run under way (Turns): every map it derives is the record's, and a    *)
(* record that only grows takes nothing back that the line leaves in place.*)
(***************************************************************************)

TurnPlace == {"idle", "dispatch", "marked", "saving", "sending", "withdrawn", "form"}
Nothing == [type |-> NoKey, id |-> 0]

TurnRow == [pc : TurnPlace, x : Exchange \cup {Nothing}, key : Key \cup {NoKey}]
CallRow == [pc : {"idle", "arrived", "saving"}, x : Exchange \cup {Nothing},
            key : Key \cup {NoKey}]

TurnsTypeOK ==
    /\ apiList \in Seq(Exchange) /\ flowSequence \in Seq(Step) /\ faults \in Nat /\ used \in 0..MaxId
    /\ turn \in [Turn -> TurnRow] /\ call \in [Call -> CallRow]
    /\ \A t \in Turn : turn[t].pc # "idle" => turn[t].x \in Exchange /\ turn[t].key \in Key
    /\ \A c \in Call : /\ call[c].pc # "idle" => call[c].x \in Exchange
                       /\ call[c].pc = "saving" => call[c].key \in Key

TurnsInv == TurnsTypeOK /\ mapped = Build(flowSequence, apiList)

\* A declared step has a type.
LEMMA StepsAreSteps ==
    ASSUME TurnsTypeOK
    PROVE
    /\ \A s \in Steps : s \in Step /\ s.type \in Type /\ s.key \in Key
    /\ \A m \in GoodMap : HasHead(m) => HeadStep(m) \in Steps
    /\ \A m \in GoodMap : \A r \in m.extras :
          StepWithKey(r.key) \in Steps /\ r.key \in Key /\ r.id \in Id
  <1>1. \A s \in Steps : s \in Step /\ s.type \in Type /\ s.key \in Key
    <2>1. Extra \subseteq Step /\ flowSequence \in Seq(Step)
      BY FlowAssumption DEF TurnsTypeOK
    <2>2. \A i \in 1..Len(flowSequence) : flowSequence[i] \in Step
      BY <2>1
    <2>3. Steps \subseteq Step
      BY <2>1, <2>2 DEF Steps
    <2> QED BY <2>3 DEF Step
  <1>2. ASSUME NEW m \in GoodMap, HasHead(m) PROVE HeadStep(m) \in Steps
    <2>1. m.cursor + 1 \in 1..Len(flowSequence)
      BY <1>2 DEF GoodMap, MapType, HasHead, TurnsTypeOK
    <2> QED BY <2>1 DEF HeadStep, Steps
  <1>3. ASSUME NEW m \in GoodMap, NEW r \in m.extras
        PROVE  StepWithKey(r.key) \in Steps /\ r.key \in Key /\ r.id \in Id
    <2>1. PICK e \in Extra : e.key = r.key
      BY DEF GoodMap
    <2>2. e \in Steps
      BY DEF Steps
    <2>3. StepWithKey(r.key) \in Steps
      BY <2>1, <2>2 DEF StepWithKey
    <2>4. r \in ExtraRow
      BY DEF GoodMap, MapType
    <2> QED BY <2>3, <2>4 DEF ExtraRow
  <1> QED BY <1>1, <1>2, <1>3

LEMMA IdIs ==
    ASSUME TurnsTypeOK, NewId
    PROVE  used' \in Id /\ used' \in 0..MaxId
  BY TurnsAssumption DEF TurnsTypeOK, NewId

\* A turn that takes an exchange up keeps the types.
LEMMA TakenUp ==
    ASSUME TurnsTypeOK, NEW t \in Turn, NEW pc \in TurnPlace, NEW x \in Exchange, NEW key \in Key,
           TakesUp(t, pc, x, key), UNCHANGED <<apiList, flowSequence, mapped, call>>,
           faults' \in Nat, used' \in 0..MaxId
    PROVE  TurnsTypeOK'
  <1> DEFINE row == [pc |-> pc, x |-> x, key |-> key]
  <1>1. /\ turn' = [turn EXCEPT ![t] = row] /\ row.x \in Exchange /\ row.key \in Key
        /\ row \in TurnRow
    BY DEF TakesUp, TurnRow
  <1> HIDE DEF row
  <1> QED BY <1>1 DEF TurnsTypeOK

\* So does a call that arrives.
LEMMA MatchedKeyIs ==
    ASSUME TurnsTypeOK, mapped \in GoodMap, NEW x \in Exchange
    PROVE  MatchedKey(x) \in Key \cup {NoKey}
  <1>1. ASSUME Fits(flowSequence, mapped, x) PROVE HeadStep(mapped).key \in Key
    <2>1. HasHead(mapped)
      BY <1>1 DEF Fits, HasHead
    <2> QED BY <2>1, StepsAreSteps
  <1>2. IsExtra(x) => ExtraFor(x).key \in Key
    BY ExtraForIsExtra
  <1> QED BY <1>1, <1>2 DEF MatchedKey

LEMMA ArrivedIs ==
    ASSUME TurnsTypeOK, mapped \in GoodMap, NEW c \in Call, NEW x \in Exchange, Arrives(c, x),
           UNCHANGED <<apiList, flowSequence, mapped, turn, faults>>, used' \in 0..MaxId
    PROVE  TurnsTypeOK'
  <1> DEFINE row == [pc |-> "arrived", x |-> x, key |-> MatchedKey(x)]
  <1>1. /\ call' = [call EXCEPT ![c] = row] /\ row.x \in Exchange /\ row.pc = "arrived"
        /\ row \in CallRow
    BY MatchedKeyIs DEF Arrives, CallRow
  <1> HIDE DEF row
  <1> QED BY <1>1 DEF TurnsTypeOK

\* And a turn that goes on, or is over.
LEMMA TurnGoesOn ==
    ASSUME TurnsTypeOK, NEW t \in Turn, turn[t].pc # "idle",
           \/ \E pc \in TurnPlace : turn' = [turn EXCEPT ![t].pc = pc]
           \/ turn' = [turn EXCEPT ![t] = IdleTurn],
           apiList' \in Seq(Exchange), flowSequence' \in Seq(Step),
           UNCHANGED <<call, used>>, faults' \in Nat
    PROVE  TurnsTypeOK'
  <1>1. CASE turn' = [turn EXCEPT ![t] = IdleTurn]
    <2>1. IdleTurn.pc = "idle" /\ IdleTurn \in TurnRow
      BY DEF IdleTurn, TurnPlace, Nothing, TurnRow
    <2> QED BY <1>1, <2>1 DEF TurnsTypeOK
  <1>2. ASSUME NEW pc \in TurnPlace, turn' = [turn EXCEPT ![t].pc = pc] PROVE TurnsTypeOK'
    <2> DEFINE row == [turn[t] EXCEPT !.pc = pc]
    <2>1. turn[t] \in TurnRow /\ turn[t].x \in Exchange /\ turn[t].key \in Key
      BY DEF TurnsTypeOK
    <2>2. /\ row \in TurnRow /\ row.x \in Exchange /\ row.key \in Key
          /\ turn' = [turn EXCEPT ![t] = row]
      BY <1>2, <2>1 DEF TurnsTypeOK, TurnRow
    <2> HIDE DEF row
    <2> QED BY <2>2 DEF TurnsTypeOK
  <1> QED BY <1>1, <1>2

\* And a call that has been served, or goes on to save.
LEMMA CallGoesOn ==
    ASSUME TurnsTypeOK, NEW c \in Call, call[c].pc # "idle",
           \/ call' = [call EXCEPT ![c] = IdleCall]
           \/ call[c].key # NoKey /\ call' = [call EXCEPT ![c].pc = "saving"],
           apiList' \in Seq(Exchange), flowSequence' \in Seq(Step),
           UNCHANGED <<turn, used, faults>>
    PROVE  TurnsTypeOK'
  <1>1. CASE call' = [call EXCEPT ![c] = IdleCall]
    <2>1. IdleCall.pc = "idle" /\ IdleCall \in CallRow
      BY DEF IdleCall, IdleTurn, Nothing, CallRow
    <2> QED BY <1>1, <2>1 DEF TurnsTypeOK
  <1>2. CASE call[c].key # NoKey /\ call' = [call EXCEPT ![c].pc = "saving"]
    <2> DEFINE row == [call[c] EXCEPT !.pc = "saving"]
    <2>1. call[c] \in CallRow /\ call[c].x \in Exchange /\ call[c].key \in Key
      BY <1>2 DEF TurnsTypeOK, CallRow
    <2>2. /\ row \in CallRow /\ row.x \in Exchange /\ row.key \in Key
          /\ call' = [call EXCEPT ![c] = row]
      BY <1>2, <2>1 DEF TurnsTypeOK, CallRow
    <2> HIDE DEF row
    <2> QED BY <2>2 DEF TurnsTypeOK
  <1> QED BY <1>1, <1>2

\* What a step saves leaves a line of steps.
LEMMA SavedIsALine ==
    ASSUME NEW key \in Key, SaveBusinessData(key)
    PROVE  flowSequence' \in Seq(Step)
  <1>1. PICK more \in Saves[key] : flowSequence' = Sequence \o more
    BY DEF SaveBusinessData
  <1>2. Sequence \in Seq(Step) /\ more \in Seq(Step)
    BY TurnsAssumption, FlowAssumption
  <1> QED BY <1>1, <1>2

LEMMA WithoutOne ==
    ASSUME NEW s \in Seq(Exchange), NEW i \in 1..Len(s)
    PROVE  RemoveAt(s, i) \in Seq(Exchange)
  <1>1. SubSeq(s, 1, i - 1) \in Seq(Exchange) /\ SubSeq(s, i + 1, Len(s)) \in Seq(Exchange)
    OBVIOUS
  <1> QED BY <1>1 DEF RemoveAt

\* What a step does to the record.
LEMMA RecordMoves ==
    ASSUME TurnsInv, [TurnsNext]_turnsVars
    PROVE  /\ TurnsTypeOK'
           /\ \/ UNCHANGED <<apiList, flowSequence, mapped>>
              \/ \E x \in Exchange : Records(Append(apiList, x))
              \/ \E key \in Key : SaveBusinessData(key)
              \/ faults' > faults /\ \E i \in 1..Len(apiList) : Records(RemoveAt(apiList, i))
  <1> DEFINE Goal == /\ TurnsTypeOK'
                     /\ \/ UNCHANGED <<apiList, flowSequence, mapped>>
                        \/ \E x \in Exchange : Records(Append(apiList, x))
                        \/ \E key \in Key : SaveBusinessData(key)
                        \/ /\ faults' > faults
                           /\ \E i \in 1..Len(apiList) : Records(RemoveAt(apiList, i))
  <1>0. /\ TurnsTypeOK /\ mapped \in GoodMap /\ apiList \in Seq(Exchange) /\ faults \in Nat
        /\ used \in 0..MaxId /\ flowSequence \in Seq(Step)
    BY BuildIsGood DEF TurnsInv, TurnsTypeOK
  <1> SUFFICES Goal
    OBVIOUS
  <1>1. ASSUME NEW t \in Turn, ProceedDispatch(t) PROVE Goal
    <2>1. HeadStep(mapped).type \in Type /\ HeadStep(mapped).key \in Key /\ used' \in Id
          /\ used' \in 0..MaxId
      BY <1>0, <1>1, StepsAreSteps, IdIs DEF ProceedDispatch
    <2>2. [type |-> HeadStep(mapped).type, id |-> used'] \in Exchange /\ "dispatch" \in TurnPlace
      BY <2>1 DEF Exchange, TurnPlace
    <2>3. TakesUp(t, "dispatch", [type |-> HeadStep(mapped).type, id |-> used'],
                  HeadStep(mapped).key)
          /\ UNCHANGED <<apiList, flowSequence, mapped, call, faults>>
      BY <1>1 DEF ProceedDispatch
    <2> QED BY <1>0, <2>1, <2>2, <2>3, TakenUp
  <1>2. ASSUME NEW t \in Turn, ProceedForm(t) PROVE Goal
    <2>1. HeadStep(mapped).type \in Type /\ HeadStep(mapped).key \in Key /\ used' \in Id
          /\ used' \in 0..MaxId
      BY <1>0, <1>2, StepsAreSteps, IdIs DEF ProceedForm
    <2>2. [type |-> HeadStep(mapped).type, id |-> used'] \in Exchange /\ "form" \in TurnPlace
      BY <2>1 DEF Exchange, TurnPlace
    <2>3. TakesUp(t, "form", [type |-> HeadStep(mapped).type, id |-> used'], HeadStep(mapped).key)
          /\ UNCHANGED <<apiList, flowSequence, mapped, call, faults>>
      BY <1>2 DEF ProceedForm
    <2> QED BY <1>0, <2>1, <2>2, <2>3, TakenUp
  <1>3. ASSUME NEW t \in Turn, ProceedReply(t) PROVE Goal
    <2>1. PICK r \in Ready(mapped) :
          \/ /\ TakesUp(t, "dispatch", [type |-> StepWithKey(r.key).type, id |-> r.id], r.key)
             /\ UNCHANGED <<used, faults>>
          \/ /\ faults' = faults + 1 /\ NewId
             /\ TakesUp(t, "dispatch", [type |-> StepWithKey(r.key).type, id |-> used'], r.key)
      BY <1>3 DEF ProceedReply
    <2>2. r \in mapped.extras
      BY DEF Ready, OpenExtras
    <2>3. StepWithKey(r.key).type \in Type /\ r.key \in Key /\ r.id \in Id
      BY <1>0, <2>2, StepsAreSteps
    <2>4. "dispatch" \in TurnPlace /\ UNCHANGED <<apiList, flowSequence, mapped, call>>
      BY <1>3 DEF ProceedReply, TurnPlace
    <2>5. CASE /\ TakesUp(t, "dispatch", [type |-> StepWithKey(r.key).type, id |-> r.id], r.key)
               /\ UNCHANGED <<used, faults>>
      <3>1. [type |-> StepWithKey(r.key).type, id |-> r.id] \in Exchange
        BY <2>3 DEF Exchange
      <3> QED BY <1>0, <2>3, <2>4, <2>5, <3>1, TakenUp
    <2>6. CASE /\ faults' = faults + 1 /\ NewId
               /\ TakesUp(t, "dispatch", [type |-> StepWithKey(r.key).type, id |-> used'], r.key)
      <3>1. [type |-> StepWithKey(r.key).type, id |-> used'] \in Exchange /\ used' \in 0..MaxId
        BY <1>0, <2>3, <2>6, IdIs DEF Exchange
      <3> QED BY <1>0, <2>3, <2>4, <2>6, <3>1, TakenUp
    <2> QED BY <2>1, <2>5, <2>6
  <1>4. ASSUME NEW t \in Turn, NEW e \in Extra, TriggerExtra(t, e) PROVE Goal
    <2>1. e.type \in Type /\ e.key \in Key /\ used' \in Id /\ used' \in 0..MaxId
      BY <1>0, <1>4, FlowAssumption, IdIs DEF TriggerExtra, Step
    <2>2. [type |-> e.type, id |-> used'] \in Exchange /\ "dispatch" \in TurnPlace
      BY <2>1 DEF Exchange, TurnPlace
    <2>3. TakesUp(t, "dispatch", [type |-> e.type, id |-> used'], e.key)
          /\ UNCHANGED <<apiList, flowSequence, mapped, call, faults>>
      BY <1>4 DEF TriggerExtra
    <2> QED BY <1>0, <2>1, <2>2, <2>3, TakenUp
  <1>5. ASSUME NEW t \in Turn, Mark(t) \/ Unmark(t) PROVE Goal
    <2>1. /\ turn[t].pc # "idle" /\ UNCHANGED <<apiList, flowSequence, mapped, call, used, faults>>
          /\ \/ \E pc \in TurnPlace : turn' = [turn EXCEPT ![t].pc = pc]
             \/ turn' = [turn EXCEPT ![t] = IdleTurn]
      BY <1>5 DEF Mark, Unmark, TurnPlace
    <2> QED BY <1>0, <2>1, TurnGoesOn
  <1>6. ASSUME NEW t \in Turn, RecordSend(t) \/ RecordForm(t) PROVE Goal
    <2>1. /\ turn[t].pc # "idle" /\ UNCHANGED <<call, used, faults>>
          /\ Records(Append(apiList, turn[t].x))
          /\ \/ \E pc \in TurnPlace : turn' = [turn EXCEPT ![t].pc = pc]
             \/ turn' = [turn EXCEPT ![t] = IdleTurn]
      BY <1>6 DEF RecordSend, RecordForm, TurnPlace
    <2>2. turn[t].x \in Exchange
      BY <1>0, <2>1 DEF TurnsTypeOK
    <2>3. apiList' \in Seq(Exchange) /\ flowSequence' \in Seq(Step)
      BY <1>0, <2>1, <2>2 DEF Records
    <2> QED BY <1>0, <2>1, <2>2, <2>3, TurnGoesOn
  <1>13. ASSUME NEW t \in Turn, SaveSend(t) PROVE Goal
    <2>1. /\ turn[t].pc # "idle" /\ UNCHANGED <<apiList, call, used, faults>>
          /\ turn' = [turn EXCEPT ![t].pc = "sending"] /\ "sending" \in TurnPlace
          /\ SaveBusinessData(turn[t].key)
      BY <1>13 DEF SaveSend, SaveBusinessData, TurnPlace
    <2>2. turn[t].key \in Key
      BY <1>0, <2>1 DEF TurnsTypeOK
    <2>3. flowSequence' \in Seq(Step)
      BY <2>1, <2>2, SavedIsALine
    <2>4. TurnsTypeOK'
      BY <1>0, <2>1, <2>3, TurnGoesOn
    <2> QED BY <2>1, <2>2, <2>4
  <1>7. ASSUME NEW t \in Turn, Withdraw(t) PROVE Goal
    <2>1. PICK i \in 1..Len(apiList) : Records(RemoveAt(apiList, i))
      BY <1>7 DEF Withdraw
    <2>2. /\ turn[t].pc # "idle" /\ UNCHANGED <<call, used>> /\ faults' = faults + 1
          /\ \E pc \in TurnPlace : turn' = [turn EXCEPT ![t].pc = pc]
      BY <1>7 DEF Withdraw, TurnPlace
    <2>3. /\ apiList' \in Seq(Exchange) /\ flowSequence' \in Seq(Step)
          /\ faults' \in Nat /\ faults' > faults
      BY <1>0, <2>1, <2>2, WithoutOne DEF Records
    <2>4. TurnsTypeOK'
      BY <1>0, <2>2, <2>3, TurnGoesOn
    <2> QED BY <2>1, <2>3, <2>4
  <1>8. ASSUME NEW c \in Call, Answer(c) PROVE Goal
    <2>1. HeadStep(mapped).type \in Type /\ used' \in Id /\ used' \in 0..MaxId
      BY <1>0, <1>8, StepsAreSteps, IdIs DEF Answer
    <2>2. [type |-> HeadStep(mapped).type, id |-> used'] \in Exchange
      BY <2>1 DEF Exchange
    <2>3. Arrives(c, [type |-> HeadStep(mapped).type, id |-> used'])
          /\ UNCHANGED <<apiList, flowSequence, mapped, turn, faults>>
      BY <1>8 DEF Answer
    <2> QED BY <1>0, <2>1, <2>2, <2>3, ArrivedIs
  <1>9. ASSUME NEW c \in Call, Reply(c) PROVE Goal
    <2>1. PICK r \in OpenExtras(mapped) :
          Arrives(c, [type |-> StepWithKey(r.key).type, id |-> r.id])
      BY <1>9 DEF Reply
    <2>2. StepWithKey(r.key).type \in Type /\ r.id \in Id
      BY <1>0, StepsAreSteps DEF OpenExtras
    <2>3. [type |-> StepWithKey(r.key).type, id |-> r.id] \in Exchange
      BY <2>2 DEF Exchange
    <2>4. UNCHANGED <<apiList, flowSequence, mapped, turn, used, faults>>
      BY <1>9 DEF Reply
    <2> QED BY <1>0, <2>1, <2>3, <2>4, ArrivedIs
  <1>10. ASSUME NEW c \in Call, Stray(c) PROVE Goal
    <2>1. UNCHANGED <<apiList, flowSequence, mapped, turn, faults>>
      BY <1>10 DEF Stray
    <2>2. CASE \E x \in OnTheWire : Arrives(c, x) /\ UNCHANGED used
      BY <1>0, <2>1, <2>2, ArrivedIs DEF OnTheWire
    <2>3. ASSUME NEW s \in Steps, NewId, Arrives(c, [type |-> s.type, id |-> used']) PROVE Goal
      <3>1. [type |-> s.type, id |-> used'] \in Exchange /\ used' \in 0..MaxId
        BY <1>0, <2>3, StepsAreSteps, IdIs DEF Exchange
      <3> QED BY <1>0, <2>1, <2>3, <3>1, ArrivedIs
    <2> QED BY <1>10, <2>2, <2>3 DEF Stray
  <1>11. ASSUME NEW c \in Call, RecordCall(c) PROVE Goal
    <2>1. /\ call[c].pc # "idle" /\ UNCHANGED <<turn, used, faults>>
          /\ Records(Append(apiList, call[c].x))
          /\ \/ call' = [call EXCEPT ![c] = IdleCall]
             \/ call[c].key # NoKey /\ call' = [call EXCEPT ![c].pc = "saving"]
      BY <1>11 DEF RecordCall
    <2>2. call[c].x \in Exchange
      BY <1>0, <2>1 DEF TurnsTypeOK
    <2>3. apiList' \in Seq(Exchange) /\ flowSequence' \in Seq(Step)
      BY <1>0, <2>1, <2>2 DEF Records
    <2>4. TurnsTypeOK'
      BY <1>0, <2>1, <2>3, CallGoesOn
    <2> QED BY <2>1, <2>2, <2>4
  <1>14. ASSUME NEW c \in Call, SaveCall(c) PROVE Goal
    <2>1. /\ call[c].pc = "saving" /\ UNCHANGED <<apiList, turn, used, faults>>
          /\ call' = [call EXCEPT ![c] = IdleCall] /\ SaveBusinessData(call[c].key)
      BY <1>14 DEF SaveCall, SaveBusinessData
    <2>2. call[c].key \in Key
      BY <1>0, <2>1 DEF TurnsTypeOK
    <2>3. flowSequence' \in Seq(Step)
      BY <2>1, <2>2, SavedIsALine
    <2>4. TurnsTypeOK'
      BY <1>0, <2>1, <2>3, CallGoesOn
    <2> QED BY <2>1, <2>2, <2>4
  <1>12. CASE UNCHANGED turnsVars
    BY <1>0, <1>12 DEF turnsVars, TurnsTypeOK
  <1> QED
    BY <1>1, <1>2, <1>3, <1>4, <1>5, <1>6, <1>7, <1>8, <1>9, <1>10, <1>11, <1>12,
       <1>13, <1>14
    DEF TurnsNext, Serve, Dispatching, Receiving

\* Of a run under way, for any flow and any number of calls side by side:
\* what a read of the record derives is Build of it, on the line of the moment,
\* in every state, whoever recorded, repeated, withdrew or saved what in
\* between; and the types.
THEOREM MapIsTheRecords == TurnsSpec => []TurnsInv
  <1>1. TurnsInit => TurnsInv
    <2> SUFFICES ASSUME TurnsInit PROVE TurnsInv
      OBVIOUS
    <2>1. /\ IdleTurn \in TurnRow /\ IdleTurn.pc = "idle"
          /\ IdleCall \in CallRow /\ IdleCall.pc = "idle"
      BY DEF IdleTurn, IdleCall, TurnPlace, Nothing, TurnRow, CallRow
    <2>2. TurnsTypeOK
      BY <2>1, TurnsAssumption, FlowAssumption DEF TurnsInit, TurnsTypeOK
    <2> QED BY <2>2, BuildOfNothing DEF TurnsInit, TurnsInv
  <1>2. TurnsInv /\ [TurnsNext]_turnsVars => TurnsInv'
    BY RecordMoves DEF TurnsInv, Records, SaveBusinessData
  <1> QED BY <1>1, <1>2, PTL DEF TurnsSpec

\* What a step that moves the record or the line leaves of a read.
Stands ==
    /\ \A i \in 1..mapped.cursor :
          LineStands(i) => i <= mapped'.cursor /\ mapped'.done[i] = mapped.done[i]
    /\ flowSequence' = flowSequence =>
          /\ mapped.missed \subseteq mapped'.missed
          /\ {r \in mapped.extras : r.status = "COMPLETE"} \subseteq mapped'.extras

LEMMA SavesLeaveStanding ==
    ASSUME TurnsInv, NEW key \in Key, SaveBusinessData(key)
    PROVE  Stands
  <1>1. /\ mapped = Build(flowSequence, apiList) /\ apiList \in Seq(Exchange)
        /\ flowSequence \in Seq(Step) /\ flowSequence' \in Seq(Step)
        /\ mapped' = Build(flowSequence', apiList)
    BY SavedIsALine DEF TurnsInv, TurnsTypeOK, SaveBusinessData
  <1>2. mapped.cursor \in Nat /\ mapped.cursor <= Len(flowSequence)
    BY <1>1, BuildIsGood, CursorInLine DEF GoodMap, MapType
  <1>3. ASSUME NEW i \in 1..mapped.cursor, LineStands(i)
        PROVE  i <= mapped'.cursor /\ mapped'.done[i] = mapped.done[i]
    <2>1. /\ i \in Nat /\ i <= Len(flowSequence) /\ i <= Len(flowSequence')
          /\ \A j \in 1..i : flowSequence[j] = flowSequence'[j]
      BY <1>2, <1>3 DEF LineStands
    <2>2. Agree(i, mapped, mapped')
      BY <1>1, <2>1, CommonStepsStand
    <2> QED BY <1>2, <2>2 DEF Agree
  <1>4. flowSequence' = flowSequence => mapped' = mapped
    BY <1>1
  <1> QED BY <1>3, <1>4 DEF Stands

\* What one read of the map reports done, filed or found, no later read takes
\* back, but for a send that never crossed: for any flow, any number of calls
\* side by side and any repeats, a record's new exchange moves the map, and
\* none of the resolvers takes back; and the data that rewrites the line takes
\* back no step done before the first that it changed.
THEOREM ReadsAreNeverTakenBack == TurnsSpec => NothingIsTakenBack
  <1>1. TurnsInv /\ [TurnsNext]_turnsVars => [faults' > faults \/ Stands]_turnsVars
    <2> SUFFICES ASSUME TurnsInv, [TurnsNext]_turnsVars
                 PROVE  faults' > faults \/ Stands
      OBVIOUS
    <2>1. /\ mapped = Build(flowSequence, apiList) /\ apiList \in Seq(Exchange)
          /\ mapped \in GoodMap
      BY BuildIsGood DEF TurnsInv, TurnsTypeOK
    <2>2. Keeps(mapped, mapped') => Stands
      BY DEF Keeps, Stands
    <2>3. mapped' = mapped => Keeps(mapped, mapped')
      BY <2>1 DEF Keeps, GoodMap, MapType
    <2>4. ASSUME NEW x \in Exchange, Records(Append(apiList, x)) PROVE Stands
      <3>1. mapped' = IF Recorded(apiList, x) THEN mapped ELSE Consume(flowSequence, mapped, x)
        BY <2>1, <2>4, BuildOfAppend DEF Records
      <3> QED BY <2>1, <2>2, <2>3, <3>1, ConsumeKeeps
    <2> QED BY <2>2, <2>3, <2>4, SavesLeaveStanding, RecordMoves
  <1>2. [faults' > faults \/ Stands]_turnsVars <=>
          [\/ faults' > faults
           \/ /\ \A i \in 1..mapped.cursor :
                    LineStands(i) => i <= mapped'.cursor /\ mapped'.done[i] = mapped.done[i]
              /\ flowSequence' = flowSequence =>
                    /\ mapped.missed \subseteq mapped'.missed
                    /\ {r \in mapped.extras : r.status = "COMPLETE"}
                         \subseteq mapped'.extras]_turnsVars
    BY DEF Stands
  <1> QED BY <1>1, <1>2, MapIsTheRecords, PTL DEF TurnsSpec, NothingIsTakenBack
=============================================================================
