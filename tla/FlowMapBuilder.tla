--------------------------- MODULE FlowMapBuilder ---------------------------
(***************************************************************************)
(* One FlowMapBuilder.build over a list of recorded exchanges: reduce the  *)
(* list to one row per exchange, replay the rows through the resolvers,    *)
(* then lay out the rest of the line as pending steps.  Rows are replayed  *)
(* by seq, which is the order of the list (RecordStore), so sortForReplay  *)
(* changes nothing.                                                        *)
(***************************************************************************)
EXTENDS FlowMap

CONSTANT MaxList    \* bound: recorded exchanges

VARIABLES
    line,       \* flow.sequence and the run's MORE_SEQUENCE
    list,       \* transactionData.apiList
    read,       \* reduceApiDataList: entries taken from it
    rows,       \* reduceApiDataList: one per exchange, in order of arrival
    replayed,   \* build: rows offered to the resolvers
    map         \* #mappedFlow and #cursor

vars == <<line, list, read, rows, replayed, map>>

Lists == UNION {[1..n -> Exchange] : n \in 0..MaxList}

BuildInit ==
    /\ line \in {Sequence \o more : more \in MoreSequences}
    /\ list \in Lists
    /\ read = 0 /\ rows = <<>>
    /\ replayed = 0 /\ map = EmptyMap

\* Mutant: a row per recorded entry.
ReduceNothing ==
    /\ read < Len(list)
    /\ read' = read + 1
    /\ rows' = Append(rows, list[read + 1])
    /\ UNCHANGED <<line, list, replayed, map>>

\* reduceApiDataList: the first of an exchange makes its row, later ones only
\* add their payloads to it.
Reduce ==
    /\ read < Len(list)
    /\ read' = read + 1
    /\ rows' = IF \E i \in 1..Len(rows) : rows[i] = list[read + 1] THEN rows
               ELSE Append(rows, list[read + 1])
    /\ UNCHANGED <<line, list, replayed, map>>

\* The next row, once all are there.
Offered(x) ==
    /\ read = Len(list) /\ replayed < Len(rows)
    /\ x = rows[replayed + 1]
    /\ replayed' = replayed + 1
    /\ UNCHANGED <<line, list, read, rows>>

SequenceResolver(x) == Offered(x) /\ Fits(line, map, x) /\ map' = Advanced(map, x)

ExtrasResolver(x) ==
    /\ Offered(x) /\ ~Fits(line, map, x) /\ IsExtra(x)
    /\ map' = IF Owed(map, x) # {} THEN Resolved(map, x) ELSE Added(map, x)

MissedResolver(x) ==
    Offered(x) /\ ~Fits(line, map, x) /\ ~IsExtra(x) /\ map' = Missed(line, map, x)

BuildNext ==
    \/ Reduce
    \/ \E x \in Exchange :
          SequenceResolver(x) \/ ExtrasResolver(x) \/ MissedResolver(x)

BuildSpec == BuildInit /\ [][BuildNext]_vars

----------------------------------------------------------------------------
(***************************************************************************)
(* Properties.                                                             *)
(***************************************************************************)
MapType == [cursor : Nat, done : Seq(Exchange), extras : SUBSET ExtraRow,
            missed : SUBSET Finding]

BuildTypeOK ==
    /\ line \in Seq(Step)
    /\ list \in Seq(Exchange) /\ rows \in Seq(Exchange)
    /\ read \in 0..Len(list) /\ replayed \in 0..Len(rows)
    /\ map \in MapType

\* The first n rows hold, in order, exchanges of the types of the first k
\* steps.
Embeds(k, n) ==
    \E f \in [1..k -> 1..n] :
        /\ \A i, j \in 1..k : i < j => f[i] < f[j]
        /\ \A i \in 1..k : rows[f[i]].type = line[i].type

\* The cursor says how far the run has come: the first steps, as many as what
\* was recorded holds in their order, and not one fewer, however many
\* duplicates, extras and findings lie between (sequenceResolver).
CursorIsGreatest ==
    /\ map.cursor \in 0..Len(line)
    /\ Embeds(map.cursor, replayed)
    /\ map.cursor < Len(line) => ~Embeds(map.cursor + 1, replayed)

InLine(x) == \E i \in 1..Len(map.done) : map.done[i] = x
AmongExtras(x) == IsExtra(x) /\ RepliedAlready(map, ExtraFor(x).key, x.id)
AmongMissed(x) == \E m \in map.missed : m.exchange = x

\* Nothing recorded is lost or counted twice: a replayed exchange has
\* completed one step of the line, or is a completed extra, or is a finding,
\* and never two of these (build's resolvers in turn).
FiledOnce ==
    \A n \in 1..replayed :
        LET x == rows[n] IN
        /\ InLine(x) \/ AmongExtras(x) \/ AmongMissed(x)
        /\ ~(InLine(x) /\ AmongExtras(x))
        /\ ~(InLine(x) /\ AmongMissed(x))
        /\ ~(AmongExtras(x) /\ AmongMissed(x))

\* A reply is owed for exactly the extras that came unasked, name one and have
\* not had it: a placeholder is open as long as no exchange of the reply's type
\* under that id was filed as an extra, before or after (extrasResolver).
RepliesOwed ==
    \A e, p \in Extra : \A id \in Id :
        e.pair = p.key =>
            (([key |-> p.key, id |-> id, owes |-> e.key, status |-> "OPEN"] \in map.extras)
             <=> /\ [key |-> e.key, id |-> id, owes |-> NoPair,
                     status |-> "COMPLETE"] \in map.extras
                 /\ ~RepliedAlready(map, p.key, id))
=============================================================================
