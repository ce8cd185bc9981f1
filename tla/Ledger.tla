------------------------------- MODULE Ledger -------------------------------
(***************************************************************************)
(* What RecordService promises about a transaction's exchange list: every  *)
(* operation happens at once, on the list as it is at that instant.        *)
(*                                                                         *)
(* No locks, no copies, no payload store: the reader of flow_get_status    *)
(* may think of the record this way although the code loads a whole        *)
(* record, changes the copy and writes it back (RecordStore.tla).          *)
(***************************************************************************)
EXTENDS Integers, FiniteSets

CONSTANTS
    Txn,        \* transactions
    Author,     \* who may have made an entry, or left a note
    NoAuthor,   \* none of them
    Absent      \* stands where no record is

VARIABLES
    ledger,     \* ledger[t]: Absent, or the exchange list with its marks
    told        \* the entries waiters have been told of

ledgerVars == <<ledger, told>>

State == {"in_flight", "settled", "failed"}
Entry == [seq : Nat \ {0}, from : Author, state : State]
List == [seq : Nat, entries : SUBSET Entry, latest : Author \cup {NoAuthor},
         attention : Author \cup {NoAuthor}, abandoned : BOOLEAN]

Empty == [seq |-> 0, entries |-> {}, latest |-> NoAuthor,
          attention |-> NoAuthor, abandoned |-> FALSE]

\* The author of the newest of a set of entries.
Newest(entries) ==
    IF entries = {} THEN NoAuthor
    ELSE (CHOOSE e \in entries : \A f \in entries : f.seq <= e.seq).from

Open(t) ==
    /\ ledger[t] = Absent
    /\ ledger' = [ledger EXCEPT ![t] = Empty]
    /\ UNCHANGED told

Expire(t) ==
    /\ ledger' = [ledger EXCEPT ![t] = Absent]
    /\ told' = {e \in told : e.txn # t}

\* A new entry takes the next number, whatever has been removed since.
Append(t, a, s) ==
    /\ ledger[t] # Absent
    /\ ledger' = [ledger EXCEPT
         ![t].seq = @ + 1,
         ![t].entries = @ \cup {[seq |-> ledger[t].seq + 1, from |-> a, state |-> s]},
         ![t].latest = a]
    /\ UNCHANGED told

\* The answer to an entry changes that entry and nothing else.
Answer(t, e, s) ==
    /\ ledger' = [ledger EXCEPT ![t].entries = (@ \ {e}) \cup {[e EXCEPT !.state = s]}]
    /\ UNCHANGED told

\* Removing an entry leaves every other one, and the high-water mark.
Remove(t, e) ==
    /\ ledger' = [ledger EXCEPT
         ![t].entries = @ \ {e},
         ![t].latest = Newest(ledger[t].entries \ {e})]
    /\ UNCHANGED told

Note(t, a) ==
    /\ ledger[t] # Absent
    /\ ledger' = [ledger EXCEPT ![t].attention = a]
    /\ UNCHANGED told

Abandon(t) ==
    /\ ledger[t] # Absent
    /\ ledger' = [ledger EXCEPT ![t].abandoned = TRUE]
    /\ UNCHANGED told

\* Waiters hear of entries that are on the list and no longer in flight.
Tell(t, e) ==
    /\ e.state # "in_flight"
    /\ told' = told \cup {[txn |-> t, seq |-> e.seq]}
    /\ UNCHANGED ledger

Init ==
    /\ ledger = [t \in Txn |-> Absent]
    /\ told = {}

Next ==
    \E t \in Txn :
        \/ Open(t)
        \/ Expire(t)
        \/ \E a \in Author, s \in State : Append(t, a, s)
        \/ \E a \in Author \cup {NoAuthor} : Note(t, a)
        \/ Abandon(t)
        \/ /\ ledger[t] # Absent
           /\ \E e \in ledger[t].entries :
                \/ \E s \in State \ {"in_flight"} : Answer(t, e, s)
                \/ Remove(t, e)
                \/ Tell(t, e)

Spec == Init /\ [][Next]_ledgerVars
=============================================================================
