----------------------------- MODULE RecordStore -----------------------------
(***************************************************************************)
(* RecordService's record operations: a load, a change to the copy and a   *)
(* write of the whole record, under withKeyLock on the transaction's key.  *)
(* The store keeps its contents across a crash, the lock does not.         *)
(*                                                                         *)
(* Each await of the code is a step of its own, so calls on the same       *)
(* record interleave wherever the event loop lets them.  A store operation *)
(* may also reject, before or after it took effect.                        *)
(***************************************************************************)
EXTENDS KeyLock

CONSTANTS Absent

VARIABLES
    record,     \* record[t]: the stored record, or Absent
    payloads,   \* the calls whose payload is in the payload store
    answered,   \* the payloads that hold an answer
    lapsed,     \* the payloads whose 48 hours are over
    told,       \* the entries published to waiters
    op,         \* op[c]: which operation call c is
    of,         \* of[c]: the append whose entry c settles or discards
    at,         \* at[c]: the await c is at
    loaded,     \* loaded[c]: the copy of the record c works on
    got         \* got[c]: the seq an append handed its caller

storeVars == <<record, payloads, answered, lapsed, told>>
workVars == <<op, of, at, loaded, got>>
vars == <<lockVars, storeVars, workVars>>

State == {"in_flight", "settled", "failed"}
Record == [seq : Nat, entries : SUBSET [seq : Nat \ {0}, from : Call, state : State],
           latest : Call \cup {NoCall}, attention : Call \cup {NoCall},
           abandoned : BOOLEAN]

ASSUME AbsentAssumption == Absent \notin Record

Appends == {"send", "receive", "form"}      \* in_flight, inbound, form entries
Answers == {"answer", "fail"}               \* settleApiEntry's two callers
Finishers == Answers \cup {"discard"}
Marks == {"note", "clear", "abandon"}
Op == Appends \cup Finishers \cup Marks
AtStore == {"load", "payload", "save", "refresh", "drop"}
EmptyRecord == [seq |-> 0, entries |-> {}, latest |-> NoCall,
                attention |-> NoCall, abandoned |-> FALSE]

RInit ==
    /\ LockInit
    /\ record = [t \in Key |-> Absent]
    /\ payloads = {} /\ answered = {} /\ lapsed = {} /\ told = {}
    /\ op = [c \in Call |-> "none"]
    /\ of = [c \in Call |-> NoCall]
    /\ at = [c \in Call |-> "none"]
    /\ loaded = [c \in Call |-> Absent]
    /\ got = [c \in Call |-> 0]

Working(c) == phase[c] = "running"
MyRecord(c) == record[KeyOf[c]]

\* c goes on to place p.
GoTo(c, p) == at' = [at EXCEPT ![c] = p] /\ UNCHANGED lockVars
Keep(c, p) == GoTo(c, p) /\ UNCHANGED loaded

\* c's promise settles.
Finish(c, outcome) ==
    /\ at' = [at EXCEPT ![c] = IF outcome = "fulfilled" THEN "end" ELSE "broken"]
    /\ loaded' = [loaded EXCEPT ![c] = Absent]
    /\ Settle(c, outcome)

\* A store operation that took effect is answered, or its answer is lost.
AnsweredOrLost(c, p) == Keep(c, p) \/ Finish(c, "rejected")

----------------------------------------------------------------------------
\* createTransaction: not under the lock, for an id nobody works on yet: one
\* just minted, or one a participant chose.  (That two adoptions of one id may
\* both come here, the later over the earlier's record, is in FlowRun.)
CreateTransaction(t) ==
    /\ record[t] = Absent
    /\ \A c \in Call : KeyOf[c] = t => ~Asked(c)
    /\ record' = [record EXCEPT ![t] = EmptyRecord]
    /\ UNCHANGED <<lockVars, payloads, answered, lapsed, told, workVars>>

\* A record outlives its last write by 48 hours, so it does not expire while a
\* call that has loaded it is still at work.
ExpireRecord(t) ==
    /\ record[t] # Absent
    /\ \A c \in Call : KeyOf[c] = t => ~Working(c)
    /\ record' = [record EXCEPT ![t] = Absent]
    /\ told' = {e \in told : e.txn # t}
    /\ UNCHANGED <<lockVars, payloads, answered, lapsed, workVars>>

\* A payload is a key of its own, with 48 hours from its last save; a write of
\* the record that names it gives the record another 48 and the payload none.
\* No call is at work for that long, nor waits so long to finish its send.  The
\* expiry of a payload that no entry names is left out: nobody can ask for it.
ExpirePayload(c) ==
    /\ c \in payloads /\ MyRecord(c) # Absent
    /\ \E e \in MyRecord(c).entries : e.from = c
    /\ \A d \in Call : d = c \/ of[d] = c => phase[d] \in {"returned", "lost"}
    /\ payloads' = payloads \ {c}
    /\ answered' = answered \ {c}
    /\ lapsed' = lapsed \cup {c}
    /\ UNCHANGED <<lockVars, record, told, workVars>>

\* dispatchSend finishes the entry its append made: once, or again as failed
\* when recording the answer rejected.
MayFinish(a, o) ==
    /\ op[a] = "send" /\ phase[a] = "returned" /\ at[a] = "end"
    /\ a \notin lapsed
    /\ \A d \in Call : of[d] = a =>
         o = "fail" /\ op[d] = "answer" /\ phase[d] = "returned" /\ at[d] = "broken"

Ask(c, o, a) ==
    /\ IF o \in Finishers
         THEN a # NoCall /\ KeyOf[a] = KeyOf[c] /\ MayFinish(a, o)
         ELSE a = NoCall
    /\ Request(c)
    /\ op' = [op EXCEPT ![c] = o]
    /\ of' = [of EXCEPT ![c] = a]
    /\ UNCHANGED <<storeVars, at, loaded, got>>

Begin(c) ==
    /\ Start(c)
    /\ at' = [at EXCEPT ![c] = "load"]
    /\ UNCHANGED <<storeVars, op, of, loaded, got>>

\* The load.  Without a record most operations throw NotFoundError; the
\* finishing ones ignore a missing record or a missing entry.
HasWork(c) ==
    /\ MyRecord(c) # Absent
    /\ op[c] \in Finishers => \E e \in MyRecord(c).entries : e.seq = got[of[c]]

\* Mutant: the record names the payload before the payload is stored.
LoadThenSave(c) ==
    /\ Working(c) /\ at[c] = "load" /\ HasWork(c)
    /\ loaded' = [loaded EXCEPT ![c] = MyRecord(c)]
    /\ GoTo(c, "save")
    /\ UNCHANGED <<storeVars, op, of, got>>

Load(c) ==
    /\ Working(c) /\ at[c] = "load"
    /\ \/ /\ HasWork(c)
          /\ loaded' = [loaded EXCEPT ![c] = MyRecord(c)]
          /\ GoTo(c, IF op[c] \in {"send", "receive"} THEN "payload" ELSE "save")
       \/ /\ ~HasWork(c)
          /\ Finish(c, IF op[c] \in Finishers THEN "fulfilled" ELSE "rejected")
    /\ UNCHANGED <<storeVars, op, of, got>>

\* savePayload, before the record names the payload.
SavePayload(c) ==
    /\ Working(c) /\ at[c] = "payload"
    /\ payloads' = payloads \cup {c}
    /\ AnsweredOrLost(c, "save")
    /\ UNCHANGED <<record, answered, lapsed, told, op, of, got>>

WithEntry(r, c) ==
    [r EXCEPT !.seq = @ + 1,
              !.entries = @ \cup {[seq |-> r.seq + 1, from |-> c,
                                   state |-> IF op[c] = "send" THEN "in_flight" ELSE "settled"]},
              !.latest = c]

WithAnswer(r, seq, s) ==
    [r EXCEPT !.entries = {IF e.seq = seq THEN [e EXCEPT !.state = s] ELSE e : e \in @}]

\* Mutants: the number is handed out again; the latest entry stays as it was.
WithoutRewinding(r, seq) ==
    [r EXCEPT !.entries = {e \in @ : e.seq # seq}, !.seq = @ - 1]
WithoutRelabel(r, seq) ==
    [r EXCEPT !.entries = {e \in @ : e.seq # seq}]

\* The newest survivor becomes the latest, whatever was latest before the
\* discarded entry; seq stays where it is.
Without(r, seq) ==
    LET left == {e \in r.entries : e.seq # seq}
    IN  [r EXCEPT !.entries = left,
                  !.latest = IF left = {} THEN NoCall
                             ELSE (CHOOSE e \in left : \A f \in left : f.seq <= e.seq).from]

Updated(r, c) ==
    CASE op[c] \in Appends -> WithEntry(r, c)
      [] op[c] = "answer"  -> WithAnswer(r, got[of[c]], "settled")
      [] op[c] = "fail"    -> WithAnswer(r, got[of[c]], "failed")
      [] op[c] = "discard" -> Without(r, got[of[c]])
      [] op[c] = "note"    -> [r EXCEPT !.attention = c]
      [] op[c] = "clear"   -> [r EXCEPT !.attention = NoCall]
      [] op[c] = "abandon" -> [r EXCEPT !.abandoned = TRUE]

\* Mutant: waiters are told before the payload has the answer.
AfterSaveTell(c) ==
    CASE op[c] = "discard"  -> "drop"
      [] OTHER              -> "publish"

AfterSave(c) ==
    CASE op[c] \in Answers  -> "refresh"
      [] op[c] = "discard"  -> "drop"
      [] OTHER              -> "publish"

\* saveTransaction: the whole record, as changed from the loaded copy.
SaveTransaction(c) ==
    /\ Working(c) /\ at[c] = "save"
    /\ record' = [record EXCEPT ![KeyOf[c]] = Updated(loaded[c], c)]
    /\ AnsweredOrLost(c, AfterSave(c))
    /\ UNCHANGED <<payloads, answered, lapsed, told, op, of, got>>

\* The settled payload, saved again with its answer.
RefreshPayload(c) ==
    /\ Working(c) /\ at[c] = "refresh"
    /\ answered' = answered \cup (payloads \cap {of[c]})
    /\ AnsweredOrLost(c, "publish")
    /\ UNCHANGED <<record, payloads, lapsed, told, op, of, got>>

\* deletePayload, once no entry names it.
DropPayload(c) ==
    /\ Working(c) /\ at[c] = "drop"
    /\ payloads' = payloads \ {of[c]}
    /\ answered' = answered \ {of[c]}
    /\ Finish(c, "fulfilled") \/ Finish(c, "rejected")
    /\ UNCHANGED <<record, lapsed, told, op, of, got>>

\* The work's last, synchronous part: publish (a send is silent) and return.
Publish(c) ==
    /\ Working(c) /\ at[c] = "publish"
    /\ LET seq == IF op[c] \in Answers THEN got[of[c]] ELSE loaded[c].seq + 1
       IN  /\ told' = IF op[c] \in {"receive", "form"} \cup Answers
                        THEN told \cup {[txn |-> KeyOf[c], seq |-> seq]} ELSE told
           /\ got' = IF op[c] \in Appends THEN [got EXCEPT ![c] = seq] ELSE got
    /\ Finish(c, "fulfilled")
    /\ UNCHANGED <<record, payloads, answered, lapsed, op, of>>

\* A store operation rejects without effect.
StoreRejects(c) ==
    /\ Working(c) /\ at[c] \in AtStore
    /\ Finish(c, "rejected")
    /\ UNCHANGED <<storeVars, op, of, got>>

Return(c) ==
    /\ Release(c)
    /\ UNCHANGED <<storeVars, workVars>>

\* The process dies with calls under way; the callers of the calls it had served
\* die with it.  (With none under way, all it does is that those callers never
\* finish their sends, and no caller has to.)
Restart ==
    /\ \E c \in Call : phase[c] \in {"queued", "running"} \cup Settling
    /\ Crash
    /\ at' = [c \in Call |-> "none"]
    /\ loaded' = [c \in Call |-> Absent]
    /\ UNCHANGED <<storeVars, op, of, got>>

Work(c) ==
    \/ Begin(c)
    \/ Load(c)
    \/ SavePayload(c)
    \/ SaveTransaction(c)
    \/ RefreshPayload(c)
    \/ DropPayload(c)
    \/ Publish(c)
    \/ StoreRejects(c)
    \/ Return(c)

RNext ==
    \/ \E c \in Call :
         \/ \E o \in Op, a \in Call \cup {NoCall} : Ask(c, o, a)
         \/ Work(c)
         \/ ExpirePayload(c)
    \/ \E t \in Key : CreateTransaction(t) \/ ExpireRecord(t)
    \/ Restart

RSpec == RInit /\ [][RNext]_vars

\* The event loop runs what is ready and the store answers or rejects.
RFairSpec == RSpec /\ \A c \in Call : WF_vars(Work(c))

----------------------------------------------------------------------------
RTypeOK ==
    /\ record \in [Key -> Record \cup {Absent}]
    /\ payloads \subseteq Call /\ answered \subseteq Call /\ lapsed \subseteq Call
    /\ told \subseteq [txn : Key, seq : Nat]
    /\ op \in [Call -> Op \cup {"none"}]
    /\ of \in [Call -> Call \cup {NoCall}]
    /\ at \in [Call -> AtStore \cup {"none", "publish", "end", "broken"}]
    /\ loaded \in [Call -> Record \cup {Absent}]
    /\ got \in [Call -> Nat]

\* Whatever the record names was stored before it was named, and nothing but
\* its own 48 hours takes it from the store: no rejection, no crash and no
\* discard leaves an entry without its payload.
EntriesHavePayloads ==
    \A t \in Key : record[t] # Absent =>
        \A e \in record[t].entries :
            op[e.from] = "form" \/ e.from \in payloads \/ e.from \in lapsed

\* "expire with the transaction" (record.service.ts:1222): a payload a live
\* record names is in the store.  Not so: see RecordPayloads.cfg.
PayloadsOutlastTheRecord ==
    \A t \in Key : record[t] # Absent =>
        \A e \in record[t].entries : op[e.from] = "form" \/ e.from \in payloads

\* The high-water mark never falls while the record lives: a cursor a waiter
\* was given is never handed out for another entry.
SeqNeverRewinds ==
    [][\A t \in Key : record[t] # Absent /\ record'[t] # Absent
          => /\ record[t].seq <= record'[t].seq
             /\ \A e \in record'[t].entries \ record[t].entries :
                  e.seq > record[t].seq \/ \E f \in record[t].entries : f.seq = e.seq /\ f.from = e.from]_vars

\* A waiter woken by an event finds the work: the entry is stored, its
\* outcome known, and the payload of an answered send holds the answer.
ToldIsDurable ==
    [][\A m \in told' \ told :
          /\ record'[m.txn] # Absent
          /\ \E e \in record'[m.txn].entries :
               /\ e.seq = m.seq
               /\ e.state # "in_flight"
               /\ op[e.from] = "send" => e.from \in answered']_vars

\* Every load-modify-save is one step of the list the caller has in mind.
L == INSTANCE Ledger WITH Txn <- Key, Author <- Call, NoAuthor <- NoCall, ledger <- record
ImplementsLedger == L!Spec
=============================================================================
