------------------------------ MODULE KeyLock ------------------------------
(***************************************************************************)
(* withKeyLock: the in-process queue that serialises work on one key.      *)
(*                                                                         *)
(* A lock is a Map from key to the promise of the call at the tail of that *)
(* key's queue.  A call chains its work onto that promise, stores a        *)
(* derived promise (its own with rejections caught) in its place, and      *)
(* looks at the slot once more when its own promise has settled.           *)
(*                                                                         *)
(* FlowService's run lock and FeedbackService's incident lock are the same *)
(* function body on another map.                                           *)
(***************************************************************************)
EXTENDS Naturals

CONSTANTS
    Call,       \* the calls of withKeyLock, numbered in the order they are made
    Key,        \* the keys calls contend for
    KeyOf       \* the key each call names

NoCall == 0

ASSUME CallAssumption == Call \subseteq Nat \ {NoCall}
ASSUME KeyAssumption == KeyOf \in [Call -> Key]

VARIABLES
    slot,       \* slot[k]: the promise the map holds for k
    previous,   \* previous[c]: the promise c's work is chained onto
    phase       \* phase[c]: how far call c has come

lockVars == <<slot, previous, phase>>

(***************************************************************************)
(* Promises.  A call makes two: the one it awaits and the caught one that  *)
(* it stores.  Resolved is Promise.resolve(), used when the map has no     *)
(* entry.                                                                  *)
(***************************************************************************)
Current(c) == <<c, "current">>
Caught(c) == <<c, "caught">>
Resolved == <<NoCall, "resolved">>
Promise == (Call \X {"current", "caught"}) \cup {Resolved}

Settling == {"fulfilled", "rejected"}
Over == {"fulfilled", "rejected", "returned", "lost"}
Phase == {"idle", "queued", "running"} \cup Over

Asked(c) == phase[c] # "idle"
Started(c) == phase[c] \notin {"idle", "queued"}
IsOver(c) == phase[c] \in Over

\* Both handlers of then(work, work) run the work, and the stored promise has
\* its rejection caught: a call whose promise settled either way lets the
\* next one in.
Settled(p) == p # Resolved => phase[p[1]] \in Over

LockInit ==
    /\ slot = [k \in Key |-> Resolved]
    /\ previous = [c \in Call |-> Resolved]
    /\ phase = [c \in Call |-> "idle"]

----------------------------------------------------------------------------
\* Mutant: the slot is stored before it is read.
RequestBehindItself(c) ==
    /\ phase[c] = "idle"
    /\ \A d \in Call : d < c => Asked(d)
    /\ previous' = [previous EXCEPT ![c] = Caught(c)]
    /\ slot' = [slot EXCEPT ![KeyOf[c]] = Caught(c)]
    /\ phase' = [phase EXCEPT ![c] = "queued"]

\* The synchronous prefix of withKeyLock: read the slot, chain, store.
Request(c) ==
    /\ phase[c] = "idle"
    /\ \A d \in Call : d < c => Asked(d)
    /\ previous' = [previous EXCEPT ![c] = slot[KeyOf[c]]]
    /\ slot' = [slot EXCEPT ![KeyOf[c]] = Caught(c)]
    /\ phase' = [phase EXCEPT ![c] = "queued"]

\* The predecessor's promise has settled: the work starts.
Start(c) ==
    /\ phase[c] = "queued"
    /\ Settled(previous[c])
    /\ phase' = [phase EXCEPT ![c] = "running"]
    /\ UNCHANGED <<slot, previous>>

\* The work's promise settles.
Settle(c, outcome) ==
    /\ phase[c] = "running"
    /\ phase' = [phase EXCEPT ![c] = outcome]
    /\ UNCHANGED <<slot, previous>>

\* Mutant: every call clears the slot, the tail or not.
ReleaseAlways(c) ==
    /\ phase[c] \in Settling
    /\ slot' = [slot EXCEPT ![KeyOf[c]] = Resolved]
    /\ phase' = [phase EXCEPT ![c] = "returned"]
    /\ UNCHANGED previous

\* The finally block.  The slot is compared with the promise the call awaited.
Release(c) ==
    /\ phase[c] \in Settling
    /\ slot' = [slot EXCEPT ![KeyOf[c]] = IF @ = Current(c) THEN Resolved ELSE @]
    /\ phase' = [phase EXCEPT ![c] = "returned"]
    /\ UNCHANGED previous

\* The process stops and a new one starts with an empty map: calls in
\* progress are never heard of again.
Crash ==
    /\ slot' = [k \in Key |-> Resolved]
    /\ phase' = [c \in Call |-> IF phase[c] \in {"queued", "running"} \cup Settling
                                  THEN "lost" ELSE phase[c]]
    /\ UNCHANGED previous

LockNext ==
    \/ \E c \in Call :
         \/ Request(c)
         \/ Start(c)
         \/ \E outcome \in Settling : Settle(c, outcome)
         \/ Release(c)
    \/ Crash

LockSpec == LockInit /\ [][LockNext]_lockVars

----------------------------------------------------------------------------
LockTypeOK ==
    /\ slot \in [Key -> Promise]
    /\ previous \in [Call -> Promise]
    /\ phase \in [Call -> Phase]

\* Work on a key runs in the order it was asked for: when a call starts, all
\* the calls made before it on its key are over, whatever became of them.
FirstComeFirstServed ==
    \A c, d \in Call : d < c /\ KeyOf[d] = KeyOf[c] /\ Started(c) => IsOver(d)

\* Two calls on one key are never in their critical section together: the
\* read-modify-write inside withKeyLock is atomic to every other user of it.
OneAtATime ==
    \A c, d \in Call :
        phase[c] = "running" /\ phase[d] = "running" /\ KeyOf[c] = KeyOf[d] => c = d

\* A call that queued is served however the calls before it ended: a rejected
\* predecessor does not cancel its successors.
EveryCallIsServed ==
    \A c \in Call : phase[c] = "queued" ~> IsOver(c)

\* "Only the tail clears the slot" (record.service.ts:1254): once the last call
\* on a key has returned, the map holds nothing for that key.
TailClearsSlot ==
    \A k \in Key :
        (\A c \in Call : KeyOf[c] = k => phase[c] \in {"idle", "returned", "lost"})
            => slot[k] = Resolved
=============================================================================
